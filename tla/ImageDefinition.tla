-------------------------- MODULE ImageDefinition --------------------------
(***************************************************************************)
(* How an image definition becomes a Dockerfile, and what Docker makes of  *)
(* it: image/builder.py (Image.to_spec), image/base_dockerfile.py, the     *)
(* BuildContext of api/plugin.py and the plugins of plugins/defaults,      *)
(* plugins/plugin-utils and plugins/openhands.                             *)
(*                                                                         *)
(* Compiling walks the plugins in order.  Each first updates the context   *)
(* (`ctx`) and then emits its fragment, knowing the context but not the    *)
(* fragments before it.  `box` is what those fragments come to when Docker *)
(* runs them: the active USER, the commands that needed root and did not   *)
(* run as root, where the project's files are and whose.  A path is the    *)
(* sequence of its segments, a USER a record of a name and a group.        *)
(***************************************************************************)
EXTENDS Integers, FiniteSets, SequencesExt, FiniteSetsExt

CONSTANTS
  Base,         \* the base definitions an author may give
  Plugin,       \* the plugins an author may chain
  MaxPlugins,   \* how many of them (bound)
  Numeric,      \* the user names that are numbers
  Variable,     \* the user names that are build variables
  None          \* an absent value

VARIABLES
  phase,        \* "new", "open", "done" or "refused"
  base,         \* the base of this definition
  plugins,      \* the plugins applied so far
  ctx,          \* the BuildContext
  box,          \* the image the emitted fragments build
  warnings      \* the caveats recorded on the spec

vars == <<phase, base, plugins, ctx, box, warnings>>

\* A USER and its group; None for the group named like the user.
User(name, group) == [name |-> name, group |-> group]
RootUser == User("root", None)
IsRoot(user) == user.name \in {"root", "0"}
\* The user:group a plugin gives files to.
OwnerOf(user) == User(user.name, IF user.group = None THEN user.name ELSE user.group)

Work(home) == home \o <<"work">>
UnderRoot(path) == Len(path) > 1 /\ Head(path) = "root"

-----------------------------------------------------------------------------
(* The base: a registry image (no stages) or the stages of a Dockerfile,     *)
(* with the name of the one picked.  Stage names ignore case.                *)

SameName(a, b) == a.name = b.name
BaseAlias == [name |-> "idegym_base", upper |-> FALSE]
Reserved(alias) == alias.name = "idegym_base" /\ ~alias.upper

ImageDefinitionAssumption ==
  /\ MaxPlugins \in Nat /\ Numeric \cap Variable = {} /\ None # BaseAlias
  /\ \A p \in Plugin : /\ p.kind = "user" => p.user # None
                       /\ p.kind = "project" => p.source \in {"git", "local", "archive"}
  /\ \A b \in Base :
       /\ b.stages \in Seq(Range(b.stages))
       /\ \A s \in Range(b.stages) : s = [image |-> s.image, alias |-> s.alias, user |-> s.user]

Matches(b) == {i \in DOMAIN b.stages : /\ b.stages[i].alias # None
                                       /\ SameName(b.stages[i].alias, b.pick)}

\* Text that cannot be merged into the build.
Refuses(b) ==
  /\ b.stages # <<>>
  /\ \/ \E i \in DOMAIN b.stages : b.stages[i].alias # None /\ Reserved(b.stages[i].alias)
     \/ b.pick # None /\ Matches(b) = {}

Target(b) == IF b.pick = None THEN Len(b.stages) ELSE Max(Matches(b))

\* The earlier stages that stage i may be built from.
Parents(b, i) == {j \in 1 .. i - 1 : /\ b.stages[j].alias # None
                                     /\ SameName(b.stages[j].alias, b.stages[i].image)}

\* Mutant: the first stage of that name is taken.
StageUsersFirst(b) ==
  LET users[i \in DOMAIN b.stages] ==
        IF b.stages[i].user # None THEN b.stages[i].user
        ELSE IF Parents(b, i) = {} THEN None
        ELSE users[Min(Parents(b, i))]
  IN users
\* The USER each stage ends with: its own, or that of the stage it is built from.
StageUsers(b) ==
  LET users[i \in DOMAIN b.stages] ==
        IF b.stages[i].user # None THEN b.stages[i].user
        ELSE IF Parents(b, i) = {} THEN None
        ELSE users[Max(Parents(b, i))]
  IN users

BaseUser(b) == IF b.stages = <<>> THEN None ELSE StageUsers(b)[Target(b)]

\* The stages as emitted: the picked one has a name to build on.
Body(b) == [b.stages EXCEPT ![Target(b)].alias = IF @ = None THEN BaseAlias ELSE @]

\* Docker reads the stages from the top: a name means the last stage so called.
DockerUsers(b) ==
  FoldLeft(LAMBDA known, s :
             LET from == known[s.image.name]
                 user == IF s.user # None THEN s.user ELSE from
             IN [n \in DOMAIN known |->
                   IF s.alias # None /\ n = s.alias.name THEN user ELSE known[n]],
           [n \in {s.image.name : s \in Range(b.stages)}
                    \cup {s.alias.name : s \in {t \in Range(Body(b)) : t.alias # None}} |-> None],
           Body(b))

\* The user of the image that FROM <alias> starts from; None where only a registry knows.
DockerBaseUser(b) ==
  IF b.stages = <<>> THEN None ELSE DockerUsers(b)[Body(b)[Target(b)].alias.name]

-----------------------------------------------------------------------------
(* The context the plugins start from, and the image it starts from.         *)

Fresh == [user |-> RootUser, home |-> <<"root">>, root |-> Work(<<"root">>),
          project |-> FALSE, fetched |-> FALSE, enabled |-> {}]

Unresolved(b) == BaseUser(b) # None /\ BaseUser(b).name \in Variable

BaseContext(b) ==
  LET user == BaseUser(b)
      home == <<"home", user.name>>
  IN IF user = None \/ Unresolved(b) \/ IsRoot(user) THEN Fresh
     ELSE IF user.name \in Numeric THEN [Fresh EXCEPT !.user = user]
     ELSE [Fresh EXCEPT !.user = user, !.home = home, !.root = Work(home)]

\* The value of $IDEGYM_PROJECT_ROOT that the header sets: known only in the end.
AtTheEnd == <<"$IDEGYM_PROJECT_ROOT">>

\* FROM <base>, USER root.
Header == [user |-> RootUser, denied |-> {}, env |-> AtTheEnd, found |-> {}, owned |-> {},
           reads |-> {}, enabled |-> {}]

Switch(b, user) == [b EXCEPT !.user = user]
\* A command that needs root.
Needs(b, what) == IF IsRoot(b.user) THEN b ELSE [b EXCEPT !.denied = @ \cup {what}]
Chown(b, dir, owner) ==
  [b EXCEPT !.owned = {o \in @ : o[1] # dir} \cup {<<dir, owner>>}]
Find(b, dir) == [b EXCEPT !.found = @ \cup {dir}]

\* BuildContext.as_root: what comes before a fragment that needs root, and after it.
EnterRoot(c, b) == IF IsRoot(c.user) THEN b ELSE Switch(b, RootUser)
LeaveRoot(c, b) == IF IsRoot(c.user) THEN b ELSE Switch(b, c.user)

\* Mutant: written as whoever the fragment before left active.
McpFragmentAsIs(c, b) == Needs(b, "mcp")
\* The file that registers a plugin's MCP server, written after its own fragment.
McpFragment(c, b) ==
  LeaveRoot(c, Needs(EnterRoot(c, b), "mcp"))

-----------------------------------------------------------------------------
(* apply() of each kind of plugin, and the fragment of its render().         *)

\* base-system, permissions, mcp-upstream: a fragment that needs root, and no more.
SystemFragment(b) == Needs(b, "system")

\* Mutant: a project placed before moves, too.
UserContextMoves(c, p) == [c EXCEPT !.user = p.user, !.home = p.home, !.root = Work(p.home)]
\* A user plugin: the project moves with the home unless it was placed before.
UserContext(c, p) ==
  [c EXCEPT !.user = p.user, !.home = p.home,
            !.root = IF c.project THEN @ ELSE Work(p.home)]

\* The last USER of raw lines is the one the build goes on as.
RawContext(c, p) == IF p.user = None THEN c ELSE [c EXCEPT !.user = p.user]
RawFragment(b, p) ==
  LET ran == Needs(b, "raw") IN IF p.user = None THEN ran ELSE Switch(ran, p.user)

ProjectContext(c, p) ==
  [c EXCEPT !.root = IF p.target = None THEN Work(c.home) ELSE p.target,
            !.project = TRUE, !.fetched = @ \/ p.source = "git"]

\* Copied from the context, downloaded in place, or extracted where the ENV says.
ProjectFragment(c, b, p) ==
  LET owner == IF p.owner = None THEN OwnerOf(c.user) ELSE p.owner
      copied == IF p.owner = None THEN OwnerOf(RootUser) ELSE p.owner
  IN CASE p.source = "local" -> Chown(Find(b, c.root), c.root, copied)
       [] p.source = "archive" -> Chown(Find(Needs(b, "project"), c.root), c.root, owner)
       [] p.source = "git" -> Chown(Find(Needs(b, "project"), b.env), c.root, owner)

\* An IDE or the OpenHands tools, started by supervisor on the project.
ServiceContext(c, p) == [c EXCEPT !.enabled = @ \cup {p.name}]
ServiceFragment(c, b, p) ==
  LET installed == Needs(Switch(b, RootUser), p.name)
      ready == [installed EXCEPT !.reads = IF c.project \/ p.always THEN @ \cup {c.root} ELSE @]
  IN Switch(ready, IF p.user = None THEN c.user ELSE User(p.user, None))
HasUpstream(c, p) == p.always \/ c.project

\* The idegym server: takes the project over, and goes on as the image's user.
ServerFragment(c, b) ==
  LET placed == [Needs(b, "server") EXCEPT !.env = c.root, !.enabled = c.enabled]
  IN Switch(Chown(placed, c.root, OwnerOf(c.user)), c.user)

-----------------------------------------------------------------------------
Init ==
  /\ phase = "new" /\ base \in Base /\ plugins = <<>>
  /\ ctx = Fresh /\ box = Header /\ warnings = {}

\* Validation, and the context the base gives.
Start ==
  /\ phase = "new"
  /\ IF Refuses(base) THEN phase' = "refused" /\ UNCHANGED <<ctx, warnings>>
     ELSE /\ phase' = "open"
          /\ ctx' = BaseContext(base)
          /\ warnings' = IF Unresolved(base) THEN {"variable"} ELSE {}
  /\ UNCHANGED <<base, plugins, box>>

\* Plugin p goes next, with the context c after apply() and the image b after render().
Applied(p, c, b) ==
  /\ phase = "open" /\ Len(plugins) < MaxPlugins
  /\ plugins' = Append(plugins, p)
  /\ ctx' = c /\ box' = b
  /\ UNCHANGED <<phase, base, warnings>>

AddSystem(p) ==
  /\ p.kind = "system"
  /\ Applied(p, ctx, LeaveRoot(ctx, SystemFragment(EnterRoot(ctx, box))))

AddUser(p) ==
  /\ p.kind = "user"
  /\ LET c == UserContext(ctx, p)
     IN Applied(p, c, LeaveRoot(c, Needs(EnterRoot(c, box), "user")))

AddRawLines(p) ==
  /\ p.kind = "raw"
  /\ LET c == RawContext(ctx, p)
     IN Applied(p, c, LeaveRoot(c, RawFragment(EnterRoot(c, box), p)))

AddProject(p) ==
  /\ p.kind = "project" /\ ~(p.source = "git" /\ ctx.fetched)
  /\ LET c == ProjectContext(ctx, p)
     IN Applied(p, c, LeaveRoot(c, ProjectFragment(c, EnterRoot(c, box), p)))

\* Only one downloaded project: the second is an error.
SecondProject(p) ==
  /\ phase = "open" /\ Len(plugins) < MaxPlugins
  /\ p.kind = "project" /\ p.source = "git" /\ ctx.fetched
  /\ phase' = "refused"
  /\ UNCHANGED <<base, plugins, ctx, box, warnings>>

AddService(p) ==
  /\ p.kind = "service"
  /\ LET c == ServiceContext(ctx, p)
         b == ServiceFragment(c, box, p)
     IN Applied(p, c, IF HasUpstream(c, p) THEN McpFragment(c, b) ELSE b)

AddServer(p) ==
  /\ p.kind = "server"
  /\ Applied(p, ctx, LeaveRoot(ctx, ServerFragment(ctx, EnterRoot(ctx, box))))

\* The image as Docker finishes it; a definition that adds nothing is its base.
Image(commands) ==
  IF plugins = <<>> /\ ~commands THEN Switch(box, DockerBaseUser(base))
  ELSE [Switch(box, ctx.user) EXCEPT
          !.found = {IF d = AtTheEnd THEN ctx.root ELSE d : d \in @}]

Compile(commands) ==
  /\ phase = "open" /\ phase' = "done"
  /\ box' = Image(commands)
  /\ warnings' = IF ctx.project /\ ~IsRoot(ctx.user) /\ UnderRoot(ctx.root)
                 THEN warnings \cup {"closed"} ELSE warnings
  /\ UNCHANGED <<base, plugins, ctx>>

Next ==
  \/ Start
  \/ \E p \in Plugin :
       \/ AddSystem(p) \/ AddUser(p) \/ AddRawLines(p) \/ AddProject(p)
       \/ SecondProject(p) \/ AddService(p) \/ AddServer(p)
  \/ \E commands \in BOOLEAN : Compile(commands)

Spec == Init /\ [][Next]_vars

-----------------------------------------------------------------------------
(* Properties.                                                               *)

Kinds(set) == {i \in DOMAIN plugins : plugins[i].kind \in set}

\* The plugins keep to the users the context knows: no service hands the build
\* over to a user of its own, and none turns it back to root.
KnownUsers ==
  \A i \in DOMAIN plugins :
    /\ plugins[i].kind = "service" => plugins[i].user = None
    /\ plugins[i].kind \in {"user", "raw"} =>
         plugins[i].user = None \/ ~IsRoot(plugins[i].user)

\* Every command that needs root runs as root, whatever user the base, the
\* plugins before it and their fragments left active.
PrivilegedAsRoot == KnownUsers => box.denied = {}

\* The plugins that name a user.
Named == {i \in Kinds({"user", "raw"}) : plugins[i].user # None}

\* The image ends as the last user its definition names, group included, else as
\* the user Docker gives the base stage; the only exceptions are root and a
\* variable, and the variable is reported.
EndsAsNamed ==
  phase = "done" =>
    IF Named # {} THEN box.user = plugins[Max(Named)].user
    ELSE \/ box.user = DockerBaseUser(base)
         \/ /\ box.user = RootUser
            /\ \/ DockerBaseUser(base) = None
               \/ IsRoot(DockerBaseUser(base))
               \/ "variable" \in warnings

\* The order the documentation asks for: one project, the services after it and
\* after the users, the server last.
InOrder ==
  /\ plugins # <<>> /\ Last(plugins).kind = "server"
  /\ Cardinality(Kinds({"server"})) = 1 /\ Cardinality(Kinds({"project"})) = 1
  /\ \A i \in Kinds({"service"}), j \in Kinds({"project", "user", "raw"}) : j < i

\* In an image put together in order, the project's files are where the context
\* says, which is where every service looks for them, they belong to the user the
\* image runs as, every service is enabled, and a closed directory is reported.
ProjectUsable ==
  phase = "done" /\ InOrder =>
    /\ box.found = {ctx.root} /\ box.reads \subseteq {ctx.root}
    /\ <<ctx.root, OwnerOf(box.user)>> \in box.owned
    /\ box.enabled = {plugins[i].name : i \in Kinds({"service"})}
    /\ UnderRoot(ctx.root) /\ ~IsRoot(box.user) => "closed" \in warnings

\* The builder's promise for the file that registers an MCP server: "the write
\* always succeeds regardless of where in the pipeline the plugin sits".
McpWriteSucceeds == "mcp" \notin box.denied

\* The documentation's promise for raw lines: they run as root, like every
\* plugin's fragment.
LinesRunAsRoot == "raw" \notin box.denied
=============================================================================
