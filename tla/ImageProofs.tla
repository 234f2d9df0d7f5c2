----------------------------- MODULE ImageProofs -----------------------------
(***************************************************************************)
(* Theorems about what a caller defines before there is a server, for      *)
(* every value of the constants: ImageDefinition, for definitions of any   *)
(* length, and Dockerfile, for texts of any length, as the run session     *)
(* puts them beside other modules.  They share no state, so a step of the  *)
(* whole is a step of one and leaves the others alone (SideBySide).        *)
(*                                                                         *)
(* Who is root.  A fragment sees the context, never the image.  What it    *)
(* needs to know of the image is whether root is active, and the context   *)
(* says so in one direction only: when its user is root, so is the image's *)
(* (Agree).  When it is another, a fragment switches to root and back.  A  *)
(* service that leaves a user of its own active breaks Agree, which is why *)
(* KnownUsers is needed.                                                   *)
(*                                                                         *)
(* Whose the image is.  What the reading of a base makes of its stages is  *)
(* what Docker does, stage by stage: a name stands for the last stage that *)
(* was given it (DockerUsersAre, BaseUserIsDockers).  From there on the    *)
(* context's user is the one that was named last, or else the base's, and  *)
(* in the end the image's (UserInv).                                       *)
(*                                                                         *)
(* Where the project is.  While plugins come in order, the first project   *)
(* is where the context says, belongs to the user, and the services that   *)
(* follow look for it there (InPlace, PlaceInv).                           *)
(*                                                                         *)
(* How a Dockerfile is read.  What an instruction's lines are, and those   *)
(* of the instructions after it, is defined by recursion from the end of   *)
(* the text: such a function exists and is what its definition says, as    *)
(* two of them for longer and longer texts agree (PartsAre, FromAre,       *)
(* StatesAre).  Docker reads from the beginning.  The two meet at the      *)
(* first line of an instruction, where Docker is between two: the lines    *)
(* joined are the same (InstructionJoins); the heredocs end where as many  *)
(* delimiters have come as were opened, which Docker counts down and the   *)
(* reading counts up (CountReached, BodiesEnd); and what comes after is    *)
(* read alike, by induction from the end (FaithfulFrom).                   *)
(***************************************************************************)
EXTENDS MCSession, Sequences, FiniteSets, SequenceTheorems, FiniteSetTheorems,
        WellFoundedInduction, TLAPS

\* A step is one of one module, and the others stand still.
LEMMA SideBySide ==
  ASSUME [Next]_vars
  PROVE  /\ [I!Next]_iVars /\ [C!Next]_cVars /\ [S!Next]_sVars /\ [D!Next]_dVars
         /\ [B!Next]_bVars /\ [O!Next]_oVars /\ [X!Next]_xVars /\ [P!Next]_pVars /\ [A!Next]_aVars /\ [F!Next]_fVars
         /\ [T!Next]_text /\ UNCHANGED which
BY DEF Next, ImageNext, TextNext, StagingNext, ClientNext, StartNext, QuotaNext, SocketNext,
   BashNext, OutputNext, TransferNext, ShellNext, StoreNext, vars

\* A set of numbers has a least one.
LEMMA LeastNumber ==
  ASSUME NEW N, N \subseteq Nat, N # {}
  PROVE  \E n \in N : \A k \in N : n <= k
<1> DEFINE R == OpToRel(<, Nat)
<1>1. IsWellFoundedOn(R, Nat)
  BY NatLessThanWellFounded
<1>2. \A k, n \in Nat : k < n => <<k, n>> \in R
  BY DEF OpToRel
<1> HIDE DEF R
<1>3. PICK n \in N : \A k \in N : ~(<<k, n>> \in R)
  BY <1>1, WFMin, Zenon
<1>4. ASSUME NEW k \in N PROVE n <= k
  <2>1. k \in Nat /\ n \in Nat
    OBVIOUS
  <2>2. ~(k < n)
    BY <1>2, <1>3, <2>1, Zenon
  <2> QED BY <2>1, <2>2
<1> QED BY <1>4

-----------------------------------------------------------------------------
(* ImageDefinition.                                                        *)

\* The fields of an image and of a context.
IsImage(b) ==
  b \in [user : {b.user}, denied : {b.denied}, env : {b.env}, found : {b.found},
         owned : {b.owned}, reads : {b.reads}, enabled : {b.enabled}]
IsContext(c) ==
  c \in [user : {c.user}, home : {c.home}, root : {c.root}, project : {c.project},
         fetched : {c.fetched}, enabled : {c.enabled}]

ImageTyping == IsImage(box) /\ IsContext(ctx) /\ plugins \in Seq(Plugin)

Agree == I!IsRoot(ctx.user) => I!IsRoot(box.user)

ImageInv ==
  /\ ImageTyping
  /\ phase = "new" => box = I!Header /\ plugins = <<>>
  /\ I!KnownUsers => box.denied = {} /\ (phase = "open" => Agree)

-----------------------------------------------------------------------------
\* Nothing is denied to root, and only the user of an image changes.
LEMMA NeedsAsRoot ==
  ASSUME NEW b, IsImage(b), NEW what
  PROVE  /\ IsImage(I!Needs(b, what)) /\ I!Needs(b, what).user = b.user
         /\ I!IsRoot(b.user) => I!Needs(b, what) = b
BY DEF I!Needs, IsImage

LEMMA SwitchChangesUser ==
  ASSUME NEW b, IsImage(b), NEW user
  PROVE  /\ IsImage(I!Switch(b, user)) /\ I!Switch(b, user).user = user
         /\ I!Switch(b, user).denied = b.denied
BY DEF I!Switch, IsImage

LEMMA FindAndChown ==
  ASSUME NEW b, IsImage(b), NEW place, NEW who
  PROVE  /\ IsImage(I!Find(b, place)) /\ I!Find(b, place).user = b.user /\ I!Find(b, place).denied = b.denied
         /\ IsImage(I!Chown(b, place, who)) /\ I!Chown(b, place, who).user = b.user
         /\ I!Chown(b, place, who).denied = b.denied
<1> DEFINE owned == {o \in b.owned : o[1] # place} \cup {<<place, who>>}
<1>1. I!Chown(b, place, who) = [b EXCEPT !.owned = owned]
  BY DEF I!Chown
<1> HIDE DEF owned
<1> QED BY <1>1 DEF I!Find, IsImage

LEMMA ProjectKeepsUser ==
  ASSUME NEW c, NEW b, IsImage(b), NEW p, p.source \in {"git", "local", "archive"}
  PROVE  /\ IsImage(I!ProjectFragment(c, b, p)) /\ I!ProjectFragment(c, b, p).user = b.user
         /\ I!IsRoot(b.user) => I!ProjectFragment(c, b, p).denied = b.denied
<1> DEFINE x == IF p.source = "local" THEN b ELSE I!Needs(b, "project")
           place == IF p.source = "git" THEN b.env ELSE c.root
           who == IF p.owner # None THEN p.owner
                    ELSE I!OwnerOf(IF p.source = "local" THEN I!RootUser ELSE c.user)
<1>1. I!ProjectFragment(c, b, p) = I!Chown(I!Find(x, place), c.root, who)
  BY DEF I!ProjectFragment
<1>2. IsImage(x) /\ x.user = b.user /\ (I!IsRoot(b.user) => x.denied = b.denied)
  BY NeedsAsRoot
<1> HIDE DEF x, place, who
<1> QED BY <1>1, <1>2, FindAndChown

\* The plugins of before know their users if those of after do; so does the last.
LEMMA KnownBefore ==
  ASSUME NEW p \in Plugin, plugins \in Seq(Plugin), plugins' = Append(plugins, p), I!KnownUsers'
  PROVE  /\ I!KnownUsers /\ plugins' \in Seq(Plugin)
         /\ p.kind = "service" => p.user = None
         /\ p.kind \in {"user", "raw"} => p.user = None \/ ~I!IsRoot(p.user)
<1>1. /\ plugins' \in Seq(Plugin) /\ Len(plugins') = Len(plugins) + 1
      /\ DOMAIN plugins = 1 .. Len(plugins) /\ DOMAIN plugins' = 1 .. Len(plugins) + 1
      /\ plugins'[Len(plugins) + 1] = p
      /\ \A i \in DOMAIN plugins : plugins'[i] = plugins[i]
  OBVIOUS
<1>2. I!KnownUsers
  BY <1>1 DEF I!KnownUsers
<1> QED BY <1>1, <1>2 DEF I!KnownUsers

-----------------------------------------------------------------------------
\* A plugin was added, with the context c and the image b after it.
LEMMA AddKeepsImage ==
  ASSUME ImageInv, NEW p \in Plugin, NEW c, NEW b, I!Applied(p, c, b), IsContext(c), IsImage(b),
         I!KnownUsers /\ I!KnownUsers' => b.denied = {} /\ (I!IsRoot(c.user) => I!IsRoot(b.user))
  PROVE  ImageInv'
<1>1. /\ phase = "open" /\ phase' = "open"
      /\ plugins' = Append(plugins, p) /\ ctx' = c /\ box' = b
  BY DEF I!Applied
<1>2. plugins \in Seq(Plugin) /\ plugins' \in Seq(Plugin)
  BY <1>1 DEF ImageInv, ImageTyping
<1>3. I!KnownUsers' => I!KnownUsers
  BY <1>1, <1>2, KnownBefore
<1> QED BY <1>1, <1>2, <1>3 DEF ImageInv, ImageTyping, Agree

\* The user of a plugin that was added, when all are known.
LEMMA AddedUser ==
  ASSUME ImageInv, NEW p \in Plugin, NEW c, NEW b, I!Applied(p, c, b), I!KnownUsers'
  PROVE  /\ p.kind = "service" => p.user = None
         /\ p.kind \in {"user", "raw"} => p.user = None \/ ~I!IsRoot(p.user)
BY KnownBefore DEF I!Applied, ImageInv, ImageTyping

LEMMA RootUserIsRoot == I!IsRoot(I!RootUser)
BY DEF I!IsRoot, I!RootUser, I!User

LEMMA ImageStep ==
  ASSUME ImageInv, [I!Next]_iVars
  PROVE  ImageInv'
<1>1. IsContext(ctx) /\ IsImage(box) /\ I!IsRoot(I!RootUser)
  BY RootUserIsRoot DEF ImageInv, ImageTyping
<1>2. CASE UNCHANGED iVars
  BY <1>2 DEF iVars, ImageInv, ImageTyping, Agree, I!KnownUsers
<1>3. CASE I!Start
  <2>1. /\ phase = "new" /\ UNCHANGED <<plugins, box>> /\ box = I!Header
        /\ phase' \in {"open", "refused"} /\ ctx' \in {ctx, I!BaseContext(base)}
    BY <1>3 DEF I!Start, ImageInv
  <2>2. IsContext(I!BaseContext(base))
    BY DEF I!BaseContext, I!Fresh, IsContext
  <2>3. I!IsRoot(box.user) /\ box.denied = {}
    BY <1>1, <2>1 DEF I!Header
  <2> QED BY <1>1, <2>1, <2>2, <2>3 DEF ImageInv, ImageTyping, Agree
<1>4. ASSUME NEW p \in Plugin, I!AddSystem(p) PROVE ImageInv'
  <2> DEFINE b == I!LeaveRoot(ctx, I!SystemFragment(I!EnterRoot(ctx, box)))
  <2>1. I!Applied(p, ctx, b)
    BY <1>4 DEF I!AddSystem
  <2>2. ImageInv /\ phase = "open"
    BY <2>1 DEF I!Applied
  <2>3. IsImage(b) /\ (I!KnownUsers => b.denied = {} /\ (I!IsRoot(ctx.user) => I!IsRoot(b.user)))
    <3>1. CASE I!IsRoot(ctx.user)
      BY <1>1, <2>2, <3>1, NeedsAsRoot DEF I!EnterRoot, I!LeaveRoot, I!SystemFragment, ImageInv, Agree
    <3>2. CASE ~I!IsRoot(ctx.user)
      BY <1>1, <2>2, <3>2, NeedsAsRoot, SwitchChangesUser
      DEF I!EnterRoot, I!LeaveRoot, I!SystemFragment, ImageInv
    <3> QED BY <3>1, <3>2
  <2> QED BY <1>1, <2>1, <2>3, AddKeepsImage
<1>5. ASSUME NEW p \in Plugin, I!AddUser(p) PROVE ImageInv'
  <2> DEFINE c == I!UserContext(ctx, p)
             b == I!LeaveRoot(c, I!Needs(I!EnterRoot(c, box), "user"))
  <2>1. I!Applied(p, c, b) /\ p.kind = "user"
    BY <1>5 DEF I!AddUser
  <2>5. IsContext(c) /\ c.user = p.user
    BY <1>1 DEF I!UserContext, IsContext
  <2>2. I!KnownUsers' => ~I!IsRoot(c.user)
    BY <2>1, <2>5, AddedUser, SessionAssumption DEF I!ImageDefinitionAssumption
  <2>3. IsImage(b)
    BY <1>1, NeedsAsRoot, SwitchChangesUser DEF I!EnterRoot, I!LeaveRoot
  <2>4. I!KnownUsers /\ ~I!IsRoot(c.user) => b.denied = {}
    BY <1>1, NeedsAsRoot, SwitchChangesUser DEF I!EnterRoot, I!LeaveRoot, ImageInv
  <2> QED BY <2>1, <2>2, <2>3, <2>4, <2>5, AddKeepsImage
<1>6. ASSUME NEW p \in Plugin, I!AddRawLines(p) PROVE ImageInv'
  <2> DEFINE c == I!RawContext(ctx, p)
             b == I!LeaveRoot(c, I!RawFragment(I!EnterRoot(c, box), p))
  <2>1. I!Applied(p, c, b) /\ p.kind = "raw" /\ IsContext(c) /\ phase = "open"
    BY <1>1, <1>6 DEF I!AddRawLines, I!RawContext, IsContext, I!Applied
  <2>2. I!KnownUsers' => p.user = None \/ ~I!IsRoot(p.user)
    BY <2>1, AddedUser
  <2>3. /\ p.user = None => c = ctx /\ I!RawFragment(box, p) = I!Needs(box, "raw")
        /\ p.user # None => c.user = p.user
    BY <1>1 DEF I!RawContext, I!RawFragment, IsContext
  <2>4. ASSUME NEW x, IsImage(x)
        PROVE  /\ IsImage(I!RawFragment(x, p))
               /\ I!IsRoot(x.user) => I!RawFragment(x, p).denied = x.denied
    BY <2>4, NeedsAsRoot, SwitchChangesUser DEF I!RawFragment
  <2>5. IsImage(b)
    BY <1>1, <2>4, SwitchChangesUser DEF I!EnterRoot, I!LeaveRoot
  <2>6. I!KnownUsers /\ I!KnownUsers' => b.denied = {} /\ (I!IsRoot(c.user) => I!IsRoot(b.user))
    <3>1. CASE I!IsRoot(c.user)
      BY <1>1, <2>1, <2>2, <2>3, <3>1, NeedsAsRoot DEF I!EnterRoot, I!LeaveRoot, ImageInv, Agree
    <3>2. CASE ~I!IsRoot(c.user)
      BY <1>1, <2>4, <3>2, SwitchChangesUser DEF I!EnterRoot, I!LeaveRoot, ImageInv
    <3> QED BY <3>1, <3>2
  <2> QED BY <2>1, <2>5, <2>6, AddKeepsImage
<1>7. ASSUME NEW p \in Plugin, I!AddProject(p) PROVE ImageInv'
  <2> DEFINE c == I!ProjectContext(ctx, p)
             b == I!LeaveRoot(c, I!ProjectFragment(c, I!EnterRoot(c, box), p))
  <2>1. I!Applied(p, c, b) /\ phase = "open"
    BY <1>7 DEF I!AddProject, I!Applied
  <2>5. IsContext(c) /\ c.user = ctx.user
    BY <1>1 DEF I!ProjectContext, IsContext
  <2>2. ASSUME NEW x, IsImage(x)
        PROVE  /\ IsImage(I!ProjectFragment(c, x, p)) /\ I!ProjectFragment(c, x, p).user = x.user
               /\ I!IsRoot(x.user) => I!ProjectFragment(c, x, p).denied = x.denied
    <3>1. p.source \in {"git", "local", "archive"}
      BY <1>7, SessionAssumption DEF I!AddProject, I!ImageDefinitionAssumption
    <3> QED BY <2>2, <3>1, ProjectKeepsUser
  <2>3. IsImage(b)
    BY <1>1, <2>2, SwitchChangesUser DEF I!EnterRoot, I!LeaveRoot
  <2>4. I!KnownUsers => b.denied = {} /\ (I!IsRoot(c.user) => I!IsRoot(b.user))
    BY <1>1, <2>1, <2>2, <2>5, SwitchChangesUser DEF I!EnterRoot, I!LeaveRoot, ImageInv, Agree
  <2> QED BY <2>1, <2>3, <2>4, <2>5, AddKeepsImage
<1>8. ASSUME NEW p \in Plugin, I!SecondProject(p) PROVE ImageInv'
  BY <1>8 DEF I!SecondProject, ImageInv, ImageTyping, I!KnownUsers
<1>9. ASSUME NEW p \in Plugin, I!AddService(p) PROVE ImageInv'
  <2> DEFINE c == I!ServiceContext(ctx, p)
             x == I!ServiceFragment(c, box, p)
             b == IF I!HasUpstream(c, p) THEN I!McpFragment(c, x) ELSE x
  <2>1. I!Applied(p, c, b) /\ p.kind = "service"
    BY <1>9 DEF I!AddService
  <2>2. IsContext(c) /\ c.user = ctx.user
    BY <1>1 DEF I!ServiceContext, IsContext
  <2>3. I!KnownUsers' => p.user = None
    BY <2>1, AddedUser
  <2>4. IsImage(x) /\ x.denied = box.denied /\ (p.user = None => x.user = c.user)
    <3> DEFINE y == I!Needs(I!Switch(box, I!RootUser), p.name)
               z == [y EXCEPT !.reads = IF c.project \/ p.always THEN @ \cup {c.root} ELSE @]
    <3>1. IsImage(y) /\ y.denied = box.denied
      BY <1>1, NeedsAsRoot, SwitchChangesUser
    <3>2. IsImage(z) /\ z.denied = y.denied
      <4> HIDE DEF y, c
      <4> QED BY <3>1 DEF IsImage
    <3>3. x = I!Switch(z, IF p.user = None THEN c.user ELSE I!User(p.user, None))
      BY DEF I!ServiceFragment
    <3> HIDE DEF y, z, x, c
    <3> QED BY <3>1, <3>2, <3>3, SwitchChangesUser
  <2> HIDE DEF c, x
  <2>5. IsImage(b)
    BY <2>4, NeedsAsRoot, SwitchChangesUser, <1>1 DEF I!McpFragment, I!EnterRoot, I!LeaveRoot
  <2>6. p.user = None => b.denied = box.denied /\ (I!IsRoot(c.user) => I!IsRoot(b.user))
    BY <2>4, NeedsAsRoot, SwitchChangesUser, <1>1 DEF I!McpFragment, I!EnterRoot, I!LeaveRoot
  <2> QED BY <2>1, <2>2, <2>3, <2>5, <2>6, AddKeepsImage DEF ImageInv
<1>10. ASSUME NEW p \in Plugin, I!AddServer(p) PROVE ImageInv'
  <2> DEFINE b == I!LeaveRoot(ctx, I!ServerFragment(ctx, I!EnterRoot(ctx, box)))
  <2>1. I!Applied(p, ctx, b)
    BY <1>10 DEF I!AddServer
  <2>2. ASSUME NEW x, IsImage(x)
        PROVE  /\ IsImage(I!ServerFragment(ctx, x)) /\ I!ServerFragment(ctx, x).user = ctx.user
               /\ I!IsRoot(x.user) => I!ServerFragment(ctx, x).denied = x.denied
    <3> DEFINE y == I!Needs(x, "server")
               z == [y EXCEPT !.env = ctx.root, !.enabled = ctx.enabled]
    <3>1. IsImage(y) /\ (I!IsRoot(x.user) => y.denied = x.denied)
      BY <2>2, NeedsAsRoot
    <3>2. IsImage(z) /\ z.denied = y.denied
      <4> HIDE DEF y
      <4> QED BY <3>1 DEF IsImage
    <3>3. I!ServerFragment(ctx, x) = I!Switch(I!Chown(z, ctx.root, I!OwnerOf(ctx.user)), ctx.user)
      BY DEF I!ServerFragment
    <3> HIDE DEF y, z
    <3> QED BY <3>1, <3>2, <3>3, FindAndChown, SwitchChangesUser
  <2>3. IsImage(b)
    BY <1>1, <2>2, SwitchChangesUser DEF I!EnterRoot, I!LeaveRoot
  <2>4. I!KnownUsers => b.denied = {} /\ (I!IsRoot(ctx.user) => I!IsRoot(b.user))
    BY <1>1, <2>1, <2>2, SwitchChangesUser DEF I!EnterRoot, I!LeaveRoot, I!Applied, ImageInv, Agree
  <2> QED BY <1>1, <2>1, <2>3, <2>4, AddKeepsImage
<1>11. ASSUME NEW commands \in BOOLEAN, I!Compile(commands) PROVE ImageInv'
  <2>1. /\ phase' = "done" /\ box' = I!Image(commands) /\ UNCHANGED <<plugins, ctx>>
    BY <1>11 DEF I!Compile
  <2>2. IsImage(I!Image(commands)) /\ I!Image(commands).denied = box.denied
    <3> DEFINE y == I!Switch(box, ctx.user)
               places == {IF d = I!AtTheEnd THEN ctx.root ELSE d : d \in y.found}
               z == [y EXCEPT !.found = places]
    <3>1. IsImage(y) /\ y.denied = box.denied
      BY <1>1, SwitchChangesUser
    <3>2. IsImage(I!Switch(box, I!DockerBaseUser(base)))
      BY <1>1, SwitchChangesUser
    <3>3. I!Switch(box, I!DockerBaseUser(base)).denied = box.denied
      BY <1>1, SwitchChangesUser
    <3>4. I!Image(commands) = I!Switch(box, I!DockerBaseUser(base)) \/ I!Image(commands) = z
      BY DEF I!Image
    <3>5. IsImage(z) /\ z.denied = y.denied
      <4> HIDE DEF y, places
      <4> QED BY <3>1 DEF IsImage
    <3> HIDE DEF y, z
    <3> QED BY <3>1, <3>2, <3>3, <3>4, <3>5
  <2> QED BY <2>1, <2>2 DEF ImageInv, ImageTyping, Agree, I!KnownUsers
<1> QED
  BY <1>2, <1>3, <1>4, <1>5, <1>6, <1>7, <1>8, <1>9, <1>10, <1>11 DEF I!Next

-----------------------------------------------------------------------------
LEMMA ImageStart == I!Init => ImageInv
<1> SUFFICES ASSUME I!Init PROVE ImageInv
  OBVIOUS
<1>1. IsImage(box) /\ IsContext(ctx) /\ I!IsRoot(ctx.user) /\ I!IsRoot(box.user)
  BY DEF I!Init, I!Header, I!Fresh, I!RootUser, I!User, IsImage, IsContext, I!IsRoot
<1>2. plugins \in Seq(Plugin) /\ box.denied = {}
  BY DEF I!Init, I!Header
<1> QED BY <1>1, <1>2 DEF I!Init, ImageInv, ImageTyping, Agree

\* Whatever the base, and whatever plugins in whatever order: as long as they
\* keep to the users the context knows, what needs root runs as root
\* (builder.py, to_spec; plugin.py, as_root).
THEOREM PrivilegedAsRootHolds == Spec => []PrivilegedAsRoot
<1>1. Init => ImageInv
  BY ImageStart DEF Init
<1>2. ImageInv /\ [Next]_vars => ImageInv'
  BY SideBySide, ImageStep
<1>3. ImageInv => PrivilegedAsRoot
  BY DEF ImageInv, I!PrivilegedAsRoot, PrivilegedAsRoot
<1> QED BY <1>1, <1>2, <1>3, PTL DEF Spec

-----------------------------------------------------------------------------
(* ImageDefinition: whose an image is, and where its project and its       *)
(* services are.                                                           *)

\* A set of numbers up to n has a largest one.
LEMMA LargestOf ==
  ASSUME NEW n \in Nat, NEW s \in SUBSET (1 .. n), s # {}
  PROVE  /\ I!Max(s) \in s /\ \A y \in s : y <= I!Max(s)
         /\ \A x \in s : (\A y \in s : y <= x) => I!Max(s) = x
<1> DEFINE N == {n - y : y \in s}
<1>1. N \subseteq Nat /\ N # {}
  <2>1. \A y \in s : y \in 1 .. n
    OBVIOUS
  <2>2. \A y \in 1 .. n : n - y \in Nat
    OBVIOUS
  <2> QED BY <2>1, <2>2
<1>2. PICK k \in N : \A j \in N : k <= j
  <2> HIDE DEF N
  <2> QED BY <1>1, LeastNumber
<1>3. PICK x \in s : k = n - x
  OBVIOUS
<1>4. \A y \in s : y \in Nat /\ x >= y
  <2> SUFFICES ASSUME NEW y \in s PROVE y \in Nat /\ x >= y
    OBVIOUS
  <2>1. n - y \in N
    OBVIOUS
  <2>2. k <= n - y /\ y \in 1 .. n /\ x \in 1 .. n
    BY <1>2, <2>1
  <2> QED BY <1>3, <2>2
<1>5. I!Max(s) \in s /\ \A y \in s : I!Max(s) >= y
  BY <1>3, <1>4, Zenon DEF I!Max
<1>6. \A y \in s : y \in Nat
  BY <1>4
<1> HIDE DEF N
<1>7. \A y \in s : y <= I!Max(s)
  BY <1>5, <1>6
<1>8. ASSUME NEW z \in s, \A y \in s : y <= z PROVE I!Max(s) = z
  <2>0. PICK m : m = I!Max(s)
    OBVIOUS
  <2>1. m <= z /\ z <= m
    BY <1>5, <1>7, <1>8, <2>0
  <2>2. m \in Nat /\ z \in Nat
    BY <1>5, <1>6, <2>0
  <2>3. m = z
    BY <2>1, <2>2
  <2> QED BY <2>0, <2>3
<1> QED BY <1>5, <1>7, <1>8

\* Bases whose stages are a sequence of stages.
LEMMA StagesAre ==
  ASSUME NEW b \in Base
  PROVE  /\ Len(b.stages) \in Nat /\ DOMAIN b.stages = 1 .. Len(b.stages)
         /\ b.stages = <<>> <=> Len(b.stages) = 0
         /\ \A i \in 1 .. Len(b.stages) :
              b.stages[i] = [image |-> b.stages[i].image, alias |-> b.stages[i].alias, user |-> b.stages[i].user]
<1>1. b.stages \in Seq(I!Range(b.stages))
  BY SessionAssumption DEF I!ImageDefinitionAssumption
<1>2. \A s \in I!Range(b.stages) : s = [image |-> s.image, alias |-> s.alias, user |-> s.user]
  BY SessionAssumption DEF I!ImageDefinitionAssumption
<1>3. Len(b.stages) \in Nat /\ DOMAIN b.stages = 1 .. Len(b.stages) /\ (b.stages = <<>> <=> Len(b.stages) = 0)
  BY <1>1, LenProperties, EmptySeq
<1>4. \A i \in 1 .. Len(b.stages) : b.stages[i] \in I!Range(b.stages)
  BY <1>1, ElementOfSeq
<1> QED BY <1>2, <1>3, <1>4

\* The user of each stage is its own, or that of the stage it is built from.
LEMMA StageUsersAre ==
  ASSUME NEW b \in Base, NEW i \in 1 .. Len(b.stages)
  PROVE  I!StageUsers(b)[i] =
           IF b.stages[i].user # None THEN b.stages[i].user
           ELSE IF I!Parents(b, i) = {} THEN None
           ELSE I!StageUsers(b)[I!Max(I!Parents(b, i))]
<1> DEFINE L == Len(b.stages)
           Its(g, k) == IF b.stages[k].user # None THEN b.stages[k].user
                      ELSE IF I!Parents(b, k) = {} THEN None
                      ELSE g[I!Max(I!Parents(b, k))]
           Is(g, n) == g = [k \in 1 .. n |-> Its(g, k)]
           it == CHOOSE g : Is(g, L)
           Without == {n \in 0 .. L : ~\E g : Is(g, n)}
<1>0. L \in Nat /\ DOMAIN b.stages = 1 .. L
  BY StagesAre
<1>1. I!StageUsers(b) = it
  BY <1>0 DEF I!StageUsers
<1>2. Is([k \in 1 .. 0 |-> None], 0)
  OBVIOUS
<1>3. ASSUME NEW n \in Nat, NEW f, Is(f, n)
      PROVE  \E g : Is(g, n + 1)
  <2>1. PICK g : g = [k \in 1 .. n + 1 |-> Its(f, k)]
    OBVIOUS
  <2>2. ASSUME NEW k \in 1 .. n + 1 PROVE Its(f, k) = Its(g, k)
    <3>1. ASSUME I!Parents(b, k) # {}
          PROVE  f[I!Max(I!Parents(b, k))] = g[I!Max(I!Parents(b, k))]
      <4>1. PICK m : m = I!Max(I!Parents(b, k))
        OBVIOUS
      <4>2. I!Parents(b, k) \in SUBSET (1 .. k - 1) /\ k - 1 \in Nat
        BY DEF I!Parents
      <4>3. m \in 1 .. k - 1
        BY <3>1, <4>1, <4>2, LargestOf
      <4>4. m \in 1 .. n /\ m \in 1 .. n + 1
        BY <4>3
      <4>5. g[m] = Its(f, m) /\ f[m] = Its(f, m)
        <5> HIDE DEF Its
        <5> QED BY <1>3, <2>1, <4>4, Zenon
      <4> QED BY <4>1, <4>5
    <3> QED BY <3>1
  <2> HIDE DEF Its
  <2>3. Is(g, n + 1)
    BY <2>1, <2>2
  <2> QED BY <2>3
<1>4. Without = {}
  <2> SUFFICES ASSUME Without # {} PROVE FALSE
    OBVIOUS
  <2>0. Without \subseteq Nat
    BY <1>0
  <2>1. PICK n \in Without : \A k \in Without : n <= k
    <3> HIDE DEF Without
    <3> QED BY <2>0, LeastNumber
  <2>2. n \in 0 .. L /\ ~\E g : Is(g, n)
    OBVIOUS
  <2>3. n # 0
    BY <1>2, <2>2, Zenon
  <2>4. n - 1 \in 0 .. L /\ n - 1 \in Nat /\ (n - 1) + 1 = n
    BY <1>0, <2>2, <2>3
  <2>5. n - 1 \notin Without
    <3> HIDE DEF Without
    <3> QED BY <2>1, <2>2, <2>4
  <2>6. \E g : Is(g, n - 1)
    BY <2>4, <2>5, Zenon
  <2> HIDE DEF Is
  <2>7. \E g : Is(g, (n - 1) + 1)
    BY <1>3, <2>4, <2>6, Zenon
  <2> QED BY <2>2, <2>4, <2>7
<1>5. Is(it, L)
  <2>0. L \in 0 .. L
    BY <1>0
  <2>1. \E g : Is(g, L)
    BY <2>0, <1>4, Zenon
  <2> HIDE DEF Is
  <2> QED BY <2>1, Zenon
<1> HIDE DEF it
<1>6. it[i] = Its(it, i)
  <2> HIDE DEF Its
  <2> QED BY <1>5, Zenon
<1> QED BY <1>1, <1>6

\* The stages as emitted are those that were given, with a name for the picked one.
LEMMA BodyIs ==
  ASSUME NEW b \in Base, b.stages # <<>>, ~I!Refuses(b)
  PROVE  /\ I!Target(b) \in 1 .. Len(b.stages)
         /\ I!Body(b)[I!Target(b)].alias # None
         /\ b.pick # None =>
              /\ I!Body(b)[I!Target(b)].alias.name = b.pick.name
              /\ \A i \in 1 .. Len(b.stages) :
                   b.stages[i].alias # None /\ b.stages[i].alias.name = b.pick.name => i <= I!Target(b)
         /\ b.pick = None => I!Target(b) = Len(b.stages)
         /\ DOMAIN I!Body(b) = 1 .. Len(b.stages)
         /\ \A i \in 1 .. Len(b.stages) :
              /\ I!Body(b)[i].user = b.stages[i].user /\ I!Body(b)[i].image = b.stages[i].image
              /\ i < Len(b.stages) => I!Body(b)[i].alias = b.stages[i].alias
              /\ b.stages[i].alias # None => I!Body(b)[i].alias = b.stages[i].alias
<1> DEFINE L == Len(b.stages)
           T0 == I!Target(b)
<1>0. L \in Nat /\ DOMAIN b.stages = 1 .. L /\ L # 0
  BY StagesAre
<1>1. b.pick # None => /\ I!Matches(b) \in SUBSET (1 .. L) /\ I!Matches(b) # {}
                       /\ \A i \in I!Matches(b) : b.stages[i].alias # None /\ b.stages[i].alias.name = b.pick.name
                       /\ \A i \in 1 .. L :
                            b.stages[i].alias # None /\ b.stages[i].alias.name = b.pick.name => i \in I!Matches(b)
  BY <1>0 DEF I!Refuses, I!Matches, I!SameName
<1>2. b.pick # None => T0 \in I!Matches(b) /\ \A i \in I!Matches(b) : i <= T0
  BY <1>0, <1>1, LargestOf DEF I!Target
<1>3. b.pick = None => T0 = L
  BY DEF I!Target
<1>4. T0 \in 1 .. L
  BY <1>0, <1>1, <1>2, <1>3
<1>5. PICK t \in 1 .. L : t = T0
  BY <1>4
<1>6. PICK s : s = b.stages[t] /\ s = [image |-> s.image, alias |-> s.alias, user |-> s.user]
  BY <1>5, StagesAre
<1>7. PICK a : a = IF s.alias = None THEN I!BaseAlias ELSE s.alias
  OBVIOUS
<1>8. PICK r : r = [image |-> s.image, alias |-> a, user |-> s.user]
  OBVIOUS
<1>9. I!Body(b) = [b.stages EXCEPT ![t] = r]
  <2>1. I!Body(b) = [b.stages EXCEPT ![t] = [s EXCEPT !.alias = a]]
    BY <1>0, <1>5, <1>6, <1>7 DEF I!Body
  <2>2. [s EXCEPT !.alias = a] = r
    BY <1>6, <1>8
  <2> QED BY <2>1, <2>2
<1>10. DOMAIN I!Body(b) = 1 .. L
  BY <1>0, <1>9
<1>11. I!Body(b)[t] = r /\ \A i \in 1 .. L : i # t => I!Body(b)[i] = b.stages[i]
  <2>1. \A i \in DOMAIN b.stages : I!Body(b)[i] = IF i = t THEN r ELSE b.stages[i]
    BY <1>9
  <2> QED BY <1>0, <2>1
<1>12. r.user = s.user /\ r.image = s.image /\ r.alias = a
  BY <1>8
<1>13. s.alias = None => t = L
  BY <1>1, <1>2, <1>3, <1>5, <1>6
<1>14. a # None
  BY <1>7, SessionAssumption DEF I!ImageDefinitionAssumption
<1>15. /\ I!Body(b)[t].alias # None
       /\ b.pick # None => I!Body(b)[t].alias.name = b.pick.name
  BY <1>1, <1>2, <1>5, <1>6, <1>7, <1>11, <1>12, <1>14
<1>16. ASSUME NEW i \in 1 .. L
       PROVE  /\ I!Body(b)[i].user = b.stages[i].user /\ I!Body(b)[i].image = b.stages[i].image
              /\ i < L => I!Body(b)[i].alias = b.stages[i].alias
              /\ b.stages[i].alias # None => I!Body(b)[i].alias = b.stages[i].alias
  <2>1. CASE i # t
    BY <1>11, <2>1
  <2>2. CASE i = t
    BY <1>6, <1>7, <1>11, <1>12, <1>13, <2>2
  <2> QED BY <2>1, <2>2
<1>17. b.pick # None =>
         \A i \in 1 .. L : b.stages[i].alias # None /\ b.stages[i].alias.name = b.pick.name => i <= T0
  BY <1>1, <1>2
<1> QED BY <1>3, <1>5, <1>10, <1>15, <1>16, <1>17

\* The stages up to k that are called n.
Called(b, k, n) == {j \in 1 .. k : I!Body(b)[j].alias # None /\ I!Body(b)[j].alias.name = n}

\* Docker takes a name for the last stage that is called so, and its user for that stage's.
LEMMA DockerUsersAre ==
  ASSUME NEW b \in Base, b.stages # <<>>, ~I!Refuses(b), NEW name,
         \E i \in 1 .. Len(b.stages) : I!Body(b)[i].alias # None /\ I!Body(b)[i].alias.name = name
  PROVE  I!DockerUsers(b)[name] = I!StageUsers(b)[I!Max(Called(b, Len(b.stages), name))]
<1> DEFINE L == Len(b.stages)
           es == I!Body(b)
           Names == {s.image.name : s \in I!Range(b.stages)}
                  \cup {s.alias.name : s \in {t \in I!Range(es) : t.alias # None}}
           begin == [n \in Names |-> None]
           After(known, s) ==
             [n \in DOMAIN known |->
                IF s.alias # None /\ n = s.alias.name
                THEN IF s.user # None THEN s.user ELSE known[s.image.name]
                ELSE known[n]]
           Is(g, n) == g = [s \in SUBSET (1 .. n) |->
                              IF s = {} THEN begin ELSE After(g[s \ {I!Max(s)}], es[I!Max(s)])]
           it == CHOOSE g : Is(g, L)
           Without == {n \in 0 .. L : ~\E g : Is(g, n)}
<1>0. L \in Nat /\ DOMAIN b.stages = 1 .. L /\ DOMAIN es = 1 .. L /\ L # 0
  BY StagesAre, BodyIs
<1>1. I!DockerUsers(b) = it[1 .. L]
  BY <1>0 DEF I!DockerUsers, I!FoldLeft, I!MapThenFoldSet
<1>a. /\ \A i \in 1 .. L : es[i].image.name \in Names
      /\ \A i \in 1 .. L : es[i].alias # None => es[i].alias.name \in Names
  <2>1. \A i \in 1 .. L : b.stages[i] \in I!Range(b.stages) /\ es[i] \in I!Range(es)
    BY <1>0 DEF I!Range
  <2>2. \A i \in 1 .. L : es[i].image = b.stages[i].image
    BY BodyIs
  <2> HIDE DEF es
  <2> QED BY <2>1, <2>2
<1> HIDE DEF begin, es, After
<1>2. Is([s \in SUBSET (1 .. 0) |-> begin], 0)
  OBVIOUS
<1>3. ASSUME NEW n \in Nat, NEW f, Is(f, n)
      PROVE  \E g : Is(g, n + 1)
  <2>1. PICK g : g = [s \in SUBSET (1 .. n + 1) |->
                       IF n + 1 \in s THEN After(f[s \ {n + 1}], es[n + 1]) ELSE f[s]]
    OBVIOUS
  <2>2. ASSUME NEW s \in SUBSET (1 .. n + 1)
        PROVE  g[s] = IF s = {} THEN begin ELSE After(g[s \ {I!Max(s)}], es[I!Max(s)])
    <3>1. CASE n + 1 \in s
      <4>1. I!Max(s) = n + 1
        <5>1. n + 1 \in Nat /\ s # {} /\ \A y \in s : y <= n + 1
          BY <3>1
        <5> QED BY <3>1, <5>1, LargestOf
      <4>2. s \ {n + 1} \in SUBSET (1 .. n + 1) /\ ~(n + 1 \in s \ {n + 1}) /\ s # {}
        BY <3>1
      <4>3. g[s \ {n + 1}] = f[s \ {n + 1}] /\ g[s] = After(f[s \ {n + 1}], es[n + 1])
        BY <2>1, <3>1, <4>2, Zenon
      <4> QED BY <4>1, <4>2, <4>3, Zenon
    <3>2. CASE n + 1 \notin s
      <4>1. s \in SUBSET (1 .. n) /\ s \ {I!Max(s)} \in SUBSET (1 .. n)
        <5>1. \A x \in s : x \in 1 .. n
          BY <3>2
        <5> QED BY <5>1, Zenon
      <4>2. s \ {I!Max(s)} \in SUBSET (1 .. n + 1) /\ n + 1 \notin s \ {I!Max(s)}
        BY <3>2
      <4>3. g[s] = f[s] /\ g[s \ {I!Max(s)}] = f[s \ {I!Max(s)}]
        BY <2>1, <3>2, <4>2, Zenon
      <4>4. f[s] = IF s = {} THEN begin ELSE After(f[s \ {I!Max(s)}], es[I!Max(s)])
        BY <1>3, <4>1, Zenon
      <4> QED BY <4>3, <4>4, Zenon
    <3> QED BY <3>1, <3>2
  <2>3. DOMAIN g = SUBSET (1 .. n + 1)
    BY <2>1, Zenon
  <2>4. g = [s \in SUBSET (1 .. n + 1) |-> g[s]]
    BY <2>1, <2>3, Zenon
  <2>5. Is(g, n + 1)
    BY <2>2, <2>4, Zenon
  <2> QED BY <2>5
<1>4. Without = {}
  <2> SUFFICES ASSUME Without # {} PROVE FALSE
    OBVIOUS
  <2>0. Without \subseteq Nat
    BY <1>0
  <2>1. PICK n \in Without : \A k \in Without : n <= k
    <3> HIDE DEF Without
    <3> QED BY <2>0, LeastNumber
  <2>2. n \in 0 .. L /\ ~\E g : Is(g, n)
    OBVIOUS
  <2>3. n # 0
    BY <1>2, <2>2, Zenon
  <2>4. n - 1 \in 0 .. L /\ n - 1 \in Nat /\ (n - 1) + 1 = n
    BY <1>0, <2>2, <2>3
  <2>5. n - 1 \notin Without
    <3> HIDE DEF Without
    <3> QED BY <2>1, <2>2, <2>4
  <2>6. \E g : Is(g, n - 1)
    BY <2>4, <2>5, Zenon
  <2> HIDE DEF Is
  <2>7. \E g : Is(g, (n - 1) + 1)
    BY <1>3, <2>4, <2>6, Zenon
  <2> QED BY <2>2, <2>4, <2>7
<1>5. Is(it, L)
  <2>0. L \in 0 .. L
    BY <1>0
  <2>1. \E g : Is(g, L)
    BY <2>0, <1>4, Zenon
  <2> HIDE DEF Is
  <2> QED BY <2>1, Zenon
<1>6. \A s \in SUBSET (1 .. L) :
        it[s] = IF s = {} THEN begin ELSE After(it[s \ {I!Max(s)}], es[I!Max(s)])
  BY <1>5, Zenon
<1> HIDE DEF it, Is
\* What is known after k stages.
<1> DEFINE Known(k) ==
      /\ DOMAIN it[1 .. k] = Names
      /\ \A n \in Names : it[1 .. k][n] = IF Called(b, k, n) = {} THEN None
                                      ELSE I!StageUsers(b)[I!Max(Called(b, k, n))]
<1>7. Known(0)
  <2>1. 1 .. 0 = {} /\ {} \in SUBSET (1 .. L)
    OBVIOUS
  <2>2. it[1 .. 0] = begin
    BY <1>6, <2>1, Zenon
  <2>3. \A n \in Names : Called(b, 0, n) = {}
    BY DEF Called
  <2> QED BY <2>2, <2>3 DEF begin
<1> HIDE DEF Names
<1>8. ASSUME NEW k \in 1 .. L, Known(k - 1)
      PROVE  Known(k)
  <2>1. 1 .. k \in SUBSET (1 .. k) /\ k \in 1 .. k /\ k \in Nat /\ k - 1 \in Nat
    OBVIOUS
  <2>2. I!Max(1 .. k) = k
    <3>1. \A y \in 1 .. k : y <= k
      BY <2>1
    <3> QED BY <2>1, <3>1, LargestOf
  <2>3. 1 .. k \in SUBSET (1 .. L) /\ 1 .. k # {}
    <3>1. \A x \in 1 .. k : x \in 1 .. L
      BY <1>0
    <3> QED BY <2>1, <3>1, Zenon
  <2>4. (1 .. k) \ {k} = 1 .. (k - 1)
    BY <2>1
  <2>5. PICK known : known = it[1 .. (k - 1)]
    OBVIOUS
  <2>6. it[1 .. k] = After(known, es[k])
    BY <1>6, <2>2, <2>3, <2>4, <2>5, Zenon
  <2>7. DOMAIN known = Names
    BY <1>8, <2>5
  <2>8. PICK s : s = es[k]
    OBVIOUS
  <2>9. /\ DOMAIN it[1 .. k] = Names
        /\ \A n \in Names : it[1 .. k][n] =
             IF s.alias # None /\ n = s.alias.name
             THEN IF s.user # None THEN s.user ELSE known[s.image.name]
             ELSE known[n]
    BY <2>6, <2>7, <2>8 DEF After
  <2>10. \A n \in Names : known[n] = IF Called(b, k - 1, n) = {} THEN None
                                 ELSE I!StageUsers(b)[I!Max(Called(b, k - 1, n))]
    BY <1>8, <2>5
  <2>11. I!StageUsers(b)[k] = IF s.user # None THEN s.user ELSE known[s.image.name]
    <3>1. s.user = b.stages[k].user /\ s.image = b.stages[k].image
      BY <2>8, BodyIs DEF es
    <3>2. \A j \in 1 .. k - 1 : I!Body(b)[j].alias = b.stages[j].alias
      <4>1. \A j \in 1 .. k - 1 : j \in 1 .. L /\ j < L
        BY <1>0
      <4> QED BY <4>1, BodyIs
    <3>3. I!Parents(b, k) = Called(b, k - 1, s.image.name)
      BY <3>1, <3>2 DEF I!Parents, Called, I!SameName
    <3>4. I!StageUsers(b)[k] = IF b.stages[k].user # None THEN b.stages[k].user
                               ELSE IF I!Parents(b, k) = {} THEN None
                               ELSE I!StageUsers(b)[I!Max(I!Parents(b, k))]
      BY StageUsersAre
    <3>5. s.image.name \in Names
      BY <1>a, <2>8
    <3> QED BY <2>10, <3>1, <3>3, <3>4, <3>5, Zenon
  <2>12. ASSUME NEW n \in Names
         PROVE  it[1 .. k][n] = IF Called(b, k, n) = {} THEN None
                                ELSE I!StageUsers(b)[I!Max(Called(b, k, n))]
    <3>1. CASE s.alias # None /\ n = s.alias.name
      <4>1. k \in Called(b, k, n) /\ Called(b, k, n) \in SUBSET (1 .. k)
        BY <2>1, <2>8, <3>1 DEF Called, es
      <4>2. \A y \in Called(b, k, n) : y <= k
        BY <2>1, <4>1
      <4>3. I!Max(Called(b, k, n)) = k /\ Called(b, k, n) # {}
        BY <2>1, <4>1, <4>2, LargestOf
      <4> QED BY <2>9, <2>11, <3>1, <4>3, Zenon
    <3>2. CASE ~(s.alias # None /\ n = s.alias.name)
      <4>1. k \notin Called(b, k, n)
        BY <2>8, <3>2 DEF Called, es
      <4>2. \A j : j \in 1 .. k <=> j \in 1 .. k - 1 \/ j = k
        BY <2>1
      <4>3. Called(b, k, n) = Called(b, k - 1, n)
        BY <4>1, <4>2 DEF Called
      <4> QED BY <2>9, <2>10, <3>2, <4>3, Zenon
    <3> QED BY <3>1, <3>2
  <2> QED BY <2>9, <2>12
<1>9. \A k \in 0 .. L : Known(k)
  <2> DEFINE Bad == {k \in 0 .. L : ~Known(k)}
  <2> SUFFICES ASSUME Bad # {} PROVE FALSE
    OBVIOUS
  <2>0. Bad \subseteq Nat
    BY <1>0
  <2>1. PICK k \in Bad : \A j \in Bad : k <= j
    <3> HIDE DEF Bad
    <3> QED BY <2>0, LeastNumber
  <2> HIDE DEF Known
  <2>2. k \in 0 .. L /\ ~Known(k)
    OBVIOUS
  <2>3. k # 0
    BY <1>7, <2>2
  <2>4. k \in 1 .. L /\ k - 1 \in 0 .. L /\ ~(k <= k - 1)
    BY <1>0, <2>2, <2>3
  <2>5. k - 1 \notin Bad
    <3> HIDE DEF Bad
    <3> QED BY <2>1, <2>4
  <2> QED BY <1>8, <2>2, <2>4, <2>5
<1>10. name \in Names /\ Called(b, L, name) # {}
  <2>1. PICK i \in 1 .. L : I!Body(b)[i].alias # None /\ I!Body(b)[i].alias.name = name
    OBVIOUS
  <2> QED BY <1>a, <2>1 DEF Called, es
<1>11. Known(L)
  BY <1>0, <1>9
<1> QED BY <1>1, <1>10, <1>11

\* The user that the definition takes a base to have is the one that Docker gives it.
LEMMA BaseUserIsDockers ==
  ASSUME NEW b \in Base, ~I!Refuses(b)
  PROVE  I!BaseUser(b) = I!DockerBaseUser(b)
<1>1. CASE b.stages = <<>>
  BY <1>1 DEF I!BaseUser, I!DockerBaseUser
<1>2. CASE b.stages # <<>>
  <2> DEFINE L == Len(b.stages)
             n == I!Body(b)[I!Target(b)].alias.name
  <2>1. I!Target(b) \in 1 .. L /\ I!Body(b)[I!Target(b)].alias # None /\ L \in Nat
    BY <1>2, BodyIs, StagesAre
  <2>2. I!DockerBaseUser(b) = I!StageUsers(b)[I!Max(Called(b, L, n))]
    BY <1>2, <2>1, DockerUsersAre DEF I!DockerBaseUser
  <2>3. I!Target(b) \in Called(b, L, n) /\ Called(b, L, n) \in SUBSET (1 .. L)
    BY <2>1 DEF Called
  <2>4. \A y \in Called(b, L, n) : y <= I!Target(b)
    <3> SUFFICES ASSUME NEW y \in Called(b, L, n) PROVE y <= I!Target(b)
      OBVIOUS
    <3>1. y \in 1 .. L /\ I!Body(b)[y].alias # None /\ I!Body(b)[y].alias.name = n
      BY DEF Called
    <3>2. CASE b.pick = None
      BY <1>2, <2>1, <3>1, <3>2, BodyIs
    <3>3. CASE b.pick # None
      <4>1. n = b.pick.name
        BY <1>2, <3>3, BodyIs
      <4>2. CASE b.stages[y].alias = None
        <5>1. ~(y < L) \/ I!Body(b)[y].alias = b.stages[y].alias
          BY <1>2, <3>1, BodyIs
        <5>2. y = L
          BY <2>1, <3>1, <4>2, <5>1
        <5>3. CASE y = I!Target(b)
          BY <2>1, <5>3
        <5>4. CASE y # I!Target(b)
          BY <1>2, <3>1, <4>2, <5>4 DEF I!Body
        <5> QED BY <5>3, <5>4
      <4>3. CASE b.stages[y].alias # None
        <5>1. b.stages[y].alias.name = b.pick.name
          BY <1>2, <3>1, <4>1, <4>3, BodyIs
        <5> QED BY <1>2, <3>1, <3>3, <4>3, <5>1, BodyIs
      <4> QED BY <4>2, <4>3
    <3> QED BY <3>2, <3>3
  <2>5. I!Max(Called(b, L, n)) = I!Target(b)
    BY <2>1, <2>3, <2>4, LargestOf
  <2> QED BY <1>2, <2>2, <2>5 DEF I!BaseUser
<1> QED BY <1>1, <1>2

\* Who an image is to run as: who its definition named last, else whom its base has.
RunsAs == IF I!Named # {} THEN plugins[I!Max(I!Named)].user ELSE I!BaseContext(base).user

UserInv ==
  /\ base \in Base
  /\ phase \in {"open", "done"} =>
       ~I!Refuses(base) /\ ctx.user = RunsAs /\ (I!Unresolved(base) => "variable" \in warnings)
  /\ phase = "done" => box.user = ctx.user \/ (plugins = <<>> /\ box.user = I!DockerBaseUser(base))

\* A plugin that names a user is the last to name one, and another changes nothing of that.
LEMMA NamedAfter ==
  ASSUME plugins \in Seq(Plugin), NEW p \in Plugin, plugins' = Append(plugins, p), UNCHANGED base
  PROVE  /\ p.kind \in {"user", "raw"} /\ p.user # None => RunsAs' = p.user
         /\ ~(p.kind \in {"user", "raw"} /\ p.user # None) => RunsAs' = RunsAs
<1> DEFINE L == Len(plugins)
<1>1. /\ L \in Nat /\ DOMAIN plugins = 1 .. L /\ DOMAIN plugins' = 1 .. L + 1
      /\ plugins'[L + 1] = p /\ \A i \in 1 .. L : plugins'[i] = plugins[i]
  OBVIOUS
<1>2. I!Named \in SUBSET (1 .. L) /\ I!Named' \in SUBSET (1 .. L + 1)
  BY <1>1 DEF I!Named, I!Kinds
<1>3. \A i \in 1 .. L : i \in I!Named' <=> i \in I!Named
  <2>1. \A i \in 1 .. L : i \in 1 .. L + 1
    BY <1>1
  <2> QED BY <1>1, <2>1 DEF I!Named, I!Kinds
<1>4. L + 1 \in I!Named' <=> p.kind \in {"user", "raw"} /\ p.user # None
  BY <1>1 DEF I!Named, I!Kinds
<1>5. CASE p.kind \in {"user", "raw"} /\ p.user # None
  <2>1. \A y \in I!Named' : y <= L + 1
    BY <1>1, <1>2
  <2>2. L + 1 \in I!Named' /\ I!Named' # {} /\ L + 1 \in Nat
    BY <1>1, <1>4, <1>5
  <2>3. I!Max(I!Named') = L + 1
    BY <1>2, <2>1, <2>2, LargestOf
  <2> QED BY <1>1, <1>5, <2>2, <2>3 DEF RunsAs
<1>6. CASE ~(p.kind \in {"user", "raw"} /\ p.user # None)
  <2>1. \A i \in 1 .. L + 1 : i \in 1 .. L \/ i = L + 1
    BY <1>1
  <2>2. \A i \in 1 .. L : i \in 1 .. L + 1
    BY <1>1
  <2>3. I!Named' = I!Named
    BY <1>2, <1>3, <1>4, <1>6, <2>1, <2>2
  <2>4. I!Named # {} => I!Max(I!Named) \in 1 .. L
    BY <1>1, <1>2, LargestOf
  <2>5. I!Named # {} => plugins'[I!Max(I!Named)] = plugins[I!Max(I!Named)]
    BY <1>1, <2>4
  <2>6. I!BaseContext(base)' = I!BaseContext(base)
    BY DEF I!BaseContext, I!BaseUser, I!Unresolved, I!StageUsers, I!Target, I!Matches, I!Parents
  <2>7. RunsAs' = IF I!Named' # {} THEN plugins'[I!Max(I!Named')] .user ELSE I!BaseContext(base)'.user
    BY DEF RunsAs
  <2>8. I!Max(I!Named') = I!Max(I!Named)
    BY <2>3
  <2>9. CASE I!Named = {}
    BY <1>6, <2>3, <2>6, <2>7, <2>9 DEF RunsAs
  <2>10. CASE I!Named # {}
    BY <1>6, <2>3, <2>5, <2>7, <2>8, <2>10 DEF RunsAs
  <2> QED BY <2>9, <2>10
<1> QED BY <1>5, <1>6

LEMMA UserStarts == I!Init => UserInv
BY DEF I!Init, UserInv

LEMMA UserStep ==
  ASSUME ImageTyping, phase = "new" => plugins = <<>>, UserInv, [I!Next]_iVars
  PROVE  UserInv'
<1>1. IsContext(ctx) /\ IsImage(box) /\ plugins \in Seq(Plugin)
  BY DEF ImageTyping
<1>2. CASE UNCHANGED iVars
  <2>1. RunsAs' = RunsAs
    BY <1>2 DEF iVars, RunsAs, I!Named, I!Kinds, I!BaseContext
  <2> QED BY <1>2, <2>1 DEF iVars, UserInv
<1>3. CASE I!Start
  <2>1. plugins = <<>> /\ UNCHANGED <<plugins, base, box>> /\ phase' \in {"open", "refused"} /\ phase = "new"
    BY <1>3 DEF I!Start
  <2>2. I!Named' = {}
    BY <2>1 DEF I!Named, I!Kinds
  <2>3. CASE I!Refuses(base)
    BY <1>3, <2>1, <2>3 DEF I!Start, UserInv
  <2>4. CASE ~I!Refuses(base)
    <3>1. ctx' = I!BaseContext(base) /\ warnings' = IF I!Unresolved(base) THEN {"variable"} ELSE {}
      BY <1>3, <2>4 DEF I!Start
    <3>2. RunsAs' = I!BaseContext(base).user
      BY <2>1, <2>2 DEF RunsAs
    <3> QED BY <2>1, <2>4, <3>1, <3>2 DEF UserInv
  <2> QED BY <2>3, <2>4
<1>4. ASSUME NEW p \in Plugin, NEW c, NEW b, I!Applied(p, c, b),
             c.user = IF p.kind \in {"user", "raw"} /\ p.user # None THEN p.user ELSE ctx.user
      PROVE  UserInv'
  <2>1. phase = "open" /\ phase' = "open" /\ plugins' = Append(plugins, p) /\ ctx' = c
        /\ UNCHANGED <<base, warnings>>
    BY <1>4 DEF I!Applied
  <2>2. RunsAs' = IF p.kind \in {"user", "raw"} /\ p.user # None THEN p.user ELSE RunsAs
    BY <1>1, <2>1, NamedAfter
  <2> QED BY <1>4, <2>1, <2>2 DEF UserInv
<1>5. ASSUME NEW p \in Plugin, I!AddSystem(p) PROVE UserInv'
  BY <1>4, <1>5 DEF I!AddSystem
<1>6. ASSUME NEW p \in Plugin, I!AddUser(p) PROVE UserInv'
  <2>1. p.kind = "user" /\ p.user # None
    BY <1>6, SessionAssumption DEF I!AddUser, I!ImageDefinitionAssumption
  <2>2. I!UserContext(ctx, p).user = p.user
    BY <1>1 DEF I!UserContext, IsContext
  <2> QED BY <1>4, <1>6, <2>1, <2>2 DEF I!AddUser
<1>7. ASSUME NEW p \in Plugin, I!AddRawLines(p) PROVE UserInv'
  <2>1. I!RawContext(ctx, p).user = IF p.user # None THEN p.user ELSE ctx.user
    BY <1>1 DEF I!RawContext, IsContext
  <2> QED BY <1>4, <1>7, <2>1 DEF I!AddRawLines
<1>8. ASSUME NEW p \in Plugin, I!AddProject(p) PROVE UserInv'
  <2>1. I!ProjectContext(ctx, p).user = ctx.user
    BY <1>1 DEF I!ProjectContext, IsContext
  <2> QED BY <1>4, <1>8, <2>1 DEF I!AddProject
<1>9. ASSUME NEW p \in Plugin, I!SecondProject(p) PROVE UserInv'
  BY <1>9 DEF I!SecondProject, UserInv
<1>10. ASSUME NEW p \in Plugin, I!AddService(p) PROVE UserInv'
  <2>1. I!ServiceContext(ctx, p).user = ctx.user
    BY <1>1 DEF I!ServiceContext, IsContext
  <2> QED BY <1>4, <1>10, <2>1 DEF I!AddService
<1>11. ASSUME NEW p \in Plugin, I!AddServer(p) PROVE UserInv'
  BY <1>4, <1>11 DEF I!AddServer
<1>12. ASSUME NEW commands \in BOOLEAN, I!Compile(commands) PROVE UserInv'
  <2>1. phase = "open" /\ phase' = "done" /\ box' = I!Image(commands) /\ UNCHANGED <<base, plugins, ctx>>
        /\ warnings \subseteq warnings'
    BY <1>12 DEF I!Compile
  <2>2. RunsAs' = RunsAs
    BY <2>1 DEF RunsAs, I!Named, I!Kinds
  <2>3. I!Image(commands).user = ctx.user
        \/ (plugins = <<>> /\ I!Image(commands).user = I!DockerBaseUser(base))
    <3>1. CASE plugins = <<>> /\ ~commands
      BY <1>1, <3>1, SwitchChangesUser DEF I!Image
    <3>2. CASE ~(plugins = <<>> /\ ~commands)
      <4> DEFINE y == I!Switch(box, ctx.user)
                 places == {IF d = I!AtTheEnd THEN ctx.root ELSE d : d \in y.found}
                 z == [y EXCEPT !.found = places]
      <4>1. IsImage(y) /\ y.user = ctx.user
        BY <1>1, SwitchChangesUser
      <4>2. I!Image(commands) = z
        BY <3>2 DEF I!Image
      <4>3. z.user = y.user
        <5> HIDE DEF y, places
        <5> QED BY <4>1 DEF IsImage
      <4> QED BY <4>1, <4>2, <4>3
    <3> QED BY <3>1, <3>2
  <2> QED BY <2>1, <2>2, <2>3 DEF UserInv
<1> QED
  BY <1>2, <1>3, <1>5, <1>6, <1>7, <1>8, <1>9, <1>10, <1>11, <1>12 DEF I!Next

LEMMA EndsAsItIsNamed ==
  ASSUME UserInv
  PROVE  I!EndsAsNamed
<1> SUFFICES ASSUME phase = "done"
             PROVE  IF I!Named # {} THEN box.user = plugins[I!Max(I!Named)].user
                    ELSE \/ box.user = I!DockerBaseUser(base)
                         \/ /\ box.user = I!RootUser
                            /\ \/ I!DockerBaseUser(base) = None
                               \/ I!IsRoot(I!DockerBaseUser(base))
                               \/ "variable" \in warnings
  BY DEF I!EndsAsNamed
<1>1. /\ base \in Base /\ ~I!Refuses(base) /\ ctx.user = RunsAs
      /\ I!Unresolved(base) => "variable" \in warnings
      /\ box.user = ctx.user \/ (plugins = <<>> /\ box.user = I!DockerBaseUser(base))
  BY DEF UserInv
<1>2. I!BaseUser(base) = I!DockerBaseUser(base)
  BY <1>1, BaseUserIsDockers
<1>3. CASE I!Named # {}
  <2>1. plugins # <<>>
    BY <1>3 DEF I!Named, I!Kinds
  <2> QED BY <1>1, <1>3, <2>1 DEF RunsAs
<1>4. CASE I!Named = {}
  <2>1. ctx.user = I!BaseContext(base).user
    BY <1>1, <1>4 DEF RunsAs
  <2>2. I!Fresh.user = I!RootUser /\ [I!Fresh EXCEPT !.user = I!BaseUser(base)].user = I!BaseUser(base)
    BY DEF I!Fresh
  <2>3. \/ I!BaseContext(base).user = I!BaseUser(base)
        \/ /\ I!BaseContext(base).user = I!RootUser
           /\ I!BaseUser(base) = None \/ I!Unresolved(base) \/ I!IsRoot(I!BaseUser(base))
    <3> DEFINE user == I!BaseUser(base)
               home == <<"home", user.name>>
               x == [I!Fresh EXCEPT !.user = user, !.home = home, !.root = I!Work(home)]
    <3>1. x.user = user
      BY DEF I!Fresh
    <3>2. CASE user = None \/ I!Unresolved(base) \/ I!IsRoot(user)
      BY <2>2, <3>2 DEF I!BaseContext
    <3>3. CASE ~(user = None \/ I!Unresolved(base) \/ I!IsRoot(user))
      <4>1. I!BaseContext(base) = [I!Fresh EXCEPT !.user = user] \/ I!BaseContext(base) = x
        BY <3>3 DEF I!BaseContext
      <4> HIDE DEF x
      <4> QED BY <2>2, <3>1, <4>1
    <3> QED BY <3>2, <3>3
  <2> QED BY <1>1, <1>2, <1>4, <2>1, <2>3
<1> QED BY <1>3, <1>4

-----------------------------------------------------------------------------
\* What a change of user leaves as it was.
Same(x, b) ==
  /\ x.env = b.env /\ x.found = b.found /\ x.owned = b.owned
  /\ x.reads = b.reads /\ x.enabled = b.enabled

LEMMA SameThings ==
  ASSUME NEW c, NEW b, IsImage(b), NEW what, NEW user
  PROVE  /\ IsImage(I!Needs(b, what)) /\ Same(I!Needs(b, what), b)
         /\ IsImage(I!Switch(b, user)) /\ Same(I!Switch(b, user), b)
         /\ IsImage(I!EnterRoot(c, b)) /\ Same(I!EnterRoot(c, b), b)
         /\ IsImage(I!LeaveRoot(c, b)) /\ Same(I!LeaveRoot(c, b), b)
BY DEF I!Needs, I!Switch, I!EnterRoot, I!LeaveRoot, IsImage, Same

\* The image x is b with the project in place, where the context c or b's ENV says.
Placed(x, b, c) ==
  /\ IsImage(x) /\ x.env = b.env /\ x.reads = b.reads /\ x.enabled = b.enabled
  /\ x.found = b.found \cup {b.env} \/ x.found = b.found \cup {c.root}

LEMMA FoundByProject ==
  ASSUME NEW c, NEW b, IsImage(b), NEW p, p.source \in {"git", "local", "archive"}
  PROVE  Placed(I!ProjectFragment(c, b, p), b, c)
<1> DEFINE x == IF p.source = "local" THEN b ELSE I!Needs(b, "project")
           place == IF p.source = "git" THEN b.env ELSE c.root
           who == IF p.owner # None THEN p.owner
                    ELSE I!OwnerOf(IF p.source = "local" THEN I!RootUser ELSE c.user)
           y == I!Find(x, place)
           owned == {o \in y.owned : o[1] # c.root} \cup {<<c.root, who>>}
<1>1. I!ProjectFragment(c, b, p) = I!Chown(I!Find(x, place), c.root, who)
  BY DEF I!ProjectFragment
<1>2. IsImage(x) /\ Same(x, b)
  BY SameThings DEF Same
<1>3. I!Chown(y, c.root, who) = [y EXCEPT !.owned = owned]
  BY DEF I!Chown
<1> HIDE DEF x, place, who, owned
<1>4. IsImage(y) /\ y.found = x.found \cup {place} /\ y.env = x.env /\ y.reads = x.reads /\ y.enabled = x.enabled
  BY <1>2 DEF I!Find, IsImage
<1> HIDE DEF y
<1>5. PICK z : z = [y EXCEPT !.owned = owned]
  OBVIOUS
<1>6. IsImage(z) /\ z.found = y.found /\ z.env = y.env /\ z.reads = y.reads /\ z.enabled = y.enabled
  BY <1>4, <1>5 DEF IsImage
<1>7. I!ProjectFragment(c, b, p) = z
  BY <1>1, <1>3, <1>5 DEF y
<1> QED BY <1>2, <1>4, <1>6, <1>7 DEF Same, place, Placed

LEMMA ReadByService ==
  ASSUME NEW c, NEW b, IsImage(b), NEW p
  PROVE  LET x == I!ServiceFragment(c, b, p)
         IN  /\ IsImage(x) /\ x.env = b.env /\ x.found = b.found /\ x.owned = b.owned /\ x.enabled = b.enabled
             /\ x.reads \subseteq b.reads \cup {c.root}
<1> DEFINE y == I!Needs(I!Switch(b, I!RootUser), p.name)
           reads == IF c.project \/ p.always THEN y.reads \cup {c.root} ELSE y.reads
           z == [y EXCEPT !.reads = reads]
           x == I!Switch(z, IF p.user = None THEN c.user ELSE I!User(p.user, None))
<1>1. IsImage(y) /\ Same(y, b)
  <2> DEFINE w == I!Switch(b, I!RootUser)
  <2>1. IsImage(w) /\ Same(w, b)
    BY SameThings
  <2>2. y = I!Needs(w, p.name)
    OBVIOUS
  <2> HIDE DEF w, y
  <2>3. IsImage(y) /\ Same(y, w)
    BY <2>1, <2>2, SameThings
  <2> QED BY <2>1, <2>3 DEF Same
<1>2. I!ServiceFragment(c, b, p) = x
  BY DEF I!ServiceFragment
<1>3. reads \subseteq b.reads \cup {c.root}
  BY <1>1 DEF Same
<1> HIDE DEF y, reads
<1>4. /\ IsImage(z) /\ z.env = y.env /\ z.found = y.found /\ z.owned = y.owned /\ z.enabled = y.enabled
      /\ z.reads = reads
  BY <1>1 DEF IsImage
<1> HIDE DEF z
<1>5. IsImage(x) /\ Same(x, z)
  BY <1>4, SameThings
<1> HIDE DEF x
<1> QED BY <1>1, <1>2, <1>3, <1>4, <1>5 DEF Same

LEMMA TakenByServer ==
  ASSUME NEW c, NEW b, IsImage(b)
  PROVE  LET x == I!ServerFragment(c, b)
         IN  /\ IsImage(x) /\ x.found = b.found /\ x.reads = b.reads /\ x.enabled = c.enabled
             /\ <<c.root, I!OwnerOf(c.user)>> \in x.owned
<1> DEFINE y == I!Needs(b, "server")
           z == [y EXCEPT !.env = c.root, !.enabled = c.enabled]
           owned == {o \in z.owned : o[1] # c.root} \cup {<<c.root, I!OwnerOf(c.user)>>}
           w == [z EXCEPT !.owned = owned]
           x == I!Switch(w, c.user)
<1>1. IsImage(y) /\ Same(y, b)
  BY SameThings
<1>2. I!ServerFragment(c, b) = x
  BY DEF I!ServerFragment, I!Chown
<1>3. <<c.root, I!OwnerOf(c.user)>> \in owned
  OBVIOUS
<1> HIDE DEF y, owned
<1>4. IsImage(z) /\ z.found = y.found /\ z.reads = y.reads /\ z.enabled = c.enabled
  BY <1>1 DEF IsImage
<1> HIDE DEF z
<1>5. IsImage(w) /\ w.found = z.found /\ w.reads = z.reads /\ w.enabled = z.enabled /\ w.owned = owned
  BY <1>4 DEF IsImage
<1> HIDE DEF w
<1>6. IsImage(x) /\ Same(x, w)
  BY <1>5, SameThings
<1> HIDE DEF x
<1> QED BY <1>1, <1>2, <1>3, <1>4, <1>5, <1>6 DEF Same

-----------------------------------------------------------------------------
Names == {plugins[i].name : i \in I!Kinds({"service"})}
\* Plugins in order so far: at most one project, the services after it and after the
\* users, and none after the server.
Orderly ==
  /\ \A i \in I!Kinds({"server"}) : i = Len(plugins)
  /\ \A i, j \in I!Kinds({"project"}) : i = j
  /\ \A i \in I!Kinds({"service"}), j \in I!Kinds({"project", "user", "raw"}) : j < i

\* What is where in an image that is being put together in order, and in one that was.
InPlace ==
  /\ ctx.enabled = Names
  /\ box.reads \subseteq {ctx.root} /\ (I!Kinds({"service"}) = {} => box.reads = {})
  /\ I!Kinds({"project"}) = {} => box.found = {}
  /\ I!Kinds({"project"}) # {} =>
       ctx.project = TRUE /\ box.found # {} /\ box.found \subseteq {ctx.root, I!AtTheEnd}
  /\ I!Kinds({"server"}) = {} => box.env = I!AtTheEnd
  /\ I!Kinds({"server"}) # {} =>
       <<ctx.root, I!OwnerOf(ctx.user)>> \in box.owned /\ box.enabled = ctx.enabled

Finished ==
  /\ box.found = {ctx.root} /\ box.reads \subseteq {ctx.root} /\ box.user = ctx.user
  /\ <<ctx.root, I!OwnerOf(ctx.user)>> \in box.owned /\ box.enabled = Names
  /\ I!UnderRoot(ctx.root) /\ ~I!IsRoot(ctx.user) => "closed" \in warnings

PlaceInv ==
  /\ phase = "open" /\ Orderly => InPlace
  /\ phase = "done" /\ Orderly /\ I!Kinds({"project"}) # {} /\ I!Kinds({"server"}) # {} => Finished

\* What plugins in order say of the last of them.
LEMMA OrderlyBefore ==
  ASSUME plugins \in Seq(Plugin), NEW p \in Plugin, plugins' = Append(plugins, p), Orderly'
  PROVE  /\ Orderly /\ I!Kinds({"server"}) = {}
         /\ p.kind = "project" => I!Kinds({"project"}) = {}
         /\ p.kind \in {"project", "user", "raw"} => I!Kinds({"service"}) = {}
         /\ I!Kinds({"project"})' = {} <=> I!Kinds({"project"}) = {} /\ p.kind # "project"
         /\ I!Kinds({"service"})' = {} <=> I!Kinds({"service"}) = {} /\ p.kind # "service"
         /\ I!Kinds({"server"})' = {} <=> p.kind # "server"
         /\ Names' = Names \cup (IF p.kind = "service" THEN {p.name} ELSE {})
<1> DEFINE L == Len(plugins)
<1>1. /\ L \in Nat /\ DOMAIN plugins = 1 .. L /\ DOMAIN plugins' = 1 .. L + 1 /\ Len(plugins') = L + 1
      /\ plugins'[L + 1] = p /\ \A i \in 1 .. L : plugins'[i] = plugins[i]
  OBVIOUS
<1>2. /\ \A i : i \in 1 .. L + 1 <=> i \in 1 .. L \/ i = L + 1
      /\ \A i \in 1 .. L : i < L + 1 /\ i # L + 1 /\ ~(L + 1 < i)
  BY <1>1
<1>3. ASSUME NEW set
      PROVE  /\ I!Kinds(set) = {i \in 1 .. L : plugins[i].kind \in set}
             /\ I!Kinds(set)' = I!Kinds(set) \cup {i \in {L + 1} : p.kind \in set}
  <2>1. I!Kinds(set) = {i \in 1 .. L : plugins[i].kind \in set}
    BY <1>1 DEF I!Kinds
  <2>2. I!Kinds(set)' = {i \in 1 .. L + 1 : plugins'[i].kind \in set}
    BY <1>1 DEF I!Kinds
  <2>3. \A i : i \in {k \in 1 .. L + 1 : plugins'[k].kind \in set}
               <=> i \in I!Kinds(set) \/ (i = L + 1 /\ p.kind \in set)
    BY <1>1, <1>2, <2>1
  <2> HIDE DEF L
  <2> QED BY <2>1, <2>2, <2>3
<1>4. \A s \in {{"server"}, {"service"}, {"project"}, {"project", "user", "raw"}} :
        I!Kinds(s) \subseteq I!Kinds(s)' /\ I!Kinds(s) \subseteq 1 .. L
        /\ (I!Kinds(s)' = IF p.kind \in s THEN I!Kinds(s) \cup {L + 1} ELSE I!Kinds(s))
  BY <1>3
<1>5. /\ \A i \in I!Kinds({"server"})' : i = L + 1
      /\ \A i, j \in I!Kinds({"project"})' : i = j
      /\ \A i \in I!Kinds({"service"})', j \in I!Kinds({"project", "user", "raw"})' : j < i
  BY <1>1 DEF Orderly
<1> HIDE DEF L
<1>6. I!Kinds({"server"}) = {}
  BY <1>2, <1>4, <1>5
<1>7. Orderly
  BY <1>4, <1>5, <1>6 DEF Orderly
<1>8. p.kind = "project" => I!Kinds({"project"}) = {}
  BY <1>2, <1>4, <1>5
<1>9. p.kind \in {"project", "user", "raw"} => I!Kinds({"service"}) = {}
  BY <1>2, <1>4, <1>5
<1>10. Names' = Names \cup (IF p.kind = "service" THEN {p.name} ELSE {})
  <2>1. Names' = {plugins'[i].name : i \in I!Kinds({"service"})'}
    BY DEF Names
  <2>2. Names = {plugins[i].name : i \in I!Kinds({"service"})}
    BY DEF Names
  <2>3. \A i \in I!Kinds({"service"}) : plugins'[i] = plugins[i]
    BY <1>1, <1>4
  <2> QED BY <1>1, <1>4, <2>1, <2>2, <2>3
<1> QED BY <1>4, <1>6, <1>7, <1>8, <1>9, <1>10

LEMMA BaseStarts ==
  ASSUME NEW b
  PROVE  I!BaseContext(b).enabled = {} /\ I!BaseContext(b).project = FALSE
<1> DEFINE user == I!BaseUser(b)
           home == <<"home", user.name>>
           y == [I!Fresh EXCEPT !.user = user, !.home = home, !.root = I!Work(home)]
<1>1. I!Fresh.enabled = {} /\ I!Fresh.project = FALSE /\ IsContext(I!Fresh)
  BY DEF I!Fresh, IsContext
<1>2. IsContext(y) /\ y.enabled = {} /\ y.project = FALSE
  <2> HIDE DEF user, home
  <2> QED BY DEF I!Fresh, IsContext
<1>3. [I!Fresh EXCEPT !.user = user].enabled = {} /\ [I!Fresh EXCEPT !.user = user].project = FALSE
  <2> HIDE DEF user
  <2> QED BY DEF I!Fresh
<1>4. I!BaseContext(b) \in {I!Fresh, y, [I!Fresh EXCEPT !.user = user]}
  BY DEF I!BaseContext
<1> HIDE DEF y, user
<1> QED BY <1>1, <1>2, <1>3, <1>4

\* A plugin that moves nothing once there is a service, and is not the project or the server.
LEMMA PassesBy ==
  ASSUME ImageTyping, PlaceInv, NEW p \in Plugin, NEW c, NEW b, I!Applied(p, c, b), Same(b, box),
         p.kind \in {"system", "user", "raw"},
         c.enabled = ctx.enabled, c.project = ctx.project,
         c.root = ctx.root \/ (~ctx.project /\ p.kind \in {"user", "raw"})
  PROVE  PlaceInv'
<1>1. /\ phase = "open" /\ phase' = "open" /\ plugins' = Append(plugins, p) /\ ctx' = c /\ box' = b
      /\ plugins \in Seq(Plugin)
  BY DEF I!Applied, ImageTyping
<1> SUFFICES ASSUME Orderly' PROVE InPlace'
  BY <1>1 DEF PlaceInv
<1>2. /\ Orderly /\ I!Kinds({"server"}) = {}
      /\ p.kind \in {"user", "raw"} => I!Kinds({"service"}) = {}
      /\ I!Kinds({"project"})' = {} <=> I!Kinds({"project"}) = {}
      /\ I!Kinds({"service"})' = {} <=> I!Kinds({"service"}) = {}
      /\ I!Kinds({"server"})' = {}
      /\ Names' = Names
  BY <1>1, OrderlyBefore
<1>3. InPlace
  BY <1>1, <1>2 DEF PlaceInv
<1>4. box'.env = box.env /\ box'.found = box.found /\ box'.reads = box.reads
  BY <1>1 DEF Same
<1>5. c.root = ctx.root \/ (I!Kinds({"project"}) = {} /\ I!Kinds({"service"}) = {})
  <2>1. ~ctx.project => I!Kinds({"project"}) = {}
    BY <1>3, Zenon DEF InPlace
  <2> QED BY <1>2, <2>1
<1>6. /\ c.enabled = Names /\ (c.root = ctx.root => box.reads \subseteq {c.root})
      /\ I!Kinds({"service"}) = {} => box.reads = {}
      /\ I!Kinds({"project"}) = {} => box.found = {}
      /\ I!Kinds({"project"}) # {} => box.found # {} /\ box.found \subseteq {ctx.root, I!AtTheEnd}
      /\ box.env = I!AtTheEnd
  BY <1>2, <1>3 DEF InPlace
<1>7. I!Kinds({"project"}) # {} => c.project = TRUE
  BY <1>3, Zenon DEF InPlace
<1>8. I!AtTheEnd' = I!AtTheEnd
  BY DEF I!AtTheEnd
<1>9. box.reads \subseteq {c.root}
  BY <1>5, <1>6
<1>10. I!Kinds({"project"}) # {} => box.found \subseteq {c.root, I!AtTheEnd}
  BY <1>5, <1>6
<1> QED BY <1>1, <1>2, <1>4, <1>6, <1>7, <1>8, <1>9, <1>10, Zenon DEF InPlace

LEMMA PlaceStep ==
  ASSUME ImageTyping, ImageInv, PlaceInv, [I!Next]_iVars
  PROVE  PlaceInv'
<1>1. IsContext(ctx) /\ IsImage(box) /\ plugins \in Seq(Plugin) /\ I!AtTheEnd' = I!AtTheEnd
  BY DEF ImageTyping, I!AtTheEnd
<1>2. CASE UNCHANGED iVars
  <2>1. /\ (Orderly' <=> Orderly) /\ Names' = Names
        /\ \A s \in {{"server"}, {"service"}, {"project"}} : I!Kinds(s)' = I!Kinds(s)
    BY <1>2 DEF iVars, Orderly, Names, I!Kinds
  <2> QED BY <1>1, <1>2, <2>1 DEF iVars, PlaceInv, InPlace, Finished
<1>3. CASE I!Start
  <2>1. /\ plugins = <<>> /\ plugins' = <<>> /\ box = I!Header /\ UNCHANGED <<plugins, box>>
        /\ phase' \in {"open", "refused"} /\ (phase' = "open" => ctx' = I!BaseContext(base))
    BY <1>3 DEF I!Start, ImageInv
  <2>2. /\ \A s \in {{"server"}, {"service"}, {"project"}} : I!Kinds(s)' = {}
        /\ Names' = {}
    BY <2>1 DEF I!Kinds, Names
  <2>3. box.reads = {} /\ box.found = {} /\ box.env = I!AtTheEnd
    BY <2>1 DEF I!Header
  <2>4. phase' = "open" => InPlace'
    BY <1>1, <2>1, <2>2, <2>3, BaseStarts DEF InPlace
  <2> QED BY <2>1, <2>4 DEF PlaceInv
<1>4. ASSUME NEW p \in Plugin, I!AddSystem(p) PROVE PlaceInv'
  <2> DEFINE x == I!EnterRoot(ctx, box)
             y == I!Needs(x, "system")
             b == I!LeaveRoot(ctx, y)
  <2>1. I!Applied(p, ctx, b) /\ p.kind = "system"
    BY <1>4 DEF I!AddSystem, I!SystemFragment
  <2>2. IsImage(x) /\ Same(x, box)
    BY <1>1, SameThings
  <2> HIDE DEF x
  <2>3. IsImage(y) /\ Same(y, x)
    BY <2>2, SameThings
  <2> HIDE DEF y
  <2>4. IsImage(b) /\ Same(b, y)
    BY <2>3, SameThings
  <2> HIDE DEF b
  <2>5. Same(b, box)
    BY <2>2, <2>3, <2>4 DEF Same
  <2> QED BY <2>1, <2>5, PassesBy
<1>5. ASSUME NEW p \in Plugin, I!AddUser(p) PROVE PlaceInv'
  <2> DEFINE c == I!UserContext(ctx, p)
             x == I!EnterRoot(c, box)
             y == I!Needs(x, "user")
             b == I!LeaveRoot(c, y)
  <2>1. I!Applied(p, c, b) /\ p.kind = "user"
    BY <1>5 DEF I!AddUser
  <2>2. IsImage(x) /\ Same(x, box)
    BY <1>1, SameThings
  <2> HIDE DEF x
  <2>3. IsImage(y) /\ Same(y, x)
    BY <2>2, SameThings
  <2> HIDE DEF y
  <2>4. IsImage(b) /\ Same(b, y)
    BY <2>3, SameThings
  <2> HIDE DEF b
  <2>5. Same(b, box)
    BY <2>2, <2>3, <2>4 DEF Same
  <2>6. c.enabled = ctx.enabled /\ c.project = ctx.project /\ (ctx.project => c.root = ctx.root)
    BY <1>1 DEF I!UserContext, IsContext
  <2> HIDE DEF c
  <2>7. CASE ctx.project
    BY <2>1, <2>5, <2>6, <2>7, PassesBy
  <2>8. CASE ~ctx.project
    BY <2>1, <2>5, <2>6, <2>8, PassesBy
  <2> QED BY <2>7, <2>8
<1>6. ASSUME NEW p \in Plugin, I!AddRawLines(p) PROVE PlaceInv'
  <2> DEFINE c == I!RawContext(ctx, p)
             x == I!EnterRoot(c, box)
             y == I!RawFragment(x, p)
             b == I!LeaveRoot(c, y)
  <2>1. I!Applied(p, c, b) /\ p.kind = "raw"
    BY <1>6 DEF I!AddRawLines
  <2>2. IsImage(x) /\ Same(x, box)
    BY <1>1, SameThings
  <2> HIDE DEF x
  <2>3. IsImage(y) /\ Same(y, x)
    <3> DEFINE z == I!Needs(x, "raw")
    <3>1. IsImage(z) /\ Same(z, x)
      BY <2>2, SameThings
    <3>2. y = z \/ y = I!Switch(z, p.user)
      BY DEF I!RawFragment
    <3> HIDE DEF z, y
    <3>3. IsImage(y) /\ Same(y, z)
      BY <3>1, <3>2, SameThings DEF Same
    <3> QED BY <3>1, <3>3 DEF Same
  <2> HIDE DEF y
  <2>4. IsImage(b) /\ Same(b, y)
    BY <2>3, SameThings
  <2> HIDE DEF b
  <2>5. Same(b, box)
    BY <2>2, <2>3, <2>4 DEF Same
  <2>6. c.enabled = ctx.enabled /\ c.project = ctx.project /\ c.root = ctx.root
    BY <1>1 DEF I!RawContext, IsContext
  <2> HIDE DEF c
  <2> QED BY <2>1, <2>5, <2>6, PassesBy
<1>7. ASSUME NEW p \in Plugin, I!AddProject(p) PROVE PlaceInv'
  <2> DEFINE c == I!ProjectContext(ctx, p)
             x == I!EnterRoot(c, box)
             y == I!ProjectFragment(c, x, p)
             b == I!LeaveRoot(c, y)
  <2>1. I!Applied(p, c, b) /\ p.kind = "project" /\ p.source \in {"git", "local", "archive"}
    BY <1>7, SessionAssumption DEF I!AddProject, I!ImageDefinitionAssumption
  <2>2. IsImage(x) /\ Same(x, box)
    BY <1>1, SameThings
  <2> HIDE DEF x
  <2>3. Placed(y, x, c)
    <3> HIDE DEF c
    <3>1. y = I!ProjectFragment(c, x, p)
      OBVIOUS
    <3> HIDE DEF y
    <3> QED BY <2>1, <2>2, <3>1, FoundByProject
  <2> HIDE DEF y
  <2>4. IsImage(b) /\ Same(b, y)
    BY <2>3, SameThings DEF Placed
  <2>6. c.enabled = ctx.enabled /\ c.project = TRUE
    BY <1>1 DEF I!ProjectContext, IsContext
  <2> HIDE DEF b, c
  <2>7. /\ phase = "open" /\ phase' = "open" /\ plugins' = Append(plugins, p) /\ ctx' = c /\ box' = b
    BY <2>1 DEF I!Applied
  <2> SUFFICES ASSUME Orderly' PROVE InPlace'
    BY <2>7 DEF PlaceInv
  <2>8. /\ Orderly /\ I!Kinds({"server"}) = {} /\ I!Kinds({"project"}) = {} /\ I!Kinds({"service"}) = {}
        /\ I!Kinds({"project"})' # {} /\ I!Kinds({"service"})' = {} /\ I!Kinds({"server"})' = {}
        /\ Names' = Names
    BY <1>1, <2>1, <2>7, OrderlyBefore
  <2>9. InPlace
    BY <2>7, <2>8 DEF PlaceInv
  <2>10. box.found = {} /\ box.reads = {} /\ ctx.enabled = Names /\ box.env = I!AtTheEnd
    BY <2>8, <2>9 DEF InPlace
  <2>11. b.found \in {{I!AtTheEnd}, {c.root}} /\ b.reads = {} /\ b.env = I!AtTheEnd
    BY <2>2, <2>3, <2>4, <2>10 DEF Same, Placed
  <2> QED BY <1>1, <2>6, <2>7, <2>8, <2>10, <2>11 DEF InPlace
<1>8. ASSUME NEW p \in Plugin, I!SecondProject(p) PROVE PlaceInv'
  BY <1>8 DEF I!SecondProject, PlaceInv
<1>9. ASSUME NEW p \in Plugin, I!AddService(p) PROVE PlaceInv'
  <2> DEFINE c == I!ServiceContext(ctx, p)
             x == I!ServiceFragment(c, box, p)
             b == IF I!HasUpstream(c, p) THEN I!McpFragment(c, x) ELSE x
  <2>1. I!Applied(p, c, b) /\ p.kind = "service"
    BY <1>9 DEF I!AddService
  <2>2. c.root = ctx.root /\ c.project = ctx.project /\ c.enabled = ctx.enabled \cup {p.name}
    BY <1>1 DEF I!ServiceContext, IsContext
  <2> HIDE DEF c
  <2>3. /\ IsImage(x) /\ x.env = box.env /\ x.found = box.found /\ x.reads \subseteq box.reads \cup {c.root}
    BY <1>1, ReadByService
  <2> HIDE DEF x
  <2>4. Same(b, x)
    <3>1. CASE I!HasUpstream(c, p)
      <4> DEFINE y == I!EnterRoot(c, x)
                 z == I!Needs(y, "mcp")
                 w == I!LeaveRoot(c, z)
      <4>1. b = w
        BY <3>1 DEF I!McpFragment
      <4>2. IsImage(y) /\ Same(y, x)
        BY <2>3, SameThings
      <4> HIDE DEF y
      <4>3. IsImage(z) /\ Same(z, y)
        BY <4>2, SameThings
      <4> HIDE DEF z
      <4>4. IsImage(w) /\ Same(w, z)
        BY <4>3, SameThings
      <4> HIDE DEF w, b
      <4> QED BY <4>1, <4>2, <4>3, <4>4 DEF Same
    <3>2. CASE ~I!HasUpstream(c, p)
      BY <3>2 DEF Same
    <3> QED BY <3>1, <3>2
  <2> HIDE DEF b
  <2>7. /\ phase = "open" /\ phase' = "open" /\ plugins' = Append(plugins, p) /\ ctx' = c /\ box' = b
    BY <2>1 DEF I!Applied
  <2> SUFFICES ASSUME Orderly' PROVE InPlace'
    BY <2>7 DEF PlaceInv
  <2>8. /\ Orderly /\ I!Kinds({"server"}) = {}
        /\ (I!Kinds({"project"})' = {} <=> I!Kinds({"project"}) = {})
        /\ I!Kinds({"service"})' # {} /\ I!Kinds({"server"})' = {}
        /\ Names' = Names \cup {p.name}
    BY <1>1, <2>1, <2>7, OrderlyBefore
  <2>9. InPlace
    BY <2>7, <2>8 DEF PlaceInv
  <2>10. /\ c.enabled = Names' /\ b.reads \subseteq {c.root} /\ b.env = I!AtTheEnd
         /\ I!Kinds({"project"}) = {} => b.found = {}
         /\ I!Kinds({"project"}) # {} => b.found # {} /\ b.found \subseteq {c.root, I!AtTheEnd}
    BY <2>2, <2>3, <2>4, <2>8, <2>9 DEF InPlace, Same
  <2>11. I!Kinds({"project"}) # {} => c.project = TRUE
    BY <2>2, <2>9, Zenon DEF InPlace
  <2> QED BY <1>1, <2>7, <2>8, <2>10, <2>11, Zenon DEF InPlace
<1>10. ASSUME NEW p \in Plugin, I!AddServer(p) PROVE PlaceInv'
  <2> DEFINE x == I!EnterRoot(ctx, box)
             y == I!ServerFragment(ctx, x)
             b == I!LeaveRoot(ctx, y)
  <2>1. I!Applied(p, ctx, b) /\ p.kind = "server"
    BY <1>10 DEF I!AddServer
  <2>2. IsImage(x) /\ Same(x, box)
    BY <1>1, SameThings
  <2> HIDE DEF x
  <2>3. /\ IsImage(y) /\ y.found = x.found /\ y.reads = x.reads /\ y.enabled = ctx.enabled
        /\ <<ctx.root, I!OwnerOf(ctx.user)>> \in y.owned
    BY <2>2, TakenByServer
  <2> HIDE DEF y
  <2>4. IsImage(b) /\ Same(b, y)
    BY <2>3, SameThings
  <2> HIDE DEF b
  <2>7. /\ phase = "open" /\ phase' = "open" /\ plugins' = Append(plugins, p) /\ ctx' = ctx /\ box' = b
    BY <2>1 DEF I!Applied
  <2> SUFFICES ASSUME Orderly' PROVE InPlace'
    BY <2>7 DEF PlaceInv
  <2>8. /\ Orderly /\ I!Kinds({"server"})' # {}
        /\ (I!Kinds({"project"})' = {} <=> I!Kinds({"project"}) = {})
        /\ (I!Kinds({"service"})' = {} <=> I!Kinds({"service"}) = {})
        /\ Names' = Names
    BY <1>1, <2>1, <2>7, OrderlyBefore
  <2>9. InPlace
    BY <2>7, <2>8 DEF PlaceInv
  <2>10. /\ b.found = box.found /\ b.reads = box.reads /\ b.enabled = ctx.enabled
         /\ <<ctx.root, I!OwnerOf(ctx.user)>> \in b.owned
    BY <2>2, <2>3, <2>4 DEF Same
  <2>11. I!OwnerOf(ctx'.user) = I!OwnerOf(ctx.user)
    BY <2>7
  <2> QED BY <1>1, <2>7, <2>8, <2>9, <2>10, <2>11, Zenon DEF InPlace
<1>11. ASSUME NEW commands \in BOOLEAN, I!Compile(commands) PROVE PlaceInv'
  <2>1. /\ phase = "open" /\ phase' = "done" /\ box' = I!Image(commands) /\ UNCHANGED <<plugins, ctx>>
        /\ ctx.project /\ ~I!IsRoot(ctx.user) /\ I!UnderRoot(ctx.root) => "closed" \in warnings'
    BY <1>11 DEF I!Compile
  <2>2. /\ (Orderly' <=> Orderly) /\ Names' = Names
        /\ \A s \in {{"server"}, {"project"}} : I!Kinds(s)' = I!Kinds(s)
    BY <2>1 DEF Orderly, Names, I!Kinds
  <2> SUFFICES ASSUME Orderly, I!Kinds({"project"}) # {}, I!Kinds({"server"}) # {} PROVE Finished'
    BY <2>1, <2>2 DEF PlaceInv
  <2>3. InPlace
    BY <2>1 DEF PlaceInv
  <2>4. plugins # <<>>
    BY DEF I!Kinds
  <2> DEFINE y == I!Switch(box, ctx.user)
             places == {IF d = I!AtTheEnd THEN ctx.root ELSE d : d \in y.found}
             z == [y EXCEPT !.found = places]
  <2>5. box' = z
    BY <2>1, <2>4 DEF I!Image
  <2>6. IsImage(y) /\ Same(y, box) /\ y.user = ctx.user
    BY <1>1, SameThings, SwitchChangesUser
  <2>7. /\ ctx.enabled = Names /\ box.reads \subseteq {ctx.root}
        /\ box.found # {} /\ box.found \subseteq {ctx.root, I!AtTheEnd}
        /\ <<ctx.root, I!OwnerOf(ctx.user)>> \in box.owned /\ box.enabled = ctx.enabled
    BY <2>3 DEF InPlace
  <2>8. ctx.project
    BY <2>3, Zenon DEF InPlace
  <2>9. places = {ctx.root}
    <3> HIDE DEF y
    <3> QED BY <2>6, <2>7 DEF Same
  <2> HIDE DEF y, places
  <2>10. /\ z.found = places /\ z.reads = y.reads /\ z.user = y.user /\ z.owned = y.owned
         /\ z.enabled = y.enabled
    BY <2>6 DEF IsImage
  <2> HIDE DEF z
  <2>11. /\ z.found = {ctx.root} /\ z.reads \subseteq {ctx.root} /\ z.user = ctx.user
         /\ <<ctx.root, I!OwnerOf(ctx.user)>> \in z.owned /\ z.enabled = Names
    BY <2>6, <2>7, <2>9, <2>10 DEF Same
  <2> QED BY <2>1, <2>2, <2>5, <2>8, <2>11 DEF Finished
<1> QED
  BY <1>2, <1>3, <1>4, <1>5, <1>6, <1>7, <1>8, <1>9, <1>10, <1>11 DEF I!Next

LEMMA ProjectIsUsable ==
  ASSUME ImageTyping, PlaceInv
  PROVE  I!ProjectUsable
<1> SUFFICES ASSUME phase = "done", I!InOrder
             PROVE  /\ box.found = {ctx.root} /\ box.reads \subseteq {ctx.root}
                    /\ <<ctx.root, I!OwnerOf(box.user)>> \in box.owned
                    /\ box.enabled = Names
                    /\ I!UnderRoot(ctx.root) /\ ~I!IsRoot(box.user) => "closed" \in warnings
  BY DEF I!ProjectUsable, Names
<1>1. Len(plugins) \in Nat /\ DOMAIN plugins = 1 .. Len(plugins) /\ Len(plugins) # 0
  BY DEF ImageTyping, I!InOrder
<1>2. ASSUME NEW set
      PROVE  /\ IsFiniteSet(I!Kinds(set))
             /\ I!Cardinality(I!Kinds(set)) = 1 => \E x : I!Kinds(set) = {x}
  <2>1. IsFiniteSet(1 .. Len(plugins))
    BY <1>1, FS_Interval
  <2>2. I!Kinds(set) \subseteq 1 .. Len(plugins)
    BY <1>1 DEF I!Kinds
  <2>3. IsFiniteSet(I!Kinds(set))
    BY <2>1, <2>2, FS_Subset
  <2>4. I!Cardinality(I!Kinds(set)) = Cardinality(I!Kinds(set))
    BY Zenon DEF I!Cardinality, Cardinality
  <2> QED BY <2>3, <2>4, FS_Singleton
<1>3. PICK x : I!Kinds({"server"}) = {x}
  BY <1>2 DEF I!InOrder
<1>4. PICK y : I!Kinds({"project"}) = {y}
  BY <1>2 DEF I!InOrder
<1>5. Len(plugins) \in I!Kinds({"server"})
  BY <1>1 DEF I!InOrder, I!Last, I!Kinds
<1>6. Orderly
  BY <1>3, <1>4, <1>5 DEF Orderly, I!InOrder
<1>7. Finished
  BY <1>3, <1>4, <1>6 DEF PlaceInv
<1> QED BY <1>7 DEF Finished

-----------------------------------------------------------------------------
(* Dockerfile.                                                             *)

\* The lines after i that are not comments: there is none, or there is a first one.
LEMMA NextLine ==
  ASSUME NEW i \in Nat, Len(text) \in Nat
  PROVE  \/ T!Next_(i) = 0 /\ \A j \in i + 1 .. Len(text) : T!IsComment(text[j])
         \/ /\ T!Next_(i) \in i + 1 .. Len(text) /\ ~T!IsComment(text[T!Next_(i)])
            /\ T!Next_(i) # 0
            /\ \A j \in i + 1 .. T!Next_(i) - 1 : T!IsComment(text[j])
<1> DEFINE After == {j \in 1 .. Len(text) : j > i /\ ~T!IsComment(text[j])}
           Lowest(k) == k \in After /\ \A j \in After : k <= j
<1>1. T!Next_(i) = IF After = {} THEN 0 ELSE T!Least(After)
  BY DEF T!Next_, T!Indices
<1>2. CASE After = {}
  <2>1. \A j \in i + 1 .. Len(text) : j \in 1 .. Len(text) /\ j > i
    OBVIOUS
  <2> QED BY <1>1, <1>2, <2>1
<1>3. CASE After # {}
  <2>1. \E k : Lowest(k)
    <3>1. After \subseteq Nat
      OBVIOUS
    <3> HIDE DEF After
    <3> QED BY <1>3, <3>1, LeastNumber
  <2>2. T!Least(After) = CHOOSE k : Lowest(k)
    BY DEF T!Least
  <2>3. PICK k : k = T!Least(After)
    OBVIOUS
  <2>4. Lowest(k)
    <3> HIDE DEF Lowest
    <3> QED BY <2>1, <2>2, <2>3, Zenon
  <2>5. k \in i + 1 .. Len(text) /\ ~T!IsComment(text[k]) /\ k # 0
    BY <2>4
  <2>6. \A j \in i + 1 .. k - 1 : T!IsComment(text[j])
    <3> SUFFICES ASSUME NEW j \in i + 1 .. k - 1, ~T!IsComment(text[j]) PROVE FALSE
      OBVIOUS
    <3>1. j \in 1 .. Len(text) /\ j > i /\ ~(k <= j)
      BY <2>5
    <3> QED BY <2>4, <3>1
  <2> QED BY <1>1, <1>3, <2>3, <2>5, <2>6
<1> QED BY <1>2, <1>3

\* The lines of an instruction: its first, and those of the rest it goes on with.
LEMMA PartsAre ==
  ASSUME Len(text) \in Nat, NEW i \in 1 .. Len(text)
  PROVE  T!Parts[i] = {i} \cup (IF T!Continues(i) /\ T!Next_(i) # 0
                                THEN T!Parts[T!Next_(i)] ELSE {})
<1> DEFINE L == Len(text)
           Its(g, k) == {k} \cup (IF T!Continues(k) /\ T!Next_(k) # 0 THEN g[T!Next_(k)] ELSE {})
           Is(g) == g = [k \in 1 .. L |-> Its(g, k)]
           \* as the definition has it for the last n lines
           Ends(g, n) == /\ g = [k \in 1 .. L |-> g[k]]
                         /\ \A k \in 1 .. L : k > L - n => g[k] = Its(g, k)
           Without == {n \in 0 .. L : ~\E g : Ends(g, n)}
           it == CHOOSE g : Is(g)
<1>1. T!Parts = it
  BY DEF T!Parts, T!Indices
<1>2. \E g : Ends(g, 0)
  <2>1. PICK g : g = [k \in 1 .. L |-> {}]
    OBVIOUS
  <2>2. g = [k \in 1 .. L |-> g[k]] /\ \A k \in 1 .. L : ~(k > L - 0)
    BY <2>1
  <2>3. Ends(g, 0)
    <3> HIDE DEF Its
    <3> QED BY <2>2
  <2> QED BY <2>3, Zenon
<1>3. ASSUME NEW n \in 0 .. L - 1, NEW f, Ends(f, n)
      PROVE  \E g : Ends(g, n + 1)
  <2> DEFINE a == L - n
  <2>0. a \in 1 .. L
    OBVIOUS
  <2>1. PICK v : v = Its(f, a)
    OBVIOUS
  <2>2. PICK g : g = [k \in 1 .. L |-> IF k = a THEN v ELSE f[k]]
    OBVIOUS
  <2>3. g = [k \in 1 .. L |-> g[k]]
    BY <2>2
  <2>4. ASSUME NEW k \in 1 .. L, k >= a PROVE Its(g, k) = Its(f, k)
    <3>1. ASSUME T!Next_(k) # 0 PROVE g[T!Next_(k)] = f[T!Next_(k)]
      <4>1. PICK m : m = T!Next_(k)
        OBVIOUS
      <4>2. m \in k + 1 .. L
        BY <3>1, <4>1, NextLine
      <4>3. m \in 1 .. L /\ m # a
        BY <2>0, <2>4, <4>2
      <4> QED BY <2>2, <4>1, <4>3
    <3> QED BY <3>1
  <2>5. ASSUME NEW k \in 1 .. L, k > L - (n + 1) PROVE g[k] = Its(g, k)
    <3>1. k >= a
      BY <2>0, <2>5
    <3>2. CASE k = a
      <4> HIDE DEF Its
      <4> QED BY <2>0, <2>1, <2>2, <2>4, <3>1, <3>2
    <3>3. CASE k # a
      <4>1. k > L - n /\ g[k] = f[k]
        BY <2>0, <2>2, <3>1, <3>3
      <4>2. f[k] = Its(f, k)
        <5> HIDE DEF Its
        <5> QED BY <1>3, <4>1
      <4> HIDE DEF Its
      <4> QED BY <2>4, <3>1, <4>1, <4>2
    <3> QED BY <3>2, <3>3
  <2>6. Ends(g, n + 1)
    <3> HIDE DEF Its
    <3> QED BY <2>3, <2>5
  <2> QED BY <2>6, Zenon
<1>4. Without = {}
  <2> SUFFICES ASSUME Without # {} PROVE FALSE
    OBVIOUS
  <2>1. PICK n \in Without : \A k \in Without : n <= k
    <3>1. Without \subseteq Nat
      OBVIOUS
    <3> HIDE DEF Without
    <3> QED BY <3>1, LeastNumber
  <2>2. n \in 0 .. L /\ ~\E g : Ends(g, n)
    OBVIOUS
  <2>3. n # 0
    BY <1>2, <2>2, Zenon
  <2>4. n - 1 \in 0 .. L - 1 /\ n - 1 \in 0 .. L /\ (n - 1) + 1 = n /\ ~(n <= n - 1)
    BY <2>2, <2>3
  <2>5. n - 1 \notin Without
    <3> HIDE DEF Without
    <3> QED BY <2>1, <2>4
  <2>6. \E g : Ends(g, n - 1)
    BY <2>4, <2>5, Zenon
  <2> HIDE DEF Ends
  <2>7. \E g : Ends(g, (n - 1) + 1)
    BY <1>3, <2>4, <2>6, Zenon
  <2> QED BY <2>2, <2>4, <2>7
<1>5. \E g : Is(g)
  <2>1. L \in 0 .. L
    OBVIOUS
  <2>2. PICK g : Ends(g, L)
    BY <1>4, <2>1, Zenon
  <2>3. \A k \in 1 .. L : g[k] = Its(g, k)
    <3>1. \A k \in 1 .. L : k > L - L
      OBVIOUS
    <3> HIDE DEF Its
    <3> QED BY <2>2, <3>1
  <2>4. Is(g)
    <3> HIDE DEF Its
    <3> QED BY <2>2, <2>3
  <2> QED BY <2>4, Zenon
<1>6. Is(it)
  <2> HIDE DEF Is
  <2> QED BY <1>5, Zenon
<1> HIDE DEF it
<1>7. it[i] = Its(it, i)
  <2> HIDE DEF Its
  <2> QED BY <1>6, Zenon
<1> QED BY <1>1, <1>7

\* They lie between its first and the end of the text, and one is the last.
LEMMA PartsWithin ==
  ASSUME Len(text) \in Nat, NEW i \in 1 .. Len(text)
  PROVE  /\ i \in T!Parts[i] /\ \A j \in T!Parts[i] : j \in i .. Len(text)
         /\ \E m \in T!Parts[i] : \A j \in T!Parts[i] : j <= m
<1> DEFINE L == Len(text)
           Fits(k) == \A j \in T!Parts[k] : j \in k .. L
           Bad == {n \in 0 .. L - 1 : ~Fits(L - n)}
<1>1. ASSUME NEW k \in 1 .. L, \A m \in k + 1 .. L : Fits(m)
      PROVE  Fits(k)
  <2>1. T!Parts[k] = {k} \cup (IF T!Continues(k) /\ T!Next_(k) # 0
                               THEN T!Parts[T!Next_(k)] ELSE {})
    BY PartsAre
  <2>2. CASE T!Next_(k) = 0
    BY <2>1, <2>2
  <2>3. CASE T!Next_(k) # 0
    <3>1. PICK m : m = T!Next_(k)
      OBVIOUS
    <3>2. m \in k + 1 .. L
      BY <2>3, <3>1, NextLine
    <3>3. \A j \in T!Parts[m] : j \in m .. L
      BY <1>1, <3>2
    <3>4. \A j \in T!Parts[m] : j \in k .. L
      BY <3>2, <3>3
    <3>5. \A j \in T!Parts[k] : j = k \/ j \in T!Parts[m]
      BY <2>1, <3>1
    <3> QED BY <3>4, <3>5
  <2> QED BY <2>2, <2>3
<1>2. Bad = {}
  <2> SUFFICES ASSUME Bad # {} PROVE FALSE
    OBVIOUS
  <2>1. PICK n \in Bad : \A k \in Bad : n <= k
    <3>1. Bad \subseteq Nat
      OBVIOUS
    <3> HIDE DEF Bad
    <3> QED BY <3>1, LeastNumber
  <2> HIDE DEF Fits
  <2>2. n \in 0 .. L - 1 /\ ~Fits(L - n)
    OBVIOUS
  <2>3. ASSUME NEW m \in L - n + 1 .. L PROVE Fits(m)
    <3>1. L - m \in 0 .. L - 1 /\ ~(n <= L - m) /\ L - (L - m) = m
      BY <2>2
    <3>2. L - m \notin Bad
      <4> HIDE DEF Bad
      <4> QED BY <2>1, <3>1
    <3> QED BY <3>1, <3>2
  <2>4. L - n \in 1 .. L
    BY <2>2
  <2> QED BY <1>1, <2>2, <2>3, <2>4
<1>3. Fits(i)
  <2>1. L - i \in 0 .. L - 1 /\ L - (L - i) = i
    OBVIOUS
  <2> HIDE DEF Fits
  <2> QED BY <1>2, <2>1
<1>4. i \in T!Parts[i]
  BY PartsAre
<1>5. T!Parts[i] \in SUBSET (1 .. L)
  BY <1>3
<1>6. T!Parts[i] # {} /\ L \in Nat
  BY <1>4
<1>7. PICK m : m \in T!Parts[i] /\ \A j \in T!Parts[i] : j <= m
  BY <1>5, <1>6, LargestOf
<1> QED BY <1>3, <1>4, <1>7

-----------------------------------------------------------------------------
\* How many numbers of a set are no larger than j.
UpTo(s, j) == {k \in s : k <= j}
Count(s, j) == Cardinality(UpTo(s, j))

LEMMA SameCardinality ==
  ASSUME NEW s
  PROVE  T!Cardinality(s) = Cardinality(s)
BY Zenon DEF T!Cardinality, Cardinality

\* The count goes up by one at each number of the set.
LEMMA CountStep ==
  ASSUME NEW n \in Nat, NEW s \in SUBSET (1 .. n)
  PROVE  /\ IsFiniteSet(s) /\ Cardinality(s) \in Nat
         /\ Count(s, 0) = 0 /\ Count(s, n) = Cardinality(s)
         /\ \A j \in Nat : /\ Count(s, j) \in Nat
                           /\ Count(s, j + 1) = Count(s, j) + (IF j + 1 \in s THEN 1 ELSE 0)
<1>1. IsFiniteSet(1 .. n)
  BY FS_Interval
<1>2. IsFiniteSet(s) /\ Cardinality(s) \in Nat
  BY <1>1, FS_Subset, FS_CardinalityType
<1>3. UpTo(s, 0) = {} /\ UpTo(s, n) = s
  <2>1. \A k \in s : k \in 1 .. n
    OBVIOUS
  <2>2. \A k \in 1 .. n : ~(k <= 0) /\ k <= n
    OBVIOUS
  <2> QED BY <2>1, <2>2, Zenon DEF UpTo
<1>4. ASSUME NEW j \in Nat
      PROVE  /\ Count(s, j) \in Nat
             /\ Count(s, j + 1) = Count(s, j) + (IF j + 1 \in s THEN 1 ELSE 0)
  <2>1. IsFiniteSet(UpTo(s, j)) /\ Count(s, j) \in Nat
    <3>1. UpTo(s, j) \in SUBSET s
      BY DEF UpTo
    <3>2. IsFiniteSet(UpTo(s, j))
      BY <1>2, <3>1, FS_Subset
    <3> QED BY <3>2, FS_CardinalityType DEF Count
  <2>2. \A k \in s : k <= j + 1 <=> k <= j \/ k = j + 1
    <3>1. \A k \in s : k \in 1 .. n
      OBVIOUS
    <3>2. \A k \in 1 .. n : k <= j + 1 <=> k <= j \/ k = j + 1
      OBVIOUS
    <3> QED BY <3>1, <3>2, Zenon
  <2>a. ~(j + 1 <= j)
    OBVIOUS
  <2>3. CASE j + 1 \in s
    <3>1. UpTo(s, j + 1) = UpTo(s, j) \cup {j + 1} /\ j + 1 \notin UpTo(s, j)
      BY <2>2, <2>3, <2>a, Zenon DEF UpTo
    <3> QED BY <2>1, <2>3, <3>1, FS_AddElement DEF Count
  <2>4. CASE j + 1 \notin s
    <3>1. UpTo(s, j + 1) = UpTo(s, j)
      BY <2>2, <2>4, Zenon DEF UpTo
    <3>2. Count(s, j + 1) = Count(s, j)
      BY <3>1 DEF Count
    <3> QED BY <2>1, <2>4, <3>2
  <2> QED BY <2>3, <2>4
<1>5. Count(s, 0) = 0
  BY <1>3, FS_EmptySet DEF Count
<1>6. Count(s, n) = Cardinality(s)
  BY <1>3 DEF Count
<1> QED BY <1>2, <1>4, <1>5, <1>6

\* So every count up to that of the whole set is reached, at a number of the set.
LEMMA CountReached ==
  ASSUME NEW n \in Nat, NEW s \in SUBSET (1 .. n), NEW c \in Nat, c > 0, c <= Cardinality(s)
  PROVE  \E j \in s : Count(s, j) = c
<1> DEFINE Enough == {j \in 0 .. n : Count(s, j) >= c}
<1>1. /\ Count(s, 0) = 0 /\ Count(s, n) = Cardinality(s) /\ Cardinality(s) \in Nat
      /\ \A j \in Nat : /\ Count(s, j) \in Nat
                        /\ Count(s, j + 1) = Count(s, j) + (IF j + 1 \in s THEN 1 ELSE 0)
  BY CountStep
<1>2. n \in Enough /\ Enough \subseteq Nat
  BY <1>1
<1>3. PICK j \in Enough : \A k \in Enough : j <= k
  <2> HIDE DEF Enough
  <2> QED BY <1>2, LeastNumber
<1>4. j \in 0 .. n /\ Count(s, j) >= c
  OBVIOUS
<1>5. j # 0
  BY <1>1, <1>4
<1>6. j - 1 \in 0 .. n /\ j - 1 \in Nat /\ (j - 1) + 1 = j /\ ~(j <= j - 1)
  BY <1>4, <1>5
<1>7. j - 1 \notin Enough
  <2> HIDE DEF Enough
  <2> QED BY <1>3, <1>6
<1>8. PICK x, y : x = Count(s, j) /\ y = Count(s, j - 1)
  OBVIOUS
<1>9. ~(y >= c) /\ x >= c /\ x \in Nat /\ y \in Nat /\ x = y + (IF j \in s THEN 1 ELSE 0)
  <2>1. \A k \in Nat : Count(s, k) \in Nat
    BY <1>1
  <2>2. Count(s, (j - 1) + 1) = Count(s, j - 1) + (IF (j - 1) + 1 \in s THEN 1 ELSE 0)
    BY <1>1, <1>6
  <2> QED BY <1>4, <1>6, <1>7, <1>8, <2>1, <2>2
<1>10. j \in s /\ x = c
  BY <1>9
<1> QED BY <1>8, <1>10

-----------------------------------------------------------------------------
\* The delimiters after a line, and how many of them are no later than j.
LEMMA EndsCounted ==
  ASSUME Len(text) \in Nat, NEW a \in Nat
  PROVE  /\ T!Ends(a) \in SUBSET (1 .. Len(text)) /\ IsFiniteSet(T!Ends(a))
         /\ T!Cardinality(T!Ends(a)) = Cardinality(T!Ends(a)) /\ Cardinality(T!Ends(a)) \in Nat
         /\ \A j : T!Cardinality({k \in T!Ends(a) : k <= j}) = Count(T!Ends(a), j)
<1>1. T!Ends(a) \in SUBSET (1 .. Len(text))
  BY DEF T!Ends, T!Indices
<1>2. IsFiniteSet(T!Ends(a)) /\ Cardinality(T!Ends(a)) \in Nat
  BY <1>1, CountStep
<1>3. \A j : T!Cardinality({k \in T!Ends(a) : k <= j}) = Count(T!Ends(a), j)
  BY SameCardinality DEF Count, UpTo
<1>4. T!Cardinality(T!Ends(a)) = Cardinality(T!Ends(a))
  BY SameCardinality
<1> QED BY <1>1, <1>2, <1>3, <1>4

\* Where an instruction and its heredocs end.
LEMMA AbsorbedIs ==
  ASSUME Len(text) \in Nat, NEW i \in 1 .. Len(text)
  PROVE  \E m \in T!Parts[i], c \in Nat :
           /\ \A j \in T!Parts[i] : j <= m
           /\ c = Cardinality({j \in T!Parts[i] : text[j].heredoc})
           /\ m \in i .. Len(text)
           /\ LET last == IF T!Continues(m) THEN Len(text) ELSE m
                  ends == T!Ends(last)
                  a == T!Absorbed(i)
              IN  /\ last \in i .. Len(text) /\ a.end \in last .. Len(text)
                  /\ a.heredocs = IF c < Cardinality(ends) THEN c ELSE Cardinality(ends)
                  /\ IF a.heredocs = 0 THEN a.end = last
                     ELSE a.end \in ends /\ Count(ends, a.end) = a.heredocs
<1> DEFINE L == Len(text)
           all == T!Parts[i]
           top(m) == m \in all /\ \A j \in all : j <= m
           m == CHOOSE j \in all : \A k \in all : k <= j
           last == T!Last(i)
           ends == T!Ends(last)
           here == {j \in all : text[j].heredoc}
           c == Cardinality(here)
           opened == IF c < Cardinality(ends) THEN c ELSE Cardinality(ends)
           end == IF opened = 0 THEN last
                  ELSE CHOOSE j \in ends : T!Cardinality({k \in ends : k <= j}) = opened
<1>1. i \in all /\ all \in SUBSET (1 .. L) /\ (\A j \in all : j \in i .. L) /\ \E k \in all : \A j \in all : j <= k
  BY PartsWithin
<1>2. m \in all /\ \A j \in all : j <= m
  <2> HIDE DEF all
  <2> QED BY <1>1, Zenon
<1>3. m \in i .. L
  BY <1>1, <1>2
<1>4. last = IF T!Continues(m) THEN L ELSE m
  BY DEF T!Last
<1>5. last \in i .. L /\ last \in Nat
  <2> HIDE DEF m, last
  <2> QED BY <1>3, <1>4
<1>6. /\ ends \in SUBSET (1 .. L) /\ T!Cardinality(ends) = Cardinality(ends) /\ Cardinality(ends) \in Nat
      /\ \A j : T!Cardinality({k \in ends : k <= j}) = Count(ends, j)
  <2> HIDE DEF last
  <2> QED BY <1>5, EndsCounted
<1>7. c \in Nat /\ T!Candidates(i) = c
  <2>1. here \in SUBSET (1 .. L)
    BY <1>1
  <2>2. T!Cardinality(here) = Cardinality(here)
    <3> HIDE DEF here
    <3> QED BY SameCardinality
  <2>3. T!Candidates(i) = T!Cardinality(here)
    BY DEF T!Candidates
  <2> HIDE DEF here
  <2> QED BY <2>1, <2>2, <2>3, CountStep
<1>8. T!Absorbed(i) = [end |-> end, heredocs |-> opened]
  BY <1>6, <1>7 DEF T!Absorbed
<1>9. opened \in Nat /\ opened <= Cardinality(ends)
  <2> HIDE DEF c, ends
  <2> QED BY <1>6, <1>7
<1>10. opened # 0 => end \in ends /\ Count(ends, end) = opened
  <2> SUFFICES ASSUME opened # 0 PROVE end \in ends /\ Count(ends, end) = opened
    OBVIOUS
  <2> HIDE DEF opened, ends
  <2>1. \E j \in ends : Count(ends, j) = opened
    <3>1. opened > 0 /\ L \in Nat
      BY <1>9
    <3> HIDE DEF L
    <3> QED BY <1>6, <1>9, <3>1, CountReached
  <2>2. end = CHOOSE j \in ends : T!Cardinality({k \in ends : k <= j}) = opened
    OBVIOUS
  <2>3. \E j \in ends : T!Cardinality({k \in ends : k <= j}) = opened
    BY <1>6, <2>1, Zenon
  <2>4. end \in ends /\ T!Cardinality({k \in ends : k <= end}) = opened
    BY <2>2, <2>3, Zenon
  <2> QED BY <1>6, <2>4, Zenon
<1>11. end \in last .. L
  <2>1. CASE opened = 0
    <3>1. end = last
      BY <2>1
    <3> HIDE DEF end, last
    <3> QED BY <1>5, <3>1
  <2>2. CASE opened # 0
    <3>1. end \in ends
      BY <1>10, <2>2
    <3> HIDE DEF end, last
    <3> QED BY <1>5, <3>1 DEF T!Ends, T!Indices
  <2> QED BY <2>1, <2>2
<1> DEFINE a == T!Absorbed(i)
<1>12. a.end = end /\ a.heredocs = opened
  <2> HIDE DEF end, opened
  <2> QED BY <1>8
<1>13. opened = 0 => end = last
  OBVIOUS
<1> HIDE DEF end, opened, a
<1>14. /\ last \in i .. L /\ a.end \in last .. L
       /\ a.heredocs = IF c < Cardinality(ends) THEN c ELSE Cardinality(ends)
       /\ IF a.heredocs = 0 THEN a.end = last
          ELSE a.end \in ends /\ Count(ends, a.end) = a.heredocs
  <2>1. opened = IF c < Cardinality(ends) THEN c ELSE Cardinality(ends)
    BY DEF opened
  <2> HIDE DEF c, ends, last
  <2> QED BY <1>5, <1>10, <1>11, <1>12, <1>13, <2>1
<1> HIDE DEF m, c, last
<1> QED BY <1>2, <1>3, <1>4, <1>7, <1>14 DEF c, a

-----------------------------------------------------------------------------
\* Docker's state after each line is what its reading of that line makes of the one before.
LEMMA StatesAre ==
  ASSUME NEW i \in Nat
  PROVE  T!DockerState[i] =
           IF i = 0 THEN T!Between ELSE T!Reads(T!DockerState[i - 1], text[i], T!EscapeCharacter)
<1> DEFINE Its(g, k) == IF k = 0 THEN T!Between ELSE T!Reads(g[k - 1], text[k], T!EscapeCharacter)
           Is(g, n) == g = [k \in 0 .. n |-> Its(g, k)]
           Without == {n \in Nat : ~\E g : Is(g, n)}
           upTo(n) == CHOOSE g : Is(g, n)
           all == [k \in Nat |-> upTo(k)[k]]
           it == CHOOSE g : g = [k \in Nat |-> Its(g, k)]
<1>1. T!DockerState = it
  BY DEF T!DockerState
<1>2. \E g : Is(g, 0)
  <2>1. Is([k \in 0 .. 0 |-> T!Between], 0)
    OBVIOUS
  <2> QED BY <2>1, Zenon
<1>3. ASSUME NEW n \in Nat, NEW f, Is(f, n)
      PROVE  \E g : Is(g, n + 1)
  <2>1. PICK g : g = [k \in 0 .. n + 1 |-> Its(f, k)]
    OBVIOUS
  <2>2. ASSUME NEW k \in 0 .. n + 1 PROVE Its(f, k) = Its(g, k)
    <3>1. CASE k = 0
      BY <3>1
    <3>2. CASE k # 0
      <4>1. k - 1 \in 0 .. n /\ k - 1 \in 0 .. n + 1
        BY <3>2
      <4>2. g[k - 1] = Its(f, k - 1) /\ f[k - 1] = Its(f, k - 1)
        <5> HIDE DEF Its
        <5> QED BY <1>3, <2>1, <4>1, Zenon
      <4> QED BY <4>2
    <3> QED BY <3>1, <3>2
  <2> HIDE DEF Its
  <2>3. Is(g, n + 1)
    BY <2>1, <2>2
  <2> QED BY <2>3
<1>4. Without = {}
  <2> SUFFICES ASSUME Without # {} PROVE FALSE
    OBVIOUS
  <2>1. PICK n \in Without : \A k \in Without : n <= k
    <3>1. Without \subseteq Nat
      OBVIOUS
    <3> HIDE DEF Without
    <3> QED BY <3>1, LeastNumber
  <2>2. n \in Nat /\ ~\E g : Is(g, n)
    OBVIOUS
  <2>3. n # 0
    BY <1>2, <2>2, Zenon
  <2>4. n - 1 \in Nat /\ (n - 1) + 1 = n /\ ~(n <= n - 1)
    BY <2>2, <2>3
  <2>5. n - 1 \notin Without
    <3> HIDE DEF Without
    <3> QED BY <2>1, <2>4
  <2>6. \E g : Is(g, n - 1)
    BY <2>4, <2>5, Zenon
  <2> HIDE DEF Is
  <2>7. \E g : Is(g, (n - 1) + 1)
    BY <1>3, <2>4, <2>6, Zenon
  <2> QED BY <2>2, <2>4, <2>7
<1>5. ASSUME NEW n \in Nat PROVE Is(upTo(n), n)
  <2>1. \E g : Is(g, n)
    BY <1>4, Zenon
  <2> HIDE DEF Is
  <2> QED BY <2>1, Zenon
<1> HIDE DEF upTo, Without
\* Two such agree where both are defined.
<1>6. ASSUME NEW n \in Nat PROVE \A k \in 0 .. n : upTo(n + 1)[k] = upTo(n)[k]
  <2> DEFINE f == upTo(n)
             g == upTo(n + 1)
             Apart == {k \in 0 .. n : g[k] # f[k]}
  <2> SUFFICES ASSUME Apart # {} PROVE FALSE
    OBVIOUS
  <2>1. PICK k \in Apart : \A j \in Apart : k <= j
    <3>1. Apart \subseteq Nat
      OBVIOUS
    <3> HIDE DEF Apart
    <3> QED BY <3>1, LeastNumber
  <2>2. k \in 0 .. n /\ g[k] # f[k]
    OBVIOUS
  <2>3. g[k] = Its(g, k) /\ f[k] = Its(f, k)
    <3>1. k \in 0 .. n + 1 /\ n + 1 \in Nat
      BY <2>2
    <3>2. Is(f, n) /\ Is(g, n + 1)
      BY <1>5, <3>1
    <3> HIDE DEF Its, f, g
    <3> QED BY <2>2, <3>1, <3>2, Zenon
  <2> HIDE DEF f, g
  <2>4. k # 0
    BY <2>2, <2>3
  <2>5. k - 1 \in 0 .. n /\ ~(k <= k - 1)
    BY <2>2, <2>4
  <2>6. k - 1 \notin Apart
    <3> HIDE DEF Apart
    <3> QED BY <2>1, <2>5
  <2>7. g[k - 1] = f[k - 1]
    BY <2>5, <2>6
  <2> QED BY <2>2, <2>3, <2>4, <2>7
<1>7. all = [k \in Nat |-> Its(all, k)]
  <2>1. ASSUME NEW k \in Nat PROVE upTo(k)[k] = Its(all, k)
    <3>1. k \in 0 .. k
      OBVIOUS
    <3>2. upTo(k)[k] = Its(upTo(k), k)
      <4>1. Is(upTo(k), k)
        BY <1>5
      <4> HIDE DEF Its
      <4> QED BY <3>1, <4>1, Zenon
    <3>3. CASE k = 0
      BY <3>2, <3>3
    <3>4. CASE k # 0
      <4>1. k - 1 \in Nat /\ k - 1 \in 0 .. k - 1 /\ (k - 1) + 1 = k
        BY <3>4
      <4>2. upTo(k)[k - 1] = upTo(k - 1)[k - 1]
        BY <1>6, <4>1
      <4>3. all[k - 1] = upTo(k)[k - 1]
        BY <4>1, <4>2
      <4> HIDE DEF all
      <4> QED BY <3>2, <3>4, <4>3
    <3> QED BY <3>3, <3>4
  <2> HIDE DEF Its
  <2> QED BY <2>1
<1>8. it = [k \in Nat |-> Its(it, k)]
  <2> DEFINE Fits(g) == g = [k \in Nat |-> Its(g, k)]
  <2>1. \E g : Fits(g)
    <3>1. Fits(all)
      <4> HIDE DEF all, Its
      <4> QED BY <1>7
    <3> HIDE DEF Fits
    <3> QED BY <3>1, Zenon
  <2>2. it = CHOOSE g : Fits(g)
    OBVIOUS
  <2>3. Fits(it)
    <3> HIDE DEF Fits, it
    <3> QED BY <2>1, <2>2, Zenon
  <2> HIDE DEF it, Its
  <2> QED BY <2>3
<1> HIDE DEF it
<1>9. it[i] = Its(it, i)
  <2> HIDE DEF Its
  <2> QED BY <1>8, Zenon
<1> QED BY <1>1, <1>9

-----------------------------------------------------------------------------
\* Docker's states, by name; a line that says something.
St(i) == T!DockerState[i]
Said(i) == ~T!IsComment(text[i]) /\ text[i].says # "blank"
Opens(i) == IF text[i].heredoc THEN 1 ELSE 0

\* What a line does to the state.
LEMMA ReadsIs ==
  ASSUME NEW i \in Nat, i # 0, St(i - 1) \in [in : {"between", "instruction", "body"}, open : Nat]
  PROVE  LET s == St(i - 1)
         IN  /\ s.in = "body" =>
                  St(i) = IF text[i].says # "end" THEN s
                          ELSE IF s.open = 1 THEN T!Between ELSE [in |-> "body", open |-> s.open - 1]
             /\ s.in # "body" /\ ~Said(i) => St(i) = s
             /\ s.in # "body" /\ Said(i) =>
                  St(i) = [in |-> IF T!Continues(i) THEN "instruction"
                                  ELSE IF s.open + Opens(i) > 0 THEN "body" ELSE "between",
                           open |-> s.open + Opens(i)]
<1> DEFINE s == St(i - 1)
<1>1. St(i) = T!Reads(s, text[i], T!EscapeCharacter)
  BY StatesAre DEF St
<1>2. PICK z : z = s /\ z \in [in : {"between", "instruction", "body"}, open : Nat]
  OBVIOUS
<1>3. [z EXCEPT !.open = @ - 1] = [in |-> z.in, open |-> z.open - 1]
  BY <1>2
<1>4. T!Continues(i) <=> text[i].ends = T!EscapeCharacter /\ ~text[i].doubled
  BY DEF T!Continues, T!EscapeOfBody
<1>5. St(i) = T!Reads(z, text[i], T!EscapeCharacter)
  BY <1>1, <1>2
<1>6. CASE z.in = "body"
  <2>1. St(i) = IF text[i].says # "end" THEN z
                ELSE IF z.open = 1 THEN T!Between ELSE [z EXCEPT !.open = @ - 1]
    BY <1>5, <1>6 DEF T!Reads
  <2> QED BY <1>2, <1>3, <1>6, <2>1
<1>7. CASE z.in # "body" /\ ~Said(i)
  <2>1. St(i) = z
    BY <1>5, <1>7 DEF T!Reads, Said
  <2> QED BY <1>2, <1>7, <2>1
<1>8. CASE z.in # "body" /\ Said(i)
  <2>1. St(i) = [in |-> IF text[i].ends = T!EscapeCharacter /\ ~text[i].doubled THEN "instruction"
                        ELSE IF z.open + Opens(i) > 0 THEN "body" ELSE "between",
                 open |-> z.open + Opens(i)]
    BY <1>5, <1>8 DEF T!Reads, Said, Opens
  <2> QED BY <1>2, <1>4, <1>8, <2>1
<1> QED BY <1>2, <1>6, <1>7, <1>8

\* Between instructions no heredoc is open, and in a body one is.
State == [in : {"between", "instruction", "body"}, open : Nat]
LEMMA StatesTyped ==
  ASSUME NEW i \in Nat
  PROVE  /\ St(i) \in State
         /\ St(i).in = "between" => St(i).open = 0
         /\ St(i).in = "body" => St(i).open > 0
<1> DEFINE Typed(k) == /\ St(k) \in State
                       /\ St(k).in = "between" => St(k).open = 0
                       /\ St(k).in = "body" => St(k).open > 0
           Bad == {k \in Nat : ~Typed(k)}
<1>1. T!Between = [in |-> "between", open |-> 0]
  BY DEF T!Between
<1>2. Typed(0)
  <2>1. St(0) = T!Between
    BY StatesAre DEF St
  <2> QED BY <1>1, <2>1 DEF State
<1>3. ASSUME NEW k \in Nat, k # 0, Typed(k - 1) PROVE Typed(k)
  <2>1. PICK s : s = St(k - 1)
    OBVIOUS
  <2>2. s \in State /\ s.open \in Nat /\ (s.in = "between" => s.open = 0) /\ (s.in = "body" => s.open > 0)
    BY <1>3, <2>1 DEF State
  <2>3. Opens(k) \in Nat
    BY DEF Opens
  <2>4. /\ s.in = "body" =>
             St(k) = IF text[k].says # "end" THEN s
                     ELSE IF s.open = 1 THEN T!Between ELSE [in |-> "body", open |-> s.open - 1]
        /\ s.in # "body" /\ ~Said(k) => St(k) = s
        /\ s.in # "body" /\ Said(k) =>
             St(k) = [in |-> IF T!Continues(k) THEN "instruction"
                             ELSE IF s.open + Opens(k) > 0 THEN "body" ELSE "between",
                      open |-> s.open + Opens(k)]
    BY <1>3, <2>1, <2>2, ReadsIs DEF State
  <2>5. PICK t : t = St(k)
    OBVIOUS
  <2>6. CASE t = s
    BY <2>2, <2>5, <2>6
  <2>7. CASE s.in = "body" /\ t = T!Between
    BY <1>1, <2>5, <2>7 DEF State
  <2>8. CASE s.in = "body" /\ s.open # 1 /\ t = [in |-> "body", open |-> s.open - 1]
    <3>1. s.open - 1 \in Nat /\ s.open - 1 > 0
      BY <2>2, <2>8
    <3> QED BY <2>5, <2>8, <3>1 DEF State
  <2>9. CASE s.in # "body" /\ Said(k)
    <3>1. PICK o : o = s.open + Opens(k)
      OBVIOUS
    <3>2. o \in Nat
      BY <2>2, <2>3, <3>1
    <3>3. t = [in |-> IF T!Continues(k) THEN "instruction" ELSE IF o > 0 THEN "body" ELSE "between",
               open |-> o]
      BY <2>4, <2>5, <2>9, <3>1
    <3> QED BY <2>5, <3>2, <3>3 DEF State
  <2> QED BY <2>2, <2>4, <2>5, <2>6, <2>7, <2>8, <2>9
<1>4. Bad = {}
  <2> SUFFICES ASSUME Bad # {} PROVE FALSE
    OBVIOUS
  <2>1. PICK k \in Bad : \A j \in Bad : k <= j
    <3>1. Bad \subseteq Nat
      OBVIOUS
    <3> HIDE DEF Bad
    <3> QED BY <3>1, LeastNumber
  <2> HIDE DEF Typed
  <2>2. k \in Nat /\ ~Typed(k)
    OBVIOUS
  <2>3. k # 0
    BY <1>2, <2>2
  <2>4. k - 1 \in Nat /\ ~(k <= k - 1)
    BY <2>2, <2>3
  <2>5. k - 1 \notin Bad
    <3> HIDE DEF Bad
    <3> QED BY <2>1, <2>4
  <2>6. Typed(k - 1)
    BY <2>4, <2>5
  <2> QED BY <1>3, <2>2, <2>3, <2>6
<1>5. Typed(i)
  <2> HIDE DEF Typed
  <2> QED BY <1>4
<1> QED BY <1>5

\* Lines that say nothing change nothing, outside of a body.
LEMMA SilenceKeeps ==
  ASSUME NEW a \in Nat, NEW b \in Nat, a <= b, St(a).in # "body", \A k \in a + 1 .. b : ~Said(k)
  PROVE  \A k \in a .. b : St(k) = St(a)
<1> DEFINE Bad == {k \in a .. b : St(k) # St(a)}
<1> SUFFICES ASSUME Bad # {} PROVE FALSE
  OBVIOUS
<1>1. PICK k \in Bad : \A j \in Bad : k <= j
  <2>1. Bad \subseteq Nat
    OBVIOUS
  <2> HIDE DEF Bad
  <2> QED BY <2>1, LeastNumber
<1>2. k \in a .. b /\ St(k) # St(a)
  OBVIOUS
<1>3. k # a
  BY <1>2
<1>4. k \in a + 1 .. b /\ k \in Nat /\ k # 0 /\ k - 1 \in a .. b /\ k - 1 \in Nat /\ ~(k <= k - 1)
  BY <1>2, <1>3
<1>5. k - 1 \notin Bad
  <2> HIDE DEF Bad
  <2> QED BY <1>1, <1>4
<1>6. St(k - 1) = St(a)
  BY <1>4, <1>5
<1>7. St(k - 1) \in State
  BY <1>4, StatesTyped
<1>8. St(k) = St(k - 1)
  BY <1>4, <1>6, <1>7, ReadsIs DEF State
<1> QED BY <1>2, <1>6, <1>8

-----------------------------------------------------------------------------
\* How Docker reads the lines of the instruction at i, of which m is the last: the lines
\* between them say nothing, and each heredoc that they open counts.
Heredocs(i) == {j \in T!Parts[i] : text[j].heredoc}
Joins(i, m) ==
  /\ m \in T!Parts[i] /\ \A j \in T!Parts[i] : j <= m /\ Said(j)
  /\ \A j \in i .. m : j \notin T!Parts[i] => ~Said(j)
  /\ \A j \in i .. m - 1 : St(j).in = "instruction"
  /\ St(m).in = IF T!Continues(m) THEN "instruction" ELSE IF St(m).open > 0 THEN "body" ELSE "between"
  /\ T!Continues(m) => \A j \in m + 1 .. Len(text) : ~Said(j)
  /\ St(m).open = St(i - 1).open + Cardinality(Heredocs(i))

\* An instruction of one line, or whose continuation never comes.
LEMMA JoinsOne ==
  ASSUME Len(text) \in Nat, NEW i \in 1 .. Len(text), St(i - 1).in # "body", Said(i),
         ~T!Continues(i) \/ T!Next_(i) = 0
  PROVE  Joins(i, i)
<1>0. i - 1 \in Nat /\ i \in Nat /\ i # 0
  OBVIOUS
<1>1. T!Parts[i] = {i}
  BY PartsAre
<1>2. Cardinality(Heredocs(i)) = Opens(i)
  <2>1. Heredocs(i) = IF text[i].heredoc THEN {i} ELSE {}
    BY <1>1 DEF Heredocs
  <2> QED BY <2>1, FS_EmptySet, FS_Singleton DEF Opens
<1>3. PICK s : s = St(i - 1) /\ s \in State
  BY <1>0, StatesTyped
<1>4. PICK o : o = s.open + Opens(i)
  OBVIOUS
<1>5. St(i) = [in |-> IF T!Continues(i) THEN "instruction" ELSE IF o > 0 THEN "body" ELSE "between",
               open |-> o]
  BY <1>0, <1>3, <1>4, ReadsIs DEF State
<1>6. St(i).open = o /\ St(i).in = IF T!Continues(i) THEN "instruction" ELSE IF o > 0 THEN "body" ELSE "between"
  BY <1>5
<1>7. T!Continues(i) => \A j \in i + 1 .. Len(text) : ~Said(j)
  BY <1>0, NextLine DEF Said
<1>8. \A j \in i .. i : j = i
  OBVIOUS
<1>9. i .. i - 1 = {}
  OBVIOUS
<1> QED BY <1>1, <1>2, <1>3, <1>4, <1>6, <1>7, <1>8, <1>9 DEF Joins

\* One that goes on with the line k, which says something unless a blank line is inside.
LEMMA JoinsMore ==
  ASSUME Len(text) \in Nat, ~T!BlankInside, NEW i \in 1 .. Len(text), St(i - 1).in # "body", Said(i),
         T!Continues(i), T!Next_(i) # 0,
         \A k \in i + 1 .. Len(text) : St(k - 1).in # "body" /\ Said(k) => \E m : Joins(k, m)
  PROVE  \E m : Joins(i, m)
<1> DEFINE L == Len(text)
<1>0. i - 1 \in Nat /\ i \in Nat /\ i # 0
  OBVIOUS
<1>1. PICK k : k = T!Next_(i)
  OBVIOUS
<1>2. k \in i + 1 .. L /\ ~T!IsComment(text[k]) /\ \A j \in i + 1 .. k - 1 : ~Said(j)
  BY <1>0, <1>1, NextLine DEF Said
<1>3. T!Parts[i] = {i} \cup T!Parts[k]
  BY <1>1, PartsAre
<1>4. PICK s : s = St(i - 1) /\ s \in State
  BY <1>0, StatesTyped
<1>5. St(i) = [in |-> "instruction", open |-> s.open + Opens(i)]
  BY <1>0, <1>4, ReadsIs DEF State
<1>6. \A j \in i .. k - 1 : St(j) = St(i)
  <2>1. k - 1 \in Nat /\ i <= k - 1 /\ St(i).in # "body"
    BY <1>2, <1>5
  <2> QED BY <1>0, <1>2, <2>1, SilenceKeeps
<1>7. St(k - 1) = St(i) /\ k - 1 \in Nat /\ k \in 1 .. L
  BY <1>2, <1>6
<1>8. Said(k)
  <2> SUFFICES ASSUME text[k].says = "blank" PROVE FALSE
    BY <1>2 DEF Said
  <2>1. T!DockerState[k - 1].in = "instruction"
    BY <1>5, <1>7 DEF St
  <2> QED BY <1>7, <2>1 DEF T!BlankInside, T!Indices
<1>9. PICK m : Joins(k, m)
  BY <1>2, <1>5, <1>7, <1>8
<1>10. /\ \A j \in T!Parts[k] : j \in k .. L
       /\ m \in T!Parts[k] /\ \A j \in T!Parts[k] : j <= m /\ Said(j)
       /\ \A j \in k .. m : j \notin T!Parts[k] => ~Said(j)
       /\ \A j \in k .. m - 1 : St(j).in = "instruction"
       /\ St(m).in = IF T!Continues(m) THEN "instruction" ELSE IF St(m).open > 0 THEN "body" ELSE "between"
       /\ T!Continues(m) => \A j \in m + 1 .. L : ~Said(j)
       /\ St(m).open = St(k - 1).open + Cardinality(Heredocs(k))
  BY <1>7, <1>9, PartsWithin DEF Joins
<1>11. m \in k .. L /\ i < k /\ i <= m /\ m \in T!Parts[i]
  BY <1>2, <1>3, <1>10
<1>12. \A j \in T!Parts[i] : j <= m /\ Said(j)
  BY <1>3, <1>10, <1>11
<1>13. \A j \in i .. m : j \notin T!Parts[i] => ~Said(j)
  <2> SUFFICES ASSUME NEW j \in i .. m, j \notin T!Parts[i] PROVE ~Said(j)
    OBVIOUS
  <2>1. j # i /\ j \notin T!Parts[k]
    BY <1>3
  <2>2. j \in i + 1 .. k - 1 \/ j \in k .. m
    BY <1>2, <1>11, <2>1
  <2> QED BY <1>2, <1>10, <2>1, <2>2
<1>14. \A j \in i .. m - 1 : St(j).in = "instruction"
  <2> SUFFICES ASSUME NEW j \in i .. m - 1 PROVE St(j).in = "instruction"
    OBVIOUS
  <2>1. j \in i .. k - 1 \/ j \in k .. m - 1
    BY <1>2, <1>11
  <2> QED BY <1>5, <1>6, <1>10, <2>1
<1>15. Cardinality(Heredocs(i)) = Opens(i) + Cardinality(Heredocs(k)) /\ Cardinality(Heredocs(k)) \in Nat
  <2>1. i \notin T!Parts[k]
    <3>1. i \notin k .. L
      BY <1>2
    <3> QED BY <1>10, <3>1
  <2>2. Heredocs(i) = IF text[i].heredoc THEN Heredocs(k) \cup {i} ELSE Heredocs(k)
    BY <1>3 DEF Heredocs
  <2>3. i \notin Heredocs(k)
    BY <2>1 DEF Heredocs
  <2>4. IsFiniteSet(Heredocs(k)) /\ Cardinality(Heredocs(k)) \in Nat
    <3>1. Heredocs(k) \in SUBSET (1 .. L)
      BY <1>2, <1>10 DEF Heredocs
    <3>2. L \in Nat
      OBVIOUS
    <3> QED BY <3>1, <3>2, CountStep
  <2>5. CASE text[i].heredoc
    <3>1. Cardinality(Heredocs(k) \cup {i}) = Cardinality(Heredocs(k)) + 1
      BY <2>3, <2>4, FS_AddElement
    <3> QED BY <2>2, <2>4, <2>5, <3>1 DEF Opens
  <2>6. CASE ~text[i].heredoc
    BY <2>2, <2>4, <2>6 DEF Opens
  <2> QED BY <2>5, <2>6
<1>16. St(m).open = s.open + Cardinality(Heredocs(i))
  <2>1. St(k - 1).open = s.open + Opens(i)
    BY <1>5, <1>7
  <2>2. PICK a, b, c, d : a = s.open /\ b = Opens(i) /\ c = Cardinality(Heredocs(k)) /\ d = Cardinality(Heredocs(i))
    OBVIOUS
  <2>3. a \in Nat /\ b \in Nat /\ c \in Nat /\ d = b + c /\ St(m).open = (a + b) + c
    BY <1>4, <1>10, <1>15, <2>1, <2>2 DEF State, Opens
  <2>4. (a + b) + c = a + d
    BY <2>3
  <2> QED BY <2>2, <2>3, <2>4
<1>17. Joins(i, m)
  BY <1>4, <1>10, <1>11, <1>12, <1>13, <1>14, <1>16 DEF Joins
<1> QED BY <1>17

LEMMA InstructionJoins ==
  ASSUME Len(text) \in Nat, ~T!BlankInside, NEW i \in 1 .. Len(text), St(i - 1).in # "body", Said(i)
  PROVE  \E m : Joins(i, m)
<1> DEFINE L == Len(text)
           Does(k) == St(k - 1).in # "body" /\ Said(k) => \E m : Joins(k, m)
           Bad == {n \in 0 .. L - 1 : ~Does(L - n)}
<1>1. ASSUME NEW k \in 1 .. L, \A j \in k + 1 .. L : Does(j)
      PROVE  Does(k)
  BY <1>1, JoinsOne, JoinsMore
<1>2. Bad = {}
  <2> SUFFICES ASSUME Bad # {} PROVE FALSE
    OBVIOUS
  <2>1. PICK n \in Bad : \A k \in Bad : n <= k
    <3>1. Bad \subseteq Nat
      OBVIOUS
    <3> HIDE DEF Bad
    <3> QED BY <3>1, LeastNumber
  <2> HIDE DEF Does
  <2>2. n \in 0 .. L - 1 /\ ~Does(L - n)
    OBVIOUS
  <2>3. ASSUME NEW m \in L - n + 1 .. L PROVE Does(m)
    <3>1. L - m \in 0 .. L - 1 /\ ~(n <= L - m) /\ L - (L - m) = m
      BY <2>2
    <3>2. L - m \notin Bad
      <4> HIDE DEF Bad
      <4> QED BY <2>1, <3>1
    <3> QED BY <3>1, <3>2
  <2>4. L - n \in 1 .. L
    BY <2>2
  <2> QED BY <1>1, <2>2, <2>3, <2>4
<1>3. Does(i)
  <2>1. L - i \in 0 .. L - 1 /\ L - (L - i) = i
    OBVIOUS
  <2> HIDE DEF Does
  <2> QED BY <1>2, <2>1
<1> QED BY <1>3

-----------------------------------------------------------------------------
LEMMA CountGrows ==
  ASSUME NEW n \in Nat, NEW s \in SUBSET (1 .. n), NEW a \in Nat, NEW b \in Nat, a <= b
  PROVE  Count(s, a) <= Count(s, b)
<1>1. IsFiniteSet(s) /\ \A k \in s : k \in Nat
  BY CountStep
<1>2. UpTo(s, a) \in SUBSET UpTo(s, b) /\ UpTo(s, b) \in SUBSET s
  <2>1. \A k \in s : k <= a => k <= b
    BY <1>1
  <2> QED BY <2>1, Zenon DEF UpTo
<1>3. IsFiniteSet(UpTo(s, b))
  BY <1>1, <1>2, FS_Subset
<1> QED BY <1>2, <1>3, FS_Subset DEF Count

Counts(s) ==
  \A j \in Nat : /\ Count(s, j) \in Nat
                /\ Count(s, j + 1) = Count(s, j) + (IF j + 1 \in s THEN 1 ELSE 0)

LEMMA CountsOneByOne ==
  ASSUME NEW n \in Nat, NEW s \in SUBSET (1 .. n)
  PROVE  Counts(s)
BY CountStep DEF Counts

\* The bodies of heredocs: if all end, there are delimiters enough, and Docker is between
\* instructions again at the one for the last.
LEMMA BodiesEnd ==
  ASSUME Len(text) \in Nat, NEW m \in 0 .. Len(text), St(m).in = "body", St(Len(text)).open = 0
  PROVE  /\ St(m).open <= Cardinality(T!Ends(m))
         /\ \A j \in T!Ends(m) : Count(T!Ends(m), j) = St(m).open =>
              St(j).in = "between" /\ \A k \in m .. j - 1 : St(k).in = "body"
<1> DEFINE L == Len(text)
           ends == T!Ends(m)
           Still(k) == Count(ends, k) < St(m).open =>
                         St(k) = [in |-> "body", open |-> St(m).open - Count(ends, k)]
           Bad == {k \in m .. L : ~Still(k)}
<1>0. PICK c : c = St(m).open
  OBVIOUS
<1>1. c \in Nat /\ c > 0 /\ St(m) = [in |-> "body", open |-> c]
  BY <1>0, StatesTyped DEF State
<1>2. ends \in SUBSET (1 .. L) /\ ends = {j \in 1 .. L : j > m /\ text[j].says = "end"}
  BY EndsCounted DEF T!Ends, T!Indices
<1> HIDE DEF ends
<1>3. /\ Count(ends, L) = Cardinality(ends) /\ Cardinality(ends) \in Nat
      /\ \A j \in Nat : Count(ends, j) \in Nat
      /\ \A j \in Nat : Count(ends, j + 1) = Count(ends, j) + (IF j + 1 \in ends THEN 1 ELSE 0)
  <2>1. L \in Nat /\ ends \in SUBSET (1 .. L)
    BY <1>2
  <2> HIDE DEF L
  <2>2. Cardinality(ends) \in Nat /\ Count(ends, L) = Cardinality(ends)
    BY <2>1, CountStep
  <2>3. Counts(ends)
    BY <2>1, CountsOneByOne
  <2> QED BY <2>2, <2>3 DEF Counts
<1>4. Count(ends, m) = 0
  <2>1. \A k \in ends : ~(k <= m)
    BY <1>2
  <2>2. UpTo(ends, m) = {}
    BY <2>1 DEF UpTo
  <2> QED BY <2>2, FS_EmptySet DEF Count
<1>5. Still(m)
  BY <1>0, <1>1, <1>4
<1>6. ASSUME NEW k \in m + 1 .. L
      PROVE  /\ k \in Nat /\ k # 0 /\ k - 1 \in Nat /\ k - 1 \in m .. L
             /\ (k \in ends <=> text[k].says = "end")
             /\ Count(ends, k) = Count(ends, k - 1) + (IF k \in ends THEN 1 ELSE 0)
             /\ Count(ends, k) \in Nat /\ Count(ends, k - 1) \in Nat
  <2>1. k \in 1 .. L /\ k > m /\ k - 1 \in Nat /\ (k - 1) + 1 = k /\ k - 1 \in m .. L
    OBVIOUS
  <2>2. Count(ends, (k - 1) + 1) = Count(ends, k - 1) + (IF (k - 1) + 1 \in ends THEN 1 ELSE 0)
    BY <1>3, <2>1
  <2> QED BY <1>2, <1>3, <2>1, <2>2
<1>7. ASSUME NEW k \in m + 1 .. L, Count(ends, k - 1) < c, Still(k - 1)
      PROVE  /\ k \notin ends => St(k) = [in |-> "body", open |-> c - Count(ends, k - 1)]
             /\ k \in ends => St(k) = IF c - Count(ends, k - 1) = 1 THEN T!Between
                                      ELSE [in |-> "body", open |-> (c - Count(ends, k - 1)) - 1]
  <2>1. PICK s : s = St(k - 1)
    OBVIOUS
  <2>2. s = [in |-> "body", open |-> c - Count(ends, k - 1)]
    BY <1>0, <1>7, <2>1
  <2>3. St(k - 1) \in State
    BY <1>6, StatesTyped
  <2>4. St(k) = IF text[k].says # "end" THEN s
                ELSE IF s.open = 1 THEN T!Between ELSE [in |-> "body", open |-> s.open - 1]
    BY <1>6, <2>1, <2>2, <2>3, ReadsIs DEF State
  <2> QED BY <1>6, <2>2, <2>4
<1>8. ASSUME NEW k \in m + 1 .. L, Still(k - 1) PROVE Still(k)
  <2> SUFFICES ASSUME Count(ends, k) < St(m).open
               PROVE  St(k) = [in |-> "body", open |-> St(m).open - Count(ends, k)]
    OBVIOUS
  <2>1. PICK x, y : x = Count(ends, k) /\ y = Count(ends, k - 1)
    OBVIOUS
  <2>2. x \in Nat /\ y \in Nat /\ x = y + (IF k \in ends THEN 1 ELSE 0) /\ x < c
    BY <1>0, <1>6, <2>1
  <2>3. y < c
    BY <1>1, <2>2
  <2>4. /\ k \notin ends => St(k) = [in |-> "body", open |-> c - y]
        /\ k \in ends => St(k) = IF c - y = 1 THEN T!Between
                                 ELSE [in |-> "body", open |-> (c - y) - 1]
    <3> HIDE DEF Still
    <3> QED BY <1>7, <1>8, <2>1, <2>3
  <2>5. CASE k \notin ends
    BY <1>0, <2>1, <2>2, <2>4, <2>5
  <2>6. CASE k \in ends
    <3>1. c - y # 1 /\ (c - y) - 1 = c - x
      BY <1>1, <2>2, <2>6
    <3> QED BY <1>0, <2>1, <2>4, <2>6, <3>1
  <2> QED BY <2>5, <2>6
<1>9. Bad = {}
  <2> SUFFICES ASSUME Bad # {} PROVE FALSE
    OBVIOUS
  <2>1. PICK k \in Bad : \A j \in Bad : k <= j
    <3>1. Bad \subseteq Nat
      OBVIOUS
    <3> HIDE DEF Bad
    <3> QED BY <3>1, LeastNumber
  <2> HIDE DEF Still
  <2>2. k \in m .. L /\ ~Still(k)
    OBVIOUS
  <2>3. k # m
    BY <1>5, <2>2
  <2>4. k \in m + 1 .. L /\ k - 1 \in m .. L /\ ~(k <= k - 1)
    BY <2>2, <2>3
  <2>5. k - 1 \notin Bad
    <3> HIDE DEF Bad
    <3> QED BY <2>1, <2>4
  <2>6. Still(k - 1)
    BY <2>4, <2>5
  <2> QED BY <1>8, <2>2, <2>4, <2>6
<1>10. ASSUME NEW k \in m .. L, Count(ends, k) < c
       PROVE  St(k) = [in |-> "body", open |-> c - Count(ends, k)]
  <2>1. Still(k)
    <3> HIDE DEF Still
    <3> QED BY <1>9
  <2> QED BY <1>0, <1>10, <2>1
<1>11. c <= Cardinality(ends)
  <2> SUFFICES ASSUME ~(c <= Cardinality(ends)) PROVE FALSE
    OBVIOUS
  <2>1. PICK x : x = Count(ends, L)
    OBVIOUS
  <2>2. x \in Nat /\ x < c /\ L \in m .. L
    BY <1>1, <1>3, <2>1
  <2>3. St(L) = [in |-> "body", open |-> c - x]
    BY <1>10, <2>1, <2>2
  <2>4. c - x # 0
    BY <1>1, <2>2
  <2> QED BY <2>3, <2>4
<1>12. ASSUME NEW j \in ends, Count(ends, j) = c
       PROVE  St(j).in = "between" /\ \A k \in m .. j - 1 : St(k).in = "body"
  <2>1. j \in m + 1 .. L
    BY <1>2
  <2>2. PICK y : y = Count(ends, j - 1)
    OBVIOUS
  <2>3. y \in Nat /\ c = y + 1 /\ y < c /\ j - 1 \in m .. L /\ j - 1 \in Nat
    BY <1>1, <1>6, <1>12, <2>1, <2>2
  <2>4. Still(j - 1)
    BY <1>0, <1>10, <2>2, <2>3
  <2>5. St(j) = T!Between
    <3>1. St(j) = IF c - y = 1 THEN T!Between ELSE [in |-> "body", open |-> (c - y) - 1]
      <4> HIDE DEF Still
      <4> QED BY <1>7, <2>1, <2>2, <2>3, <2>4
    <3>2. c - y = 1
      BY <2>3
    <3> QED BY <3>1, <3>2
  <2>6. ASSUME NEW k \in m .. j - 1 PROVE St(k).in = "body"
    <3>1. k \in m .. L /\ k \in Nat /\ k <= j - 1 /\ L \in Nat
      BY <2>1
    <3>2. PICK x : x = Count(ends, k)
      OBVIOUS
    <3>3. x <= y /\ x \in Nat
      <4>1. Count(ends, k) <= Count(ends, j - 1)
        <5> HIDE DEF L
        <5> QED BY <1>2, <2>3, <3>1, CountGrows
      <4> QED BY <1>3, <2>2, <3>1, <3>2, <4>1
    <3>4. x < c
      BY <2>3, <3>3
    <3> QED BY <1>10, <3>1, <3>2, <3>4
  <2> QED BY <2>5, <2>6 DEF T!Between
<1> QED BY <1>0, <1>11, <1>12 DEF ends

\* An instruction that begins where Docker is between two: its lines are Docker's, up to the
\* end of its heredocs no other begins, and there Docker is between two again.
EndsAt(i, e) ==
  /\ e \in i .. Len(text) /\ (St(e).in = "between" \/ e = Len(text))
  /\ \A j \in T!Parts[i] : j \in i .. e /\ Said(j)
  /\ \A j \in i .. e : T!Read(j) <=> j \in T!Parts[i]
  /\ \A j \in i + 1 .. e : ~T!Begins(j)

LEMMA ReadIs ==
  ASSUME NEW j
  PROVE  /\ T!Read(j) <=> St(j - 1).in # "body" /\ Said(j)
         /\ T!Begins(j) <=> T!Read(j) /\ St(j - 1).in = "between"
BY DEF T!Read, T!Begins, St, Said

LEMMA InstructionEnds ==
  ASSUME Len(text) \in Nat, ~T!BlankInside, St(Len(text)).open = 0,
         NEW i \in 1 .. Len(text), T!Begins(i)
  PROVE  /\ EndsAt(i, T!Absorbed(i).end)
         /\ T!Absorbed(i).heredocs = Cardinality(Heredocs(i)) /\ Cardinality(Heredocs(i)) \in Nat
<1> DEFINE L == Len(text)
           a == T!Absorbed(i)
<1>0. i - 1 \in Nat /\ i \in Nat
  OBVIOUS
<1>1. St(i - 1).in = "between" /\ Said(i) /\ St(i - 1).open = 0
  BY <1>0, ReadIs, StatesTyped
<1>2. PICK m : Joins(i, m)
  BY <1>1, InstructionJoins
<1>3. /\ m \in T!Parts[i] /\ \A j \in T!Parts[i] : j <= m /\ Said(j)
      /\ \A j \in i .. m : j \notin T!Parts[i] => ~Said(j)
      /\ \A j \in i .. m - 1 : St(j).in = "instruction"
      /\ St(m).in = IF T!Continues(m) THEN "instruction" ELSE IF St(m).open > 0 THEN "body" ELSE "between"
      /\ T!Continues(m) => \A j \in m + 1 .. L : ~Said(j)
      /\ St(m).open = St(i - 1).open + Cardinality(Heredocs(i))
  BY <1>2 DEF Joins
<1>4. \A j \in T!Parts[i] : j \in i .. L
  BY PartsWithin
<1>5. PICK c : c = Cardinality(Heredocs(i)) /\ c \in Nat
  <2>1. Heredocs(i) \in SUBSET (1 .. L)
    BY <1>4 DEF Heredocs
  <2>2. L \in Nat
    OBVIOUS
  <2> QED BY <2>1, <2>2, CountStep
<1>6. m \in i .. L /\ m \in Nat /\ St(m).open = c
  BY <1>1, <1>3, <1>4, <1>5
<1>7. PICK last, ends :
        /\ last = IF T!Continues(m) THEN L ELSE m
        /\ ends = T!Ends(last)
        /\ a.end \in last .. L
        /\ a.heredocs = IF c < Cardinality(ends) THEN c ELSE Cardinality(ends)
        /\ IF a.heredocs = 0 THEN a.end = last
           ELSE a.end \in ends /\ Count(ends, a.end) = a.heredocs
  <2>1. PICK p \in T!Parts[i], d \in Nat :
           /\ \A j \in T!Parts[i] : j <= p
           /\ d = Cardinality({j \in T!Parts[i] : text[j].heredoc})
           /\ LET last == IF T!Continues(p) THEN L ELSE p
                  ends == T!Ends(last)
              IN  /\ a.end \in last .. L
                  /\ a.heredocs = IF d < Cardinality(ends) THEN d ELSE Cardinality(ends)
                  /\ IF a.heredocs = 0 THEN a.end = last
                     ELSE a.end \in ends /\ Count(ends, a.end) = a.heredocs
    <3> HIDE DEF a
    <3>1. a = T!Absorbed(i)
      BY DEF a
    <3> QED BY <3>1, AbsorbedIs
  <2>2. d = c
    BY <1>5, <2>1 DEF Heredocs
  <2>3. p = m
    <3>1. p <= m /\ m <= p /\ p \in i .. L /\ m \in i .. L
      BY <1>3, <1>4, <2>1
    <3>2. p = m
      BY <3>1
    <3> QED BY <3>2
  <2> HIDE DEF a
  <2> QED BY <2>1, <2>2, <2>3
<1> HIDE DEF a
\* up to the last line of the instruction
<1>8. ASSUME NEW j \in i .. m
      PROVE  /\ T!Read(j) <=> j \in T!Parts[i]
             /\ j \in i + 1 .. m => ~T!Begins(j)
  <2>1. CASE j = i
    <3>1. i \notin i + 1 .. m /\ i \in T!Parts[i] /\ T!Read(i)
      BY ReadIs, PartsWithin
    <3> QED BY <2>1, <3>1
  <2>2. CASE j # i
    <3>1. j - 1 \in i .. m - 1
      BY <1>6, <2>2
    <3>2. St(j - 1).in = "instruction"
      BY <1>3, <3>1
    <3> QED BY <1>3, <3>2, ReadIs
  <2> QED BY <2>1, <2>2
\* and past it
<1>9. CASE T!Continues(m)
  <2>1. c = 0
    <3>1. \A k \in m .. L : St(k) = St(m)
      BY <1>3, <1>6, <1>9, SilenceKeeps
    <3> QED BY <1>6, <3>1
  <2>2. last = L /\ a.end = L /\ a.heredocs = c
    <3>1. last = L
      BY <1>7, <1>9
    <3>2. Cardinality(ends) \in Nat
      BY <1>7, <3>1, EndsCounted
    <3>3. a.heredocs = 0
      BY <1>7, <2>1, <3>2
    <3> QED BY <1>7, <2>1, <3>1, <3>3
  <2>3. \A j \in i .. L : (T!Read(j) <=> j \in T!Parts[i]) /\ (j \in i + 1 .. L => ~T!Begins(j))
    <3> SUFFICES ASSUME NEW j \in i .. L
                 PROVE  (T!Read(j) <=> j \in T!Parts[i]) /\ (j \in i + 1 .. L => ~T!Begins(j))
      OBVIOUS
    <3>1. CASE j \in i .. m
      <4>1. j \in i + 1 .. L => j \in i + 1 .. m
        BY <3>1
      <4> QED BY <1>8, <3>1, <4>1
    <3>2. CASE j \notin i .. m
      <4>1. j \in m + 1 .. L /\ ~(j <= m)
        BY <1>6, <3>2
      <4>2. ~Said(j) /\ j \notin T!Parts[i]
        BY <1>3, <1>9, <4>1
      <4> QED BY <4>2, ReadIs
    <3> QED BY <3>1, <3>2
  <2>4. i \in i .. L /\ L \in i .. L /\ \A j \in i + 1 .. L : j \in i .. L
    OBVIOUS
  <2>5. EndsAt(i, L)
    BY <1>3, <1>4, <2>3, <2>4 DEF EndsAt
  <2> QED BY <1>5, <2>2, <2>5 DEF a
<1>10. CASE ~T!Continues(m) /\ c = 0
  <2>1. last = m /\ a.end = m /\ a.heredocs = c
    <3>1. last = m
      BY <1>7, <1>10
    <3>2. Cardinality(ends) \in Nat
      BY <1>6, <1>7, <3>1, EndsCounted
    <3>3. a.heredocs = 0
      BY <1>7, <1>10, <3>2
    <3> QED BY <1>7, <1>10, <3>1, <3>3
  <2>2. St(m).in = "between"
    BY <1>3, <1>6, <1>10
  <2>3. \A j \in T!Parts[i] : j \in i .. m /\ Said(j)
    <3> SUFFICES ASSUME NEW j \in T!Parts[i] PROVE j \in i .. m /\ Said(j)
      OBVIOUS
    <3>1. j \in i .. L /\ j <= m /\ Said(j)
      BY <1>3, <1>4
    <3> QED BY <1>6, <3>1
  <2>4. \A j \in i + 1 .. m : j \in i .. m
    OBVIOUS
  <2>5. EndsAt(i, m)
    BY <1>6, <1>8, <2>2, <2>3, <2>4 DEF EndsAt
  <2> QED BY <1>5, <2>1, <2>5 DEF a
<1>11. CASE ~T!Continues(m) /\ c # 0
  <2>1. last = m /\ ends = T!Ends(m)
    BY <1>7, <1>11
  <2>2. St(m).in = "body"
    BY <1>3, <1>5, <1>6, <1>11
  <2>3. /\ c <= Cardinality(ends)
        /\ \A j \in ends : Count(ends, j) = c =>
             St(j).in = "between" /\ \A k \in m .. j - 1 : St(k).in = "body"
    <3>1. m \in 0 .. L
      BY <1>6
    <3> QED BY <1>6, <2>1, <2>2, <3>1, BodiesEnd
  <2>4. a.heredocs = c /\ Cardinality(ends) \in Nat
    <3>1. Cardinality(ends) \in Nat
      BY <1>6, <2>1, EndsCounted
    <3> QED BY <1>5, <1>7, <2>3, <3>1
  <2>5. PICK e : e = a.end
    OBVIOUS
  <2>6. e \in ends /\ Count(ends, e) = c /\ e \in m .. L
    BY <1>7, <1>11, <2>1, <2>4, <2>5
  <2>7. St(e).in = "between" /\ \A k \in m .. e - 1 : St(k).in = "body"
    BY <2>3, <2>6
  <2>8. e \in i .. L
    BY <1>6, <2>6
  <2>9. ASSUME NEW j \in i .. e
        PROVE  (T!Read(j) <=> j \in T!Parts[i]) /\ (j \in i + 1 .. e => ~T!Begins(j))
    <3>1. CASE j \in i .. m
      <4>1. j \in i + 1 .. e => j \in i + 1 .. m
        BY <3>1
      <4> QED BY <1>8, <3>1, <4>1
    <3>2. CASE j \notin i .. m
      <4>1. j - 1 \in m .. e - 1 /\ ~(j <= m)
        BY <1>6, <2>8, <3>2
      <4>2. St(j - 1).in = "body" /\ j \notin T!Parts[i]
        BY <1>3, <2>7, <4>1
      <4> QED BY <4>2, ReadIs
    <3> QED BY <3>1, <3>2
  <2>10. \A j \in T!Parts[i] : j \in i .. e /\ Said(j)
    <3> SUFFICES ASSUME NEW j \in T!Parts[i] PROVE j \in i .. e /\ Said(j)
      OBVIOUS
    <3>1. j \in i .. L /\ j <= m /\ Said(j)
      BY <1>3, <1>4
    <3> QED BY <1>6, <2>6, <3>1
  <2>11. \A j \in i + 1 .. e : j \in i .. e
    OBVIOUS
  <2>12. EndsAt(i, e)
    BY <2>7, <2>8, <2>9, <2>10, <2>11 DEF EndsAt
  <2> QED BY <1>5, <2>4, <2>5, <2>12 DEF a
<1> QED BY <1>9, <1>10, <1>11

\* Lines that belong to no instruction, and the one that begins at a line.
Skips(i) == i \notin T!Body \/ T!IsComment(text[i]) \/ text[i].says = "blank"
Logical(i) ==
  [start |-> i, end |-> T!Absorbed(i).end,
   parts |-> {j \in T!Parts[i] : text[j].says # "blank"}, heredocs |-> T!Absorbed(i).heredocs]

\* The instructions from a line on: none after the last, else those after the lines of the next.
LEMMA FromAre ==
  ASSUME Len(text) \in Nat, NEW i \in Nat
  PROVE  T!From[i] = IF i > Len(text) THEN {}
                     ELSE IF Skips(i) THEN T!From[i + 1]
                     ELSE {Logical(i)} \cup T!From[T!Absorbed(i).end + 1]
<1> DEFINE L == Len(text)
           Its(g, k) == IF k > L THEN {}
                        ELSE IF Skips(k) THEN g[k + 1]
                        ELSE {Logical(k)} \cup g[T!Absorbed(k).end + 1]
           Is(g) == g = [k \in Nat |-> Its(g, k)]
           Ends(g, n) == /\ g = [k \in Nat |-> g[k]]
                         /\ \A k \in Nat : k > L - n => g[k] = Its(g, k)
           Without == {n \in 0 .. L + 1 : ~\E g : Ends(g, n)}
           it == CHOOSE g : Is(g)
<1>1. T!From = it
  BY DEF T!From, Skips, Logical
<1>2. \E g : Ends(g, 0)
  <2>1. PICK g : g = [k \in Nat |-> {}]
    OBVIOUS
  <2>2. \A k \in Nat : k > L - 0 => Its(g, k) = {}
    OBVIOUS
  <2>3. g = [k \in Nat |-> g[k]] /\ \A k \in Nat : g[k] = {}
    BY <2>1
  <2>4. Ends(g, 0)
    <3> HIDE DEF Its
    <3> QED BY <2>2, <2>3
  <2> QED BY <2>4, Zenon
<1>3. ASSUME NEW n \in 0 .. L, NEW f, Ends(f, n)
      PROVE  \E g : Ends(g, n + 1)
  <2> DEFINE a == L - n
  <2>0. a \in 0 .. L /\ a \in Nat
    OBVIOUS
  <2>1. PICK v : v = Its(f, a)
    OBVIOUS
  <2>2. PICK g : g = [k \in Nat |-> IF k = a THEN v ELSE f[k]]
    OBVIOUS
  <2>3. g = [k \in Nat |-> g[k]]
    BY <2>2
  <2>4. ASSUME NEW k \in Nat, k >= a PROVE Its(g, k) = Its(f, k)
    <3>1. g[k + 1] = f[k + 1]
      BY <2>0, <2>2, <2>4
    <3>2. ASSUME ~Skips(k) PROVE g[T!Absorbed(k).end + 1] = f[T!Absorbed(k).end + 1]
      <4>1. k \in 1 .. L
        BY <3>2 DEF Skips, T!Body, T!Indices
      <4>2. PICK e : e = T!Absorbed(k).end
        OBVIOUS
      <4>3. e \in k .. L
        <5>1. PICK m, last : last \in k .. L /\ e \in last .. L
          <6> HIDE DEF L
          <6>1. Len(text) = L
            BY DEF L
          <6> QED BY <4>1, <4>2, <6>1, AbsorbedIs
        <5> QED BY <5>1
      <4>4. e + 1 \in Nat /\ e + 1 # a
        BY <2>0, <2>4, <4>3
      <4> QED BY <2>2, <4>2, <4>4
    <3> QED BY <3>1, <3>2
  <2>5. ASSUME NEW k \in Nat, k > L - (n + 1) PROVE g[k] = Its(g, k)
    <3>1. k >= a
      BY <2>0, <2>5
    <3>2. CASE k = a
      <4> HIDE DEF Its
      <4> QED BY <2>0, <2>1, <2>2, <2>4, <3>1, <3>2
    <3>3. CASE k # a
      <4>1. k > L - n /\ g[k] = f[k]
        BY <2>0, <2>2, <3>1, <3>3
      <4>2. f[k] = Its(f, k)
        <5> HIDE DEF Its
        <5> QED BY <1>3, <4>1
      <4> HIDE DEF Its
      <4> QED BY <2>4, <3>1, <4>1, <4>2
    <3> QED BY <3>2, <3>3
  <2>6. Ends(g, n + 1)
    <3> HIDE DEF Its
    <3> QED BY <2>3, <2>5
  <2> QED BY <2>6, Zenon
<1>4. Without = {}
  <2> SUFFICES ASSUME Without # {} PROVE FALSE
    OBVIOUS
  <2>1. PICK n \in Without : \A k \in Without : n <= k
    <3>1. Without \subseteq Nat
      OBVIOUS
    <3> HIDE DEF Without
    <3> QED BY <3>1, LeastNumber
  <2>2. n \in 0 .. L + 1 /\ ~\E g : Ends(g, n)
    OBVIOUS
  <2>3. n # 0
    BY <1>2, <2>2, Zenon
  <2>4. n - 1 \in 0 .. L /\ n - 1 \in 0 .. L + 1 /\ (n - 1) + 1 = n /\ ~(n <= n - 1)
    BY <2>2, <2>3
  <2>5. n - 1 \notin Without
    <3> HIDE DEF Without
    <3> QED BY <2>1, <2>4
  <2>6. \E g : Ends(g, n - 1)
    BY <2>4, <2>5, Zenon
  <2> HIDE DEF Ends
  <2>7. \E g : Ends(g, (n - 1) + 1)
    BY <1>3, <2>4, <2>6, Zenon
  <2> QED BY <2>2, <2>4, <2>7
<1>5. \E g : Is(g)
  <2>1. L + 1 \in 0 .. L + 1
    OBVIOUS
  <2>2. PICK g : Ends(g, L + 1)
    BY <1>4, <2>1, Zenon
  <2>3. \A k \in Nat : g[k] = Its(g, k)
    <3>1. \A k \in Nat : k > L - (L + 1)
      OBVIOUS
    <3> HIDE DEF Its
    <3> QED BY <2>2, <3>1
  <2>4. Is(g)
    <3> HIDE DEF Its
    <3> QED BY <2>2, <2>3
  <2> QED BY <2>4, Zenon
<1>6. Is(it)
  <2> HIDE DEF Is
  <2> QED BY <1>5, Zenon
<1> HIDE DEF it
<1>7. it[i] = Its(it, i)
  <2> HIDE DEF Its
  <2> QED BY <1>6, Zenon
<1> QED BY <1>1, <1>7

-----------------------------------------------------------------------------
\* Its lines are those that Docker reads for it.
LEMMA PartsAreDockers ==
  ASSUME Len(text) \in Nat, NEW i \in 1 .. Len(text), NEW e, EndsAt(i, e)
  PROVE  T!DockerParts(i) = T!Parts[i]
<1> DEFINE L == Len(text)
           theirs == {j \in 1 .. L : j >= i /\ T!Read(j) /\ \A k \in i + 1 .. j : ~T!Begins(k)}
<1>1. T!DockerParts(i) = theirs
  BY DEF T!DockerParts, T!Indices
<1>2. /\ e \in i .. L /\ (St(e).in = "between" \/ e = L)
      /\ \A j \in T!Parts[i] : j \in i .. e
      /\ \A j \in i .. e : T!Read(j) <=> j \in T!Parts[i]
      /\ \A j \in i + 1 .. e : ~T!Begins(j)
  BY DEF EndsAt
<1>3. ASSUME NEW j \in T!Parts[i] PROVE j \in theirs
  <2>1. j \in i .. e /\ T!Read(j)
    BY <1>2
  <2>2. j \in 1 .. L /\ j >= i /\ \A k \in i + 1 .. j : k \in i + 1 .. e
    BY <1>2, <2>1
  <2> QED BY <1>2, <2>1, <2>2
<1>4. ASSUME NEW j \in theirs PROVE j \in T!Parts[i]
  <2>1. j \in 1 .. L /\ j >= i /\ T!Read(j) /\ \A k \in i + 1 .. j : ~T!Begins(k)
    OBVIOUS
  <2>2. CASE j <= e
    <3>1. j \in i .. e
      BY <1>2, <2>1, <2>2
    <3> QED BY <1>2, <2>1, <3>1
  <2>3. CASE ~(j <= e)
    <3>1. e \in Nat /\ j - 1 \in Nat /\ e <= j - 1 /\ e # L
      BY <1>2, <2>1, <2>3
    <3> DEFINE Bad == {k \in e + 1 .. j : T!Read(k)}
    <3>2. PICK k \in Bad : \A q \in Bad : k <= q
      <4>1. Bad \subseteq Nat /\ Bad # {}
        BY <2>1, <2>3, <3>1
      <4> HIDE DEF Bad
      <4> QED BY <4>1, LeastNumber
    <3>3. k \in e + 1 .. j /\ T!Read(k) /\ k - 1 \in Nat /\ e <= k - 1
      BY <3>1
    <3>4. ASSUME NEW q \in e + 1 .. k - 1 PROVE ~T!Read(q)
      <4>1. q \in e + 1 .. j /\ ~(k <= q)
        BY <3>1, <3>3
      <4>2. q \notin Bad
        <5> HIDE DEF Bad
        <5> QED BY <3>2, <4>1
      <4> QED BY <4>1, <4>2
    <3>5. St(k - 1).in = "between"
      <4> DEFINE Moved == {q \in e .. k - 1 : St(q).in # "between"}
      <4> SUFFICES ASSUME Moved # {} PROVE FALSE
        BY <3>1, <3>3
      <4>1. PICK q \in Moved : \A r \in Moved : q <= r
        <5>1. Moved \subseteq Nat
          BY <3>1
        <5> HIDE DEF Moved
        <5> QED BY <5>1, LeastNumber
      <4>2. q \in e .. k - 1 /\ St(q).in # "between"
        OBVIOUS
      <4>3. q # e
        BY <1>2, <3>1, <4>2
      <4>4. /\ q \in e + 1 .. k - 1 /\ q \in Nat /\ q # 0 /\ q - 1 \in Nat /\ q - 1 \in e .. k - 1
            /\ ~(q <= q - 1)
        BY <3>1, <3>3, <4>2, <4>3
      <4>5. q - 1 \notin Moved
        <5> HIDE DEF Moved
        <5> QED BY <4>1, <4>4
      <4>6. St(q - 1).in = "between" /\ St(q - 1) \in State
        BY <4>4, <4>5, StatesTyped
      <4>7. ~Said(q)
        BY <3>4, <4>4, <4>6, ReadIs
      <4>8. St(q) = St(q - 1)
        BY <4>4, <4>6, <4>7, ReadsIs DEF State
      <4> QED BY <4>2, <4>6, <4>8
    <3>6. T!Begins(k)
      BY <3>3, <3>5, ReadIs
    <3>7. k \in i + 1 .. j
      BY <1>2, <3>3
    <3> QED BY <2>1, <3>6, <3>7
  <2> QED BY <2>2, <2>3
<1> QED BY <1>1, <1>3, <1>4

\* What the reading makes of the lines from i on, against Docker's instructions among them.
Faithful(i) ==
  /\ \A l \in T!From[i] : \E j \in 1 .. Len(text) :
       /\ T!Begins(j) /\ l.parts = T!DockerParts(j)
       /\ l.heredocs = 0 <=> \A k \in l.parts : ~text[k].heredoc
       /\ l.heredocs \in Nat
  /\ \A j \in i .. Len(text) : T!Begins(j) => \E l \in T!From[i] : l.parts = T!DockerParts(j)

LEMMA FaithfulFrom ==
  ASSUME Len(text) \in Nat, ~T!BlankInside, St(Len(text)).open = 0
  PROVE  Faithful(1)
<1> DEFINE L == Len(text)
           Holds(i) == (i = L + 1 \/ St(i - 1).in = "between") => Faithful(i)
           Bad == {n \in 0 .. L : ~Holds(L + 1 - n)}
<1>1. Faithful(L + 1)
  <2>1. T!From[L + 1] = {}
    <3>1. L + 1 \in Nat /\ L + 1 > Len(text)
      OBVIOUS
    <3> QED BY <3>1, FromAre
  <2>2. L + 1 .. L = {}
    OBVIOUS
  <2> QED BY <2>1, <2>2 DEF Faithful
<1>2. ASSUME NEW i \in 1 .. L, St(i - 1).in = "between", \A j \in i + 1 .. L + 1 : Holds(j)
      PROVE  Faithful(i)
  <2>0. i \in Nat /\ i - 1 \in Nat /\ i # 0 /\ ~(i > L) /\ i + 1 \in i + 1 .. L + 1 /\ i \in i .. L
    OBVIOUS
  <2>1. T!Begins(i) <=> Said(i)
    BY <1>2, ReadIs
  <2>2. Skips(i) <=> ~Said(i)
    <3>1. i \notin T!Body => T!IsComment(text[i])
      <4>1. i \in 1 .. i
        OBVIOUS
      <4> QED BY <4>1 DEF T!Body, T!Directives, T!Indices, T!IsComment
    <3> QED BY <3>1 DEF Skips, Said
  <2>3. CASE ~Said(i)
    <3>1. T!From[i] = T!From[i + 1]
      BY <2>0, <2>2, <2>3, FromAre
    <3>2. St(i) = St(i - 1)
      <4>1. St(i - 1) \in State
        BY <2>0, StatesTyped
      <4> QED BY <1>2, <2>0, <2>3, <4>1, ReadsIs DEF State
    <3>3. Faithful(i + 1)
      <4>1. (i + 1) - 1 = i
        BY <2>0
      <4> QED BY <1>2, <2>0, <3>2, <4>1
    <3>4. \A j \in i .. L : T!Begins(j) => j \in i + 1 .. L
      BY <2>1, <2>3
    <3> QED BY <3>1, <3>3, <3>4 DEF Faithful
  <2>4. CASE Said(i)
    <3> DEFINE a == T!Absorbed(i)
    <3>1. EndsAt(i, a.end) /\ a.heredocs = Cardinality(Heredocs(i)) /\ a.heredocs \in Nat
      BY <2>1, <2>4, InstructionEnds
    <3>2. T!DockerParts(i) = T!Parts[i]
      <4> HIDE DEF a
      <4> QED BY <3>1, PartsAreDockers
    <3>3. T!From[i] = {Logical(i)} \cup T!From[a.end + 1]
      BY <2>0, <2>2, <2>4, FromAre
    <3>4. Logical(i).parts = T!Parts[i] /\ Logical(i).heredocs = a.heredocs
      <4>1. \A j \in T!Parts[i] : text[j].says # "blank"
        BY <3>1 DEF EndsAt, Said
      <4> QED BY <4>1 DEF Logical
    <3>5. a.heredocs = 0 <=> \A k \in T!Parts[i] : ~text[k].heredoc
      <4>1. Heredocs(i) \in SUBSET (1 .. L)
        BY PartsWithin DEF Heredocs
      <4>2. IsFiniteSet(Heredocs(i))
        <5>1. L \in Nat
          OBVIOUS
        <5> QED BY <4>1, <5>1, CountStep
      <4>3. Cardinality(Heredocs(i)) = 0 <=> Heredocs(i) = {}
        BY <4>2, FS_EmptySet
      <4>4. Heredocs(i) = {} <=> \A k \in T!Parts[i] : ~text[k].heredoc
        BY DEF Heredocs
      <4> HIDE DEF a
      <4> QED BY <3>1, <4>3, <4>4
    <3>6. PICK e : e = a.end
      OBVIOUS
    <3>7. e \in i .. L /\ (St(e).in = "between" \/ e = L) /\ \A j \in i + 1 .. e : ~T!Begins(j)
      BY <3>1, <3>6 DEF EndsAt
    <3>8. Faithful(e + 1)
      <4>1. (e + 1) - 1 = e /\ e + 1 \in i + 1 .. L + 1
        BY <3>7
      <4>2. CASE e = L
        BY <1>1, <4>2
      <4>3. CASE e # L
        BY <1>2, <3>7, <4>1, <4>3
      <4> QED BY <4>2, <4>3
    <3>9. \A j \in i .. L : T!Begins(j) => j = i \/ j \in e + 1 .. L
      <4> SUFFICES ASSUME NEW j \in i .. L, T!Begins(j), j # i PROVE j \in e + 1 .. L
        OBVIOUS
      <4>1. j \notin i + 1 .. e
        BY <3>7
      <4> QED BY <3>7, <4>1
    <3> HIDE DEF a
    <3>10. ASSUME NEW l \in T!From[i]
           PROVE  \E j \in 1 .. L : /\ T!Begins(j) /\ l.parts = T!DockerParts(j)
                                    /\ l.heredocs = 0 <=> \A k \in l.parts : ~text[k].heredoc
                                    /\ l.heredocs \in Nat
      <4>1. CASE l = Logical(i)
        <5>1. T!Begins(i) /\ l.parts = T!DockerParts(i) /\ l.heredocs \in Nat
          BY <2>1, <2>4, <3>1, <3>2, <3>4, <4>1
        <5>2. l.heredocs = 0 <=> \A k \in l.parts : ~text[k].heredoc
          BY <3>4, <3>5, <4>1
        <5> QED BY <5>1, <5>2
      <4>2. CASE l # Logical(i)
        <5>1. l \in T!From[e + 1]
          BY <3>3, <3>6, <4>2
        <5> QED BY <3>8, <5>1, Zenon DEF Faithful
      <4> QED BY <4>1, <4>2
    <3>11. ASSUME NEW j \in i .. L, T!Begins(j) PROVE \E l \in T!From[i] : l.parts = T!DockerParts(j)
      <4>1. CASE j = i
        <5>1. Logical(i) \in T!From[i] /\ Logical(i).parts = T!DockerParts(j)
          BY <3>2, <3>3, <3>4, <4>1
        <5> QED BY <5>1
      <4>2. CASE j # i
        <5>1. \E l \in T!From[e + 1] : l.parts = T!DockerParts(j)
          BY <3>8, <3>9, <3>11, <4>2, Zenon DEF Faithful
        <5> QED BY <3>3, <3>6, <5>1
      <4> QED BY <4>1, <4>2
    <3> HIDE DEF L
    <3>12. L = Len(text)
      BY DEF L
    <3> QED BY <3>10, <3>11, <3>12 DEF Faithful
  <2> QED BY <2>3, <2>4
<1>3. Bad = {}
  <2> SUFFICES ASSUME Bad # {} PROVE FALSE
    OBVIOUS
  <2>1. PICK n \in Bad : \A k \in Bad : n <= k
    <3>1. Bad \subseteq Nat
      OBVIOUS
    <3> HIDE DEF Bad
    <3> QED BY <3>1, LeastNumber
  <2>2. n \in 0 .. L /\ ~Holds(L + 1 - n)
    OBVIOUS
  <2>3. ASSUME NEW m \in (L + 1 - n) + 1 .. L + 1 PROVE Holds(m)
    <3>1. L + 1 - m \in 0 .. L /\ ~(n <= L + 1 - m) /\ L + 1 - (L + 1 - m) = m
      BY <2>2
    <3>2. L + 1 - m \notin Bad
      <4> HIDE DEF Bad
      <4> QED BY <2>1, <3>1
    <3> HIDE DEF Holds
    <3> QED BY <3>1, <3>2
  <2>4. PICK i : i = L + 1 - n
    OBVIOUS
  <2>5. ~Holds(i) /\ i \in 1 .. L + 1
    BY <2>2, <2>4
  <2>6. i # L + 1 /\ St(i - 1).in = "between" /\ ~Faithful(i)
    BY <1>1, <2>5
  <2>7. i \in 1 .. L
    BY <2>5, <2>6
  <2>8. \A j \in i + 1 .. L + 1 : Holds(j)
    <3> HIDE DEF Holds
    <3> QED BY <2>3, <2>4
  <2> HIDE DEF Holds
  <2> QED BY <1>2, <2>6, <2>7, <2>8
<1>4. Holds(1)
  <2>1. L \in 0 .. L /\ L + 1 - L = 1
    OBVIOUS
  <2> HIDE DEF Holds
  <2> QED BY <1>3, <2>1
<1>5. St(1 - 1).in = "between"
  <2>1. St(0) = T!Between
    BY StatesAre DEF St
  <2> QED BY <2>1 DEF T!Between
<1> QED BY <1>4, <1>5

\* The reading is Docker's, for every text whose heredocs end and that has no blank line
\* inside an instruction.
LEMMA ReadsAsDocker ==
  ASSUME Len(text) \in Nat
  PROVE  T!ReadAsDocker
<1> SUFFICES ASSUME T!HeredocsEnd, ~T!BlankInside
             PROVE  /\ T!Joined
                    /\ T!BuildKitOnly # {} <=>
                         \E p \in T!DockerInstructions : \E i \in p : text[i].heredoc \/ text[i].flag
                    /\ T!CopySources # {} <=>
                         \E p \in T!DockerInstructions :
                           (\A i \in p : ~text[i].heredoc) /\ \E i \in p : text[i].copies = "context"
  BY DEF T!ReadAsDocker
<1>1. Faithful(1)
  BY FaithfulFrom DEF T!HeredocsEnd, St
<1>2. T!DockerInstructions = {T!DockerParts(j) : j \in {k \in 1 .. Len(text) : T!Begins(k)}}
  BY DEF T!DockerInstructions, T!Indices
<1>3. ASSUME NEW l \in T!LogicalLines
      PROVE  /\ l.parts \in T!DockerInstructions /\ l.heredocs \in Nat
             /\ l.heredocs = 0 <=> \A k \in l.parts : ~text[k].heredoc
  BY <1>1, <1>2 DEF Faithful, T!LogicalLines
<1>4. ASSUME NEW p \in T!DockerInstructions
      PROVE  \E l \in T!LogicalLines : l.parts = p
  BY <1>1, <1>2 DEF Faithful, T!LogicalLines
<1>5. T!Joined
  BY <1>3, <1>4 DEF T!Joined
<1>6. T!BuildKitOnly # {} <=>
        \E p \in T!DockerInstructions : \E i \in p : text[i].heredoc \/ text[i].flag
  <2>1. ASSUME NEW l \in T!LogicalLines
        PROVE  l.heredocs > 0 <=> \E k \in l.parts : text[k].heredoc
    BY <1>3
  <2>2. ASSUME NEW l \in T!BuildKitOnly
        PROVE  \E p \in T!DockerInstructions : \E i \in p : text[i].heredoc \/ text[i].flag
    BY <1>3, <2>1 DEF T!BuildKitOnly
  <2>3. ASSUME NEW p \in T!DockerInstructions, \E i \in p : text[i].heredoc \/ text[i].flag
        PROVE  T!BuildKitOnly # {}
    <3>1. PICK l \in T!LogicalLines : l.parts = p
      BY <1>4
    <3>2. l \in T!BuildKitOnly
      BY <2>1, <2>3, <3>1 DEF T!BuildKitOnly
    <3> QED BY <3>2
  <2> QED BY <2>2, <2>3
<1>7. T!CopySources # {} <=>
        \E p \in T!DockerInstructions :
          (\A i \in p : ~text[i].heredoc) /\ \E i \in p : text[i].copies = "context"
  <2>1. ASSUME NEW l \in T!CopySources
        PROVE  \E p \in T!DockerInstructions :
                 (\A i \in p : ~text[i].heredoc) /\ \E i \in p : text[i].copies = "context"
    BY <1>3 DEF T!CopySources
  <2>2. ASSUME NEW p \in T!DockerInstructions,
               \A i \in p : ~text[i].heredoc, \E i \in p : text[i].copies = "context"
        PROVE  T!CopySources # {}
    <3>1. PICK l \in T!LogicalLines : l.parts = p
      BY <1>4
    <3>2. l \in T!CopySources
      BY <1>3, <2>2, <3>1 DEF T!CopySources
    <3> QED BY <3>2
  <2> QED BY <2>1, <2>2
<1> QED BY <1>5, <1>6, <1>7

-----------------------------------------------------------------------------
(* What the run session checks of both.                                    *)

\* An image runs as the user that its definition names last, and as its base's if it names
\* none, whatever the base's stages are called and built from; its project is where the
\* services of any order of its plugins look for it, and belongs to the image's user; and the
\* instructions of a Dockerfile, of any length and with heredocs that end, comments and
\* continuations in any order, are those that Docker reads (builder.py, to_spec;
\* plugins/base.py; utils/dockerfile.py, logical_lines).
THEOREM ImageAsDefinedHolds == Spec => []ImageAsDefined
<1> DEFINE Typed == text \in Seq(Lines)
<1>1. Init => ImageInv /\ UserInv /\ PlaceInv /\ Typed
  BY ImageStart, UserStarts DEF Init, I!Init, T!Init, PlaceInv
<1>2. ImageInv /\ UserInv /\ PlaceInv /\ [Next]_vars => ImageInv' /\ UserInv' /\ PlaceInv'
  <2> SUFFICES ASSUME ImageInv, UserInv, PlaceInv, [Next]_vars
               PROVE  ImageInv' /\ UserInv' /\ PlaceInv'
    OBVIOUS
  <2>1. [I!Next]_iVars
    BY SideBySide
  <2>2. ImageTyping /\ (phase = "new" => plugins = <<>>)
    BY DEF ImageInv
  <2> QED BY <2>1, <2>2, ImageStep, UserStep, PlaceStep
<1>3. Typed /\ [Next]_vars => Typed'
  BY SideBySide DEF T!Next, T!Write
<1>4. ImageInv /\ UserInv /\ PlaceInv /\ Typed => ImageAsDefined
  <2> SUFFICES ASSUME ImageInv, UserInv, PlaceInv, Typed PROVE ImageAsDefined
    OBVIOUS
  <2>1. Len(text) \in Nat
    OBVIOUS
  <2>2. ImageTyping
    BY DEF ImageInv
  <2> QED BY <2>1, <2>2, EndsAsItIsNamed, ProjectIsUsable, ReadsAsDocker DEF ImageAsDefined
<1> QED BY <1>1, <1>2, <1>3, <1>4, PTL DEF Spec
=============================================================================
