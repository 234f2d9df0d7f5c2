------------------------------ MODULE Artifacts ------------------------------
(***************************************************************************)
(* What a tool call returns inline, and the store of what does not fit:    *)
(* _bound_result of the OpenHands runtime, the ArtifactStore it saves to,  *)
(* and the downloads of what it saved.  A result is a sequence of blocks   *)
(* of some size and a structured part; bounding one is one step, since it  *)
(* never awaits.  Sizes are counted in units, and whatever stands in for   *)
(* what was spilled (a notice, a link, the stub of a structured part) is   *)
(* of one unit at most.                                                    *)
(***************************************************************************)
EXTENDS Integers, FiniteSets, SequencesExt

CONSTANTS
  Results,       \* what the tools return: content, and the size of the structured part
  Budget,        \* max_output_bytes
  MaxArtifacts, MaxTotal, MaxSingle,
  Reader,
  MaxSaves,      \* bound: artifacts saved
  MaxFaults      \* bound: restarts, and writes that fail

ArtifactsAssumption ==
  /\ {Budget, MaxTotal, MaxSingle, MaxSaves, MaxFaults} \subseteq Nat
  /\ MaxArtifacts \in Nat \ {0}

VARIABLES
  store,   \* entries (oldest first), total and the files in the directory
  saved,   \* how many were saved: the ids are new each time
  reply,   \* the last result: the size of its content and of its structured part, and what
           \* it links to
  up,      \* whether the service runs, prepared
  dl,      \* the downloads
  broken,  \* history: files that a failed write left behind
  faultsA

vars == <<store, saved, reply, up, dl, broken, faultsA>>

NoReply == [inline |-> 0, structured |-> 0, links |-> {}]
NoDownload == [at |-> "idle", id |-> 0]
Capped(size, limit) == IF size < limit THEN size ELSE limit
Ids(es) == {es[i].id : i \in DOMAIN es}
SizeOf(es) == FoldLeft(LAMBDA sum, e : sum + e.size, 0, es)

-----------------------------------------------------------------------------
(* The store.                                                              *)

Fits(es, total) == Len(es) <= MaxArtifacts /\ total <= MaxTotal

\* Mutant: what was saved last may go, too.
DroppedAll(es, total) ==
  LET left(n) == SubSeq(es, n + 1, Len(es))
  IN CHOOSE n \in 0 .. Len(es) :
       /\ Fits(left(n), total - SizeOf(SubSeq(es, 1, n)))
       /\ \A m \in 0 .. n - 1 : ~Fits(left(m), total - SizeOf(SubSeq(es, 1, m)))
\* How many of the oldest go (_evict): until the rest fits, or is one.
Dropped(es, total) ==
  LET left(n) == SubSeq(es, n + 1, Len(es))
      enough(n) == n = Len(es) - 1 \/ Fits(left(n), total - SizeOf(SubSeq(es, 1, n)))
  IN CHOOSE n \in 0 .. Len(es) - 1 : enough(n) /\ \A m \in 0 .. n - 1 : ~enough(m)

\* Mutant: the entries go, and their bytes stay counted.
EvictedCounted(s) ==
  LET n == Dropped(s.entries, s.total)
  IN [s EXCEPT !.entries = SubSeq(@, n + 1, Len(@)),
               !.files = @ \ Ids(SubSeq(s.entries, 1, n))]
Evicted(s) ==
  LET n == Dropped(s.entries, s.total)
  IN [entries |-> SubSeq(s.entries, n + 1, Len(s.entries)),
      total |-> s.total - SizeOf(SubSeq(s.entries, 1, n)),
      files |-> s.files \ Ids(SubSeq(s.entries, 1, n))]

\* The file is written before the entry is made.
Save(s, id, size) ==
  LET kept == Capped(size, MaxSingle)
  IN Evicted([entries |-> Append(s.entries, [id |-> id, size |-> kept]),
              total |-> s.total + kept, files |-> s.files \cup {id}])

-----------------------------------------------------------------------------
(* Bounding a result.  w is the work so far: the store, the ids used, the  *)
(* inline bytes, the links, and which of its writes fails (0: none does).  *)

Spill(w, size) ==
  LET id == w.next
  IN IF w.ok /\ id = w.failing
     THEN [w EXCEPT !.ok = FALSE, !.next = @ + 1, !.store.files = @ \cup {id}]
     ELSE [w EXCEPT !.store = Save(@, id, size), !.next = @ + 1, !.links = @ \cup {id}]

StandIn == 1
\* An image comes in base 64 and is saved as it was.
Decoded(size) == (3 * size) \div 4

\* A block that fits stays; of a text the head that fits, if any does, with a notice; of an
\* image a link.  Neither uses the budget, and links of the tool pass as they are.
BoundBlock(w, b) ==
  IF ~w.ok \/ b.kind = "other" THEN w
  ELSE IF w.used + b.size <= Budget THEN [w EXCEPT !.used = @ + b.size, !.inline = @ + b.size]
  ELSE IF b.kind = "image" THEN [Spill(w, Decoded(b.size)) EXCEPT !.inline = @ + StandIn]
  ELSE [Spill(w, b.size) EXCEPT !.inline = @ + (Budget - w.used) + StandIn, !.used = Budget]

\* The structured part has a budget of its own.
BoundStructured(w, size) ==
  IF ~w.ok \/ size <= Budget THEN [w EXCEPT !.structured = IF w.ok THEN size ELSE 0]
  ELSE [Spill(w, size) EXCEPT !.structured = StandIn]

BoundResult(result, failing) ==
  LET begin == [store |-> store, next |-> saved + 1, used |-> 0, inline |-> 0,
                structured |-> 0, links |-> {}, ok |-> TRUE, failing |-> failing]
  IN BoundStructured(FoldLeft(BoundBlock, begin, result.content), result.structured)

\* A write that fails is the error of the call; what it wrote stays on the disk.
Call(result) ==
  /\ up
  /\ \E failing \in {0} \cup (IF faultsA < MaxFaults THEN saved + 1 .. MaxSaves ELSE {}) :
       LET w == BoundResult(result, failing)
       IN /\ w.next - 1 <= MaxSaves
          /\ failing # 0 => ~w.ok
          /\ store' = w.store /\ saved' = w.next - 1
          /\ reply' = IF w.ok THEN [inline |-> w.inline, structured |-> w.structured,
                                    links |-> w.links] ELSE NoReply
          /\ broken' = IF w.ok THEN broken ELSE broken \cup {failing}
          /\ faultsA' = IF w.ok THEN faultsA ELSE faultsA + 1
  /\ UNCHANGED <<up, dl>>

\* clear, in the reset of the environment; downloads do not hold its lease.
Clear ==
  /\ up
  /\ store' = [entries |-> <<>>, total |-> 0, files |-> store.files \ Ids(store.entries)]
  /\ UNCHANGED <<saved, reply, up, dl, broken, faultsA>>

-----------------------------------------------------------------------------
(* Downloads: the path is looked up, and opened by the response later.     *)

Downloads(r, at, id) == dl' = [dl EXCEPT ![r] = [at |-> at, id |-> id]]

LookUp(r) ==
  /\ up /\ dl[r].at = "idle"
  /\ \E id \in 1 .. saved :
       Downloads(r, IF id \in Ids(store.entries) /\ id \in store.files THEN "found" ELSE "unknown", id)
  /\ UNCHANGED <<store, saved, reply, up, broken, faultsA>>

Open(r) ==
  /\ up /\ dl[r].at = "found"
  /\ Downloads(r, IF dl[r].id \in store.files THEN "open" ELSE "gone", dl[r].id)
  /\ UNCHANGED <<store, saved, reply, up, broken, faultsA>>

\* A file that is open outlives its name.
Deliver(r) ==
  /\ dl[r].at \in {"open", "unknown", "gone"} /\ (dl[r].at = "open" => up)
  /\ dl' = [dl EXCEPT ![r] = NoDownload]
  /\ UNCHANGED <<store, saved, reply, up, broken, faultsA>>

-----------------------------------------------------------------------------
(* The process: it dies with its index, and its files stay (supervisor     *)
(* restarts it); before it serves it removes all files (prepare).          *)

Dies ==
  /\ up /\ faultsA < MaxFaults
  /\ up' = FALSE /\ faultsA' = faultsA + 1
  /\ store' = [store EXCEPT !.entries = <<>>, !.total = 0]
  /\ reply' = NoReply /\ dl' = [r \in Reader |-> NoDownload]
  /\ UNCHANGED <<saved, broken>>

\* Mutant: the files of the process before are left.
PurgedNothing == store
Purged == [entries |-> <<>>, total |-> 0, files |-> {}]

Prepare ==
  /\ ~up /\ up' = TRUE
  /\ store' = Purged /\ broken' = {}
  /\ UNCHANGED <<saved, reply, dl, faultsA>>

Init ==
  /\ store = [entries |-> <<>>, total |-> 0, files |-> {}] /\ saved = 0 /\ reply = NoReply
  /\ up = TRUE /\ dl = [r \in Reader |-> NoDownload] /\ broken = {} /\ faultsA = 0

Next ==
  \/ \E result \in Results : Call(result)
  \/ Clear \/ Dies \/ Prepare
  \/ \E r \in Reader : LookUp(r) \/ Open(r) \/ Deliver(r)

Spec == Init /\ [][Next]_vars

-----------------------------------------------------------------------------
TypeOK ==
  /\ saved \in 0 .. MaxSaves /\ up \in BOOLEAN /\ faultsA \in 0 .. MaxFaults
  /\ store.files \subseteq 1 .. saved /\ Ids(store.entries) \subseteq 1 .. saved
  /\ store.total \in Nat /\ broken \subseteq 1 .. saved
  /\ dl \in [Reader -> [at : {"idle", "found", "unknown", "gone", "open"}, id : 0 .. MaxSaves]]

(* The store knows what it keeps: every entry has its file, every file has *)
(* an entry, but for those of a failed write, the bytes are counted, and   *)
(* the limits hold, but for an artifact that is alone; so a restart leaves *)
(* nothing behind that eviction does not see (_evict, purge_storage).      *)
StoreAccounted ==
  up =>
    /\ Ids(store.entries) \subseteq store.files
    /\ store.files \ Ids(store.entries) \subseteq broken
    /\ store.total = SizeOf(store.entries)
    /\ Len(store.entries) <= 1 \/ Fits(store.entries, store.total)

(* A result is bounded, and what it returns is there to be had: content    *)
(* and structured part keep to the budget, but for what stands in for each *)
(* artifact that was saved, and however many blocks there are; and the     *)
(* last artifact that a result links to is not evicted by the result       *)
(* itself (_bound_result; _evict keeps "the most recently saved            *)
(* artifact").                                                             *)
ReplyBounded ==
  reply' # reply =>
    /\ reply'.inline <= Budget + StandIn * (saved' - saved)
    /\ reply'.structured <= Budget + StandIn * (saved' - saved)
    /\ reply'.links # {} => \E e \in Ids(store'.entries) : \A l \in reply'.links : l <= e

(* Both, after every call, download, failure and restart.                  *)
ArtifactsKept == [][StoreAccounted' /\ ReplyBounded]_vars

-----------------------------------------------------------------------------
(* What the source says of this code, and the code does not do.            *)

(* "Enforce one total response budget across content text, images, and     *)
(* structured data" (_bound_result).                                       *)
OneBudget == reply.inline + reply.structured <= Budget + StandIn * Cardinality(reply.links)

(* What a result has just linked to can be downloaded: a result of several *)
(* large blocks evicts its own first ones.                                 *)
LinksLive == [][reply' # reply => reply'.links \subseteq Ids(store'.entries)]_vars

(* Every file is one that eviction sees: that of a failed write is not.    *)
DiskIsIndex == up => store.files = Ids(store.entries)

(* What was found can be had: an eviction or a reset comes between.        *)
FoundIsServed == \A r \in Reader : dl[r].at # "gone"
=============================================================================
