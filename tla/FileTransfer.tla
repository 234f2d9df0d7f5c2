---------------------------- MODULE FileTransfer ----------------------------
(***************************************************************************)
(* One file of a sandbox: uploads and downloads in chunks by clients       *)
(* (operations/files.py), the forwarded request that carries a chunk, the  *)
(* tools that answer it (tool_service.py, file_manager.py), and the other  *)
(* tools and commands that change the file meanwhile.                      *)
(*                                                                         *)
(* A byte is named for the transfer that wrote it and its place; a request *)
(* that is on its way may arrive at any time, also when its client has     *)
(* given it up.  The tools answer one request at a time, in their event    *)
(* loop; the commands they started are processes and run beside it.        *)
(***************************************************************************)
EXTENDS Integers, Sequences, FiniteSets, SequencesExt

CONSTANTS
  Uploader, Downloader,
  Total,      \* the bytes that are to be uploaded, measured before
  ChunkBytes,
  FirstSize,  \* the size of the file in the beginning, -1 if there is none
  MaxFaults,  \* bound: answers that come too late
  MaxWrites   \* bound: other changes of the file, and of a source

FileTransferAssumption ==
  /\ Total \in Nat /\ ChunkBytes \in Nat \ {0} /\ FirstSize \in Int /\ FirstSize >= -1
  /\ MaxFaults \in Nat /\ MaxWrites \in Nat /\ Uploader \cap Downloader = {}

VARIABLES
  file,      \* the content, or NoFile
  source,    \* what is left of each uploader's source
  xfer,      \* each transfer
  wire,      \* the requests on their way
  look,      \* the download whose file the tools have measured, not yet read
  held,      \* history: what the file has held since each download began
  torn,      \* history: downloads with bytes that were written anew meanwhile
  writes,    \* other changes so far
  faults

vars == <<file, source, xfer, wire, look, held, torn, writes, faults>>

NoFile == <<[by |-> "nobody", at |-> 0]>>
Old(n) == [i \in 1 .. n |-> [by |-> "old", at |-> i]]
Zero == [by |-> "hole", at |-> 0]

Transfer == Uploader \cup Downloader
Data(u) == [i \in 1 .. source[u] |-> [by |-> u, at |-> i]]
\* A slice, from an offset, of at most so many bytes.
Slice(bytes, offset, length) ==
  SubSeq(bytes, offset + 1, IF offset + length < Len(bytes) THEN offset + length ELSE Len(bytes))

Idle == [pc |-> "new", offset |-> 0, got |-> <<>>, answer |-> <<>>, size |-> 0, try |-> 0]
Fault == faults < MaxFaults /\ faults' = faults + 1

-----------------------------------------------------------------------------
(* The client.                                                             *)

Request(t) ==
  [by |-> t, try |-> xfer[t].try, offset |-> xfer[t].offset,
   data |-> IF t \in Uploader THEN Slice(Data(t), xfer[t].offset, ChunkBytes) ELSE <<>>]

\* _upload_stream, _download_chunks: the next chunk goes out.
Send(t) ==
  /\ xfer[t].pc \in {"new", "ready"}
  /\ wire' = wire \cup {Request(t)}
  /\ xfer' = [xfer EXCEPT ![t].pc = "waiting"]
  /\ held' = IF xfer[t].pc = "ready" \/ t \in Uploader THEN held ELSE [held EXCEPT ![t] = {file}]
  /\ UNCHANGED <<file, source, look, torn, writes, faults>>

\* Mutant: only the bytes written tell when an upload is over.
UploadedSpins(t) ==
  LET x == xfer[t] now == x.offset + Len(x.answer)
  IN  [x EXCEPT !.offset = now, !.pc = IF now >= Total THEN "succeeded" ELSE "ready"]
Uploaded(t) ==
  LET x == xfer[t] now == x.offset + Len(x.answer)
  IN  [x EXCEPT !.offset = now,
                !.pc = IF now >= Total THEN "succeeded"
                       ELSE IF x.answer = <<>> THEN "failed" ELSE "ready"]

\* Mutant: the end of the file is the end of the download.
DownloadedAnyhow(t) ==
  LET x == xfer[t] now == x.offset + Len(x.answer)
  IN  [x EXCEPT !.offset = now, !.got = @ \o x.answer,
                !.pc = IF now >= x.size \/ x.answer = <<>> THEN "succeeded" ELSE "ready"]
Downloaded(t) ==
  LET x == xfer[t] now == x.offset + Len(x.answer)
  IN  [x EXCEPT !.offset = now, !.got = @ \o x.answer,
                !.pc = IF ~(now >= x.size \/ x.answer = <<>>) THEN "ready"
                       ELSE IF now # x.size THEN "failed" ELSE "succeeded"]

Receive(t) ==
  /\ xfer[t].pc = "answered"
  /\ xfer' = [xfer EXCEPT ![t] = IF t \in Uploader THEN Uploaded(t) ELSE Downloaded(t)]
  /\ UNCHANGED <<file, source, wire, look, held, torn, writes, faults>>

\* The operation does not end within the client's time; it goes on.
TimesOut(t) ==
  /\ xfer[t].pc \in {"waiting", "answered"} /\ Fault
  /\ xfer' = [xfer EXCEPT ![t].pc = "failed"]
  /\ UNCHANGED <<file, source, wire, look, held, torn, writes>>

\* The caller starts again.
Again(u) ==
  /\ xfer[u].pc = "failed" /\ source[u] = Total /\ xfer[u].try < faults
  /\ xfer' = [xfer EXCEPT ![u] = [Idle EXCEPT !.try = xfer[u].try + 1]]
  /\ UNCHANGED <<file, source, wire, look, held, torn, writes, faults>>

-----------------------------------------------------------------------------
(* The sandbox.                                                            *)

\* Mutant: a chunk leaves alone what is behind it.
WrittenOver(old, offset, data) ==
  LET padded == old \o [i \in 1 .. IF offset > Len(old) THEN offset - Len(old) ELSE 0 |-> Zero]
  IN  SubSeq(padded, 1, offset) \o data \o SubSeq(padded, offset + Len(data) + 1, Len(padded))
\* write_chunk with truncate, as the client sends it.
Overwritten(old, offset, data) ==
  LET padded == old \o [i \in 1 .. IF offset > Len(old) THEN offset - Len(old) ELSE 0 |-> Zero]
  IN  SubSeq(padded, 1, offset) \o data

Content == IF file = NoFile THEN <<>> ELSE file

\* A download under way, what it has read, and how many bytes it has read or been told of.
Under(d) == xfer[d].pc \in {"ready", "waiting", "answered"}
Known(d) == IF xfer[d].pc = "answered" THEN xfer[d].got \o xfer[d].answer ELSE xfer[d].got
Measured(d) == {l.size : l \in {k \in look : k.req.by = d}}
Expects(d, i) == i <= Len(Known(d)) \/ \E n \in Measured(d) : i <= n
\* The places that a change of the file writes.
Rewritten(new) == {i \in DOMAIN new : i \in DOMAIN file => file[i] # new[i]}
FileBecomes(new) ==
  /\ file' = new
  /\ held' = [d \in Downloader |-> IF Under(d) THEN held[d] \cup {new} ELSE held[d]]
  /\ torn' = torn \cup {d \in Downloader : Under(d) /\ \E i \in Rewritten(new) : Expects(d, i)}

\* Who waits for an answer gets the one to the newest request.
Awaited(m) == xfer[m.by].pc = "waiting" /\ xfer[m.by].offset = m.offset /\ xfer[m.by].try = m.try
ArriveUpload(m) ==
  /\ m.by \in Uploader
  /\ FileBecomes(Overwritten(Content, m.offset, m.data))
  /\ xfer' = IF ~Awaited(m) THEN xfer
             ELSE [xfer EXCEPT ![m.by].pc = "answered", ![m.by].answer = m.data]
  /\ UNCHANGED look

\* The size is taken before the file is opened, and a command may come between.
ArriveDownload(m) ==
  /\ m.by \in Downloader /\ UNCHANGED <<file, held, torn>>
  /\ \/ /\ file # NoFile
        /\ look' = {[req |-> m, size |-> Len(file)]} /\ UNCHANGED xfer
     \/ /\ file = NoFile /\ UNCHANGED look
        /\ xfer' = IF Awaited(m) THEN [xfer EXCEPT ![m.by].pc = "failed"] ELSE xfer
Read(l) ==
  /\ look' = {}
  /\ xfer' = IF ~Awaited(l.req) THEN xfer
             ELSE [xfer EXCEPT ![l.req.by].pc = "answered", ![l.req.by].size = l.size,
                               ![l.req.by].answer = Slice(file, l.req.offset, ChunkBytes)]
  /\ UNCHANGED <<file, wire, held, torn>>

Arrive ==
  /\ \/ look = {} /\ \E m \in wire : (ArriveUpload(m) \/ ArriveDownload(m)) /\ wire' = wire \ {m}
     \/ \E l \in look : Read(l)
  /\ UNCHANGED <<source, writes, faults>>

\* A command cuts the file off, adds to it or overwrites a part; so do, between two
\* requests, create_file, edit_file and patch_file.
Fresh == [by |-> "other", at |-> writes + 1]
Change ==
  /\ writes < MaxWrites /\ writes' = writes + 1 /\ file # NoFile
  /\ \/ \E n \in 0 .. Len(file) - 1 : FileBecomes(SubSeq(file, 1, n))
     \/ FileBecomes(file \o <<Fresh>>) \/ FileBecomes(file \o <<Fresh, Fresh>>)
     \/ \E i \in DOMAIN file : FileBecomes([file EXCEPT ![i] = Fresh])
  /\ UNCHANGED <<source, xfer, wire, look, faults>>

\* Somebody cuts off the local file that is being uploaded.
SourceShrinks(u) ==
  /\ writes < MaxWrites /\ writes' = writes + 1 /\ source[u] > 0
  /\ source' = [source EXCEPT ![u] = @ - 1]
  /\ UNCHANGED <<file, xfer, wire, look, held, torn, faults>>

-----------------------------------------------------------------------------
Init ==
  /\ file = IF FirstSize = -1 THEN NoFile ELSE Old(FirstSize)
  /\ source = [u \in Uploader |-> Total]
  /\ xfer = [t \in Transfer |-> Idle]
  /\ wire = {} /\ look = {} /\ writes = 0 /\ faults = 0
  /\ held = [d \in Downloader |-> {}] /\ torn = {}

Client(t) == Send(t) \/ Receive(t)

Next ==
  \/ \E t \in Transfer : Client(t) \/ TimesOut(t)
  \/ Arrive \/ Change
  \/ \E u \in Uploader : Again(u) \/ SourceShrinks(u)

\* Clients go on, and what is on its way arrives.
Fairness == (\A t \in Transfer : WF_vars(Client(t))) /\ WF_vars(Arrive)

Spec == Init /\ [][Next]_vars
FairSpec == Spec /\ Fairness

-----------------------------------------------------------------------------
TypeOK ==
  /\ source \in [Uploader -> 0 .. Total]
  /\ \A t \in Transfer :
       /\ xfer[t].pc \in {"new", "ready", "waiting", "answered", "succeeded", "failed"}
       /\ xfer[t].offset \in Nat /\ xfer[t].size \in Nat /\ xfer[t].try \in 0 .. MaxFaults
  /\ \A m \in wire : m.by \in Transfer /\ m.offset \in Nat
  /\ \A l \in look : l.req.by \in Downloader /\ l.size \in Nat
  /\ torn \subseteq Downloader
  /\ writes \in 0 .. MaxWrites /\ faults \in 0 .. MaxFaults

Over(t) == xfer[t].pc \in {"succeeded", "failed"}

(* When the only upload has succeeded and nobody else has changed the      *)
(* file, it holds the data and nothing of what was there before; unless an *)
(* answer came too late, so that a chunk of an earlier attempt may still   *)
(* arrive (_upload_stream, FileManager.write_chunk).                       *)
UploadWhole ==
  \A u \in Uploader :
    xfer[u].pc = "succeeded" /\ faults = 0 /\ writes = 0 /\ Uploader = {u} => file = Data(u)

(* A download that succeeds returns what the file held at one moment since *)
(* it began, however often the file was cut off, added to or rewritten     *)
(* meanwhile, also between the look at its size and the read of a chunk;   *)
(* unless a place it had read, or was told of by that size, was written    *)
(* anew, which nothing notices.  What it returns need not be all that an   *)
(* upload is about to write ("never return truncated data",                *)
(* _download_chunks; FileManager.read_chunk).                              *)
DownloadIsVersion ==
  \A d \in Downloader : xfer[d].pc = "succeeded" /\ d \notin torn => xfer[d].got \in held[d]

(* Every transfer whose requests are answered ends, whatever happens to    *)
(* the file and to the source (_upload_stream, _download_chunks).          *)
TransfersEnd == \A t \in Transfer : xfer[t].pc = "waiting" ~> Over(t)

-----------------------------------------------------------------------------
(* What the source says of this code, and the code does not do: "so a      *)
(* re-upload cannot leave the tail of a longer previous file behind"       *)
(* (UploadFileChunkRequest.truncate) and "return the resulting file size"  *)
(* (upload_bytes): after a success, the file is as long as the upload.     *)
SizeIsTheFiles ==
  \A u \in Uploader :
    xfer[u].pc = "succeeded" /\ writes = 0 /\ Uploader = {u} => Len(file) = Total
===============================================================================
