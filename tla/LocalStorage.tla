---------------------------- MODULE LocalStorage ----------------------------
(***************************************************************************)
(* The local object store (platform/storage/local): objects are files, the *)
(* service keeps no state and no lock, so concurrent calls meet in the     *)
(* file system.                                                            *)
(*                                                                         *)
(* A path names a file (an inode); an open file outlives its name.  A call *)
(* opens what it reads, creates or truncates what it writes, moves chunk   *)
(* by chunk and finally looks whether the path still names a file.  Paths  *)
(* are the keys and the parts of one multipart session; a part is written  *)
(* as an object is.  Of the checks on input only the ones that depend on   *)
(* the files are here, and a directory without files is nothing.  Crash    *)
(* ends the process; what was written stays.                               *)
(*                                                                         *)
(* The variables promised, crossed and spoiled are history.  CreateAlways  *)
(* and AtEndOrLimit are slips the code could have made, each right before  *)
(* the definition it distorts; no behaviour of StorageSpec uses one.       *)
(***************************************************************************)
EXTENDS Naturals, Sequences, FiniteSets

CONSTANTS ObjectKeys, PartNumbers,
          StoreCalls,   \* calls of the service, in the order they arrive
          ObjectChunks, \* the chunks of a body
          NoFile

Paths == ObjectKeys \cup PartNumbers
\* A file is known by the call that created it, or by the path it was at first.
Files == Paths \cup StoreCalls

ASSUME LocalStorageAssumption ==
    /\ PartNumbers \subseteq Nat \ {0}  /\ StoreCalls \subseteq Nat
    /\ IsFiniteSet(PartNumbers) /\ IsFiniteSet(StoreCalls)
    /\ ObjectKeys \cap PartNumbers = {}
    /\ Paths \cap StoreCalls = {}
    /\ ObjectChunks \in Nat \ {0}
    /\ NoFile \notin Files

VARIABLES
    named,     \* path -> the file it names
    written,   \* file -> its chunks
    call,      \* call -> what it does, how far it is and what it holds open
    promised,  \* history: key -> content of the write last acknowledged that
               \* no other change of that key has met
    crossed,   \* history: calls that met another change of their key
    spoiled    \* history: files with a cause not to hold one whole body

storageVars == <<named, written, call, promised, crossed, spoiled>>

Hole        == [of |-> NoFile, at |-> 0]
Chunk       == [of: Files, at: 1..ObjectChunks] \cup {Hole}
BodyOf(f)   == [i \in 1..ObjectChunks |-> [of |-> f, at |-> i]]
NotPromised == <<>>

StoreOps == {"upload", "part", "download", "copy", "move", "complete"}
Waiting  == [op |-> "none", at |-> "waiting", from |-> NoFile, to |-> NoFile,
             src |-> NoFile, dst |-> NoFile, readTo |-> 0, wroteTo |-> 0,
             over |-> FALSE]

StorageInit ==
    /\ \E present \in SUBSET Paths :
        /\ named = [p \in Paths |-> IF p \in present THEN p ELSE NoFile]
        /\ promised = [k \in ObjectKeys |->
                         IF k \in present THEN BodyOf(k) ELSE NotPromised]
        /\ written = [f \in Files |-> IF f \in present THEN BodyOf(f) ELSE <<>>]
    /\ call = [c \in StoreCalls |-> Waiting]
    /\ crossed = {}
    /\ spoiled = {}

-----------------------------------------------------------------------------
Arrives(c) == /\ call[c].at = "waiting"
              /\ \A d \in StoreCalls : d < c => call[d].at # "waiting"

Running(c) == call[c].at \notin {"waiting", "ended", "delivered"}

\* Who holds file f open for writing, and who is about to change what path p
\* names.
Writers(f) == {c \in StoreCalls : Running(c) /\ call[c].dst = f}
Changers(p) == {c \in StoreCalls :
                  Running(c) /\ \/ call[c].to = p /\ call[c].dst # NoFile
                                \/ call[c].op = "move" /\ call[c].from = p}

Ends(c) == call' = [call EXCEPT ![c] = [Waiting EXCEPT !.at = "ended"]]

\* A call sets out to change path p: from here on nothing is promised of it, and
\* it has met everyone else who is changing it.
NoLongerPromised(p) ==
    promised' = IF p \in ObjectKeys THEN [promised EXCEPT ![p] = NotPromised]
                                    ELSE promised
Meets(c, p) ==
    LET others == Changers(p) \ {c}
    IN  crossed' = crossed \cup others \cup (IF others = {} THEN {} ELSE {c})

\* Files whose reader has part of an older content already.
HalfRead(f) == {call[c].dst : c \in {d \in StoreCalls :
                                  Running(d) /\ call[d].src = f /\ call[d].readTo > 0}}
               \ {NoFile}

\* The file call c writes to when it creates path p.
FileFor(c, p) == IF named[p] = NoFile THEN c ELSE named[p]

\* os.OpenFile with O_TRUNC, os.Create: an existing file is emptied.
Creates(c, p, over, next) ==
    LET f == FileFor(c, p)
    IN  /\ named' = [named EXCEPT ![p] = f]
        /\ written' = [written EXCEPT ![f] = <<>>]
        /\ call' = [call EXCEPT ![c] = [next EXCEPT !.dst = f, !.at = "transfer"]]
        /\ IF over THEN NoLongerPromised(p) ELSE UNCHANGED promised
        /\ Meets(c, p)
        /\ spoiled' = (IF Writers(f) \ {c} = {} THEN spoiled \ {f}
                                                ELSE spoiled \cup {f})
                      \cup HalfRead(f)

\* O_EXCL: without overwrite only a path that names nothing is taken.
CreateAlways(p, over) == TRUE
MayCreate(p, over) == over \/ named[p] = NoFile

Refused(c) == Ends(c) /\ UNCHANGED <<named, written, promised, crossed, spoiled>>

UploadObject(c, k, over) ==
    /\ Arrives(c)
    /\ IF MayCreate(k, over)
       THEN Creates(c, k, over, [Waiting EXCEPT !.op = "upload", !.to = k])
       ELSE Refused(c)

UploadPart(c, n) ==
    /\ Arrives(c)
    /\ Creates(c, n, TRUE, [Waiting EXCEPT !.op = "part", !.to = n])

\* The target is truncated before the first part is opened.
CompleteUpload(c, k) ==
    /\ Arrives(c)
    /\ Creates(c, k, TRUE, [Waiting EXCEPT !.op = "complete", !.to = k])

\* A download goes to the caller: a file of its own that no path names.
DownloadObject(c, k) ==
    /\ Arrives(c)
    /\ IF named[k] = NoFile
       THEN Refused(c)
       ELSE /\ call' = [call EXCEPT ![c] = [Waiting EXCEPT
                          !.op = "download", !.at = "transfer", !.from = k,
                          !.src = named[k], !.dst = c]]
            /\ UNCHANGED <<named, written, promised, crossed, spoiled>>

\* Copy and Move open the source first.
CopyObject(c, k, target, over, moves) ==
    /\ Arrives(c)
    /\ IF named[k] = NoFile
       THEN Refused(c)
       ELSE /\ call' = [call EXCEPT ![c] = [Waiting EXCEPT
                          !.op = IF moves THEN "move" ELSE "copy", !.at = "target",
                          !.from = k, !.to = target, !.src = named[k], !.over = over]]
            /\ IF moves THEN NoLongerPromised(k) /\ Meets(c, k)
                        ELSE UNCHANGED <<promised, crossed>>
            /\ UNCHANGED <<named, written, spoiled>>

CopyTarget(c) ==
    /\ call[c].at = "target"
    /\ IF MayCreate(call[c].to, call[c].over)
       THEN Creates(c, call[c].to, call[c].over, call[c])
       ELSE Refused(c)

DeleteObject(c, k) ==
    /\ Arrives(c)
    /\ Ends(c)
    /\ named' = [named EXCEPT ![k] = NoFile]
    /\ NoLongerPromised(k)
    /\ crossed' = crossed \cup Changers(k)
    /\ UNCHANGED <<written, spoiled>>

AbortUpload(c) ==
    /\ Arrives(c)
    /\ Ends(c)
    /\ named' = [p \in Paths |-> IF p \in PartNumbers THEN NoFile ELSE named[p]]
    /\ UNCHANGED <<written, promised, crossed, spoiled>>

-----------------------------------------------------------------------------
\* A write at offset n: what was cut off in between reads as a hole.
PutAt(s, n, chunk) ==
    [i \in 1..(IF Len(s) > n THEN Len(s) ELSE n + 1) |->
        IF i = n + 1 THEN chunk ELSE IF i <= Len(s) THEN s[i] ELSE Hole]

\* io.Copy from the caller's body.
WriteChunk(c) ==
    /\ call[c].at = "transfer" /\ call[c].op \in {"upload", "part"}
    /\ call[c].wroteTo < ObjectChunks
    /\ written' = [written EXCEPT ![call[c].dst] =
                     PutAt(@, call[c].wroteTo, BodyOf(c)[call[c].wroteTo + 1])]
    /\ call' = [call EXCEPT ![c].wroteTo = @ + 1]
    /\ spoiled' = spoiled \cup HalfRead(call[c].dst)
    /\ UNCHANGED <<named, promised, crossed>>

\* Reading a file that someone writes, or that has a flaw, passes the flaw on.
ReadSpoils(c) ==
    IF call[c].src \in spoiled \/ Writers(call[c].src) # {} THEN {call[c].dst} ELSE {}

\* io.Copy from a file: one chunk is read and written.
CopyChunk(c) ==
    /\ call[c].at = "transfer" /\ call[c].src # NoFile
    /\ call[c].readTo < Len(written[call[c].src])
    /\ written' = [written EXCEPT ![call[c].dst] =
                     PutAt(@, call[c].wroteTo, written[call[c].src][call[c].readTo + 1])]
    /\ call' = [call EXCEPT ![c].wroteTo = @ + 1, ![c].readTo = @ + 1]
    /\ spoiled' = spoiled \cup ReadSpoils(c) \cup HalfRead(call[c].dst)
    /\ UNCHANGED <<named, promised, crossed>>

\* copyWithLimit lets one byte more than the limit pass so that it can tell a body
\* that is too long from one that fits; without that the rest is cut off.
AtEndOrLimit(c) == call[c].wroteTo >= 1 /\ call[c].op # "complete"
AtEnd(c) == CASE call[c].op \in {"upload", "part"} -> call[c].wroteTo = ObjectChunks
              [] call[c].src # NoFile -> call[c].readTo >= Len(written[call[c].src])
              [] OTHER -> FALSE

\* Complete goes from part to part in their order; one that is missing makes it
\* fail.
NextParts(c) == IF call[c].op # "complete" THEN {}
                ELSE {n \in PartNumbers : call[c].from = NoFile \/ n > call[c].from}
OpenPart(c) ==
    /\ call[c].at = "transfer"
    /\ call[c].src = NoFile \/ AtEnd(c)
    /\ \E n \in NextParts(c) :
        /\ \A i \in NextParts(c) : n <= i
        /\ named[n] # NoFile
        /\ call' = [call EXCEPT ![c].from = n, ![c].src = named[n], ![c].readTo = 0]
    /\ spoiled' = IF call[c].src = NoFile THEN spoiled ELSE spoiled \cup ReadSpoils(c)
    /\ UNCHANGED <<named, written, promised, crossed>>

\* Any error of the transfer or of Sync: what the path names by now is removed.
TransferFails(c) ==
    /\ call[c].at = "transfer"
    /\ Ends(c)
    /\ named' = IF call[c].op = "download" THEN named
                ELSE [named EXCEPT ![call[c].to] = NoFile]
    /\ spoiled' = spoiled \cup {call[c].dst}
    /\ crossed' = crossed \cup (IF call[c].op = "download" THEN {}
                                ELSE Changers(call[c].to) \ {c})
    /\ UNCHANGED <<written, promised>>

\* Sync, then os.Stat of the path: any file there will do.  Complete has removed
\* the session by then.  UploadPart does not look.
Acknowledged(c) == \/ call[c].op \in {"part", "download"}
                   \/ named[call[c].to] # NoFile

FinishObject(c) ==
    /\ call[c].at = "transfer" /\ AtEnd(c) /\ NextParts(c) = {}
    /\ call' = [call EXCEPT ![c] =
         CASE call[c].op = "download" -> [Waiting EXCEPT !.at = "delivered"]
           [] call[c].op = "move" /\ Acknowledged(c) ->
                [@ EXCEPT !.at = "unlink", !.src = NoFile, !.dst = NoFile]
           [] OTHER -> [Waiting EXCEPT !.at = "ended"]]
    /\ named' = IF call[c].op = "complete"
                THEN [p \in Paths |-> IF p \in PartNumbers THEN NoFile ELSE named[p]]
                ELSE named
    /\ promised' = IF /\ c \notin crossed /\ call[c].to \in ObjectKeys
                       /\ call[c].from # call[c].to /\ Acknowledged(c)
                    THEN [promised EXCEPT ![call[c].to] = written[call[c].dst]]
                    ELSE promised
    /\ spoiled' = IF call[c].src = NoFile THEN spoiled ELSE spoiled \cup ReadSpoils(c)
    /\ UNCHANGED <<written, crossed>>

\* Move deletes the source by its name.
MoveUnlinks(c) ==
    /\ call[c].at = "unlink"
    /\ Ends(c)
    /\ named' = [named EXCEPT ![call[c].from] = NoFile]
    /\ crossed' = crossed \cup (Changers(call[c].from) \ {c})
    /\ UNCHANGED <<written, promised, spoiled>>

\* The process dies in the middle of what it was doing.
StorageCrash ==
    /\ \E c \in StoreCalls : Running(c)
    /\ call' = [c \in StoreCalls |-> IF Running(c)
                  THEN [Waiting EXCEPT !.at = "ended"] ELSE call[c]]
    /\ spoiled' = spoiled \cup ({call[c].dst : c \in {d \in StoreCalls : Running(d)}}
                                \ {NoFile})
    /\ UNCHANGED <<named, written, promised, crossed>>

StorageNext ==
    \/ \E c \in StoreCalls :
        \/ \E k \in ObjectKeys :
            \/ \E over \in BOOLEAN : UploadObject(c, k, over)
            \/ \E target \in ObjectKeys, over, moves \in BOOLEAN :
                 CopyObject(c, k, target, over, moves)
            \/ CompleteUpload(c, k) \/ DownloadObject(c, k) \/ DeleteObject(c, k)
        \/ \E n \in PartNumbers : UploadPart(c, n)
        \/ AbortUpload(c)
        \/ CopyTarget(c) \/ WriteChunk(c) \/ CopyChunk(c) \/ OpenPart(c)
        \/ TransferFails(c) \/ FinishObject(c) \/ MoveUnlinks(c)
    \/ StorageCrash

StorageSpec == StorageInit /\ [][StorageNext]_storageVars

-----------------------------------------------------------------------------
StorageTypeOK ==
    /\ named \in [Paths -> Files \cup {NoFile}]
    /\ written \in [Files -> Seq(Chunk)]
    /\ DOMAIN call = StoreCalls
    /\ DOMAIN promised = ObjectKeys
    /\ crossed \subseteq StoreCalls
    /\ spoiled \subseteq Files

\* An object whose write was acknowledged, and met no other change of its key from
\* its start to its answer, stays as it was acknowledged until a call sets out to
\* replace, move or delete that key: neither a refused upload, nor a copy that
\* reads it, nor a multipart session that is written, aborted or completed
\* elsewhere, nor a crash takes it away.  (A retried Complete, a failing overwrite
\* and a Move do set out to change it.)  Two changes of one key that overlap
\* write to the same file, and a failing upload and a Move remove what the path
\* names by then: whichever began first, nothing is promised of either, and the
\* property says that the damage ends at that key.
AcknowledgedObjectKept ==
    \A k \in ObjectKeys : promised[k] # NotPromised =>
        /\ named[k] # NoFile
        /\ written[named[k]] = promised[k]

\* Whole bodies one after the other, each by one writer.
IsWhole(s) ==
    /\ s # <<>> /\ Len(s) % ObjectChunks = 0
    /\ \A i \in 1..Len(s) :
        s[i] = BodyOf(s[i].of)[((i - 1) % ObjectChunks) + 1]
        /\ (i % ObjectChunks # 0 => s[i + 1].of = s[i].of)

\* A file nobody is writing, and every download answered, holds whole bodies
\* unless it met one of the causes: two writers at the same time, a writer
\* while it was read, a writer that failed, a crash, or a source so spoiled.
RestingObjectIsWhole ==
    /\ \A p \in Paths :
        LET f == named[p]
        IN  f # NoFile /\ Writers(f) = {} /\ f \notin spoiled => IsWhole(written[f])
    /\ \A c \in StoreCalls :
        call[c].at = "delivered" /\ c \notin spoiled => IsWhole(written[c])

\* A call that has come to the end of what it reads has written all of it: the
\* target of a copy or move, and a download, is what its source is by now, and a
\* multipart object ends with the part just read.  The same causes excuse it.
EndsWith(t, s) == Len(s) <= Len(t) /\ \A i \in 1..Len(s) : t[Len(t) - Len(s) + i] = s[i]
NothingIsLeftOut ==
    \A c \in StoreCalls :
        /\ call[c].at = "transfer" /\ call[c].src # NoFile /\ AtEnd(c)
        /\ call[c].dst \notin spoiled \cup ReadSpoils(c)
        => /\ EndsWith(written[call[c].dst], written[call[c].src])
           /\ call[c].op # "complete" =>
                 Len(written[call[c].dst]) = Len(written[call[c].src])

TransfersAreFaithful == RestingObjectIsWhole /\ NothingIsLeftOut
=============================================================================
