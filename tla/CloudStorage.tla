---------------------------- MODULE CloudStorage ----------------------------
(***************************************************************************)
(* The object stores of the cloud providers: s3compat (and awss3), aliyun- *)
(* oss and tencentcos.  A bucket keeps the objects (external) and carries  *)
(* out every request at once; the services keep no state.  What they add   *)
(* is how a call becomes requests: one with a condition when it may not    *)
(* overwrite, two for a Move, a list for DeleteBatch.                      *)
(*                                                                         *)
(* An object is known by the call that wrote it, or by its key if it was   *)
(* there at first.  A request that fails may have had its effect, but no   *)
(* effect comes later.  Presigned URLs are used by others and not here.    *)
(*                                                                         *)
(* assured and meddled are history.  Unconditional is a slip the code      *)
(* could have made, right before the definition it distorts.               *)
(***************************************************************************)
EXTENDS Naturals, FiniteSets

CONSTANTS CloudKeys,
          CloudCalls, \* in the order they arrive
          NoObject

ASSUME CloudStorageAssumption ==
    /\ CloudCalls \subseteq Nat
    /\ CloudKeys \cap CloudCalls = {}
    /\ NoObject \notin CloudKeys \cup CloudCalls

VARIABLES
    provider, \* which of the services is configured
    bucket,   \* key -> object
    order,    \* the calls
    session,  \* the multipart sessions that are open, each the call that began
              \* it and its key
    assured,  \* history: key -> the object whose write was last acknowledged,
              \* while no call that may change the key has come since
    meddled   \* history: calls that met one that may change what they wrote

cloudVars == <<provider, bucket, order, session, assured, meddled>>

Providers == {"s3", "oss", "cos"}
Objects   == CloudKeys \cup CloudCalls \cup {NoObject}
OrderOps  == {"none", "upload", "copy", "move", "delete", "begin", "complete", "abort"}
Orders    == [at: {"to come", "first", "second", "answer", "closed"}, op: OrderOps,
              from: Objects, to: CloudKeys \cup {NoObject}, over: BOOLEAN,
              keys: SUBSET CloudKeys, wrote: Objects]
NoOrder   == [at |-> "to come", op |-> "none", from |-> NoObject, to |-> NoObject,
              over |-> FALSE, keys |-> {}, wrote |-> NoObject]

CloudInit ==
    /\ provider \in Providers
    /\ bucket \in {b \in [CloudKeys -> Objects] : \A k \in CloudKeys : b[k] \in {k, NoObject}}
    /\ order = [c \in CloudCalls |-> NoOrder]
    /\ session = {}
    /\ assured = bucket
    /\ meddled = {}

-----------------------------------------------------------------------------
\* Whether a request may replace what its target holds.  One without overwrite
\* has a condition on the target (If-None-Match, ForbidOverWrite); but for the
\* copy in COS it is a condition on the source.
Unconditional(o) == o.over \/ o.op \in {"copy", "move"}
Overwrites(o)    == o.over \/ (o.op \in {"copy", "move"} /\ provider = "cos")

\* The keys a call may change although they hold an object: what the caller has
\* agreed to, and what the copies of COS do without.
MayChange(o) == o.keys \cup {k \in CloudKeys : \/ k = o.from /\ o.op = "move"
                                               \/ k = o.to /\ o.over
                                               \/ k = o.to /\ o.from \in CloudKeys
                                                  /\ provider = "cos"}
UnderWay(c)  == order[c].at \in {"first", "second", "answer"}

\* A call arrives: what it may change is not assured any more.
Comes(c, o) ==
    /\ order[c].at = "to come"
    /\ \A d \in CloudCalls : d < c => order[d].at # "to come"
    /\ order' = [order EXCEPT ![c] = o]
    /\ assured' = [k \in CloudKeys |-> IF k \in MayChange(o) THEN NoObject ELSE assured[k]]
    /\ meddled' = meddled
         \cup {d \in CloudCalls : UnderWay(d) /\ order[d].to \in MayChange(o)}
         \cup {d \in {c} : \E e \in CloudCalls : UnderWay(e) /\ o.to \in MayChange(order[e])}
    /\ UNCHANGED <<provider, bucket, session>>

To(op, key, over) == [NoOrder EXCEPT !.at = "first", !.op = op, !.to = key, !.over = over]

CloudUpload(c, k, over) == Comes(c, To("upload", k, over))
CloudCopy(c, op, k, to, over) == Comes(c, [To(op, to, over) EXCEPT !.from = k])
CloudDelete(c, keys) == Comes(c, [To("delete", NoObject, FALSE) EXCEPT !.keys = keys])
BeginMultipart(c, k) == Comes(c, [To("begin", NoObject, FALSE) EXCEPT !.from = k])
\* The object of a session is known by the call that began it.
CompleteMultipart(c, s) == Comes(c, [To("complete", s[2], TRUE) EXCEPT !.from = s[1]])
AbortMultipart(c, s) == Comes(c, [To("abort", NoObject, FALSE) EXCEPT !.from = s[1]])

-----------------------------------------------------------------------------
Turn(c, op)     == order[c].at = "first" /\ order[c].op = op
GoesTo(c, at)   == order' = [order EXCEPT ![c].at = at] /\ UNCHANGED meddled
Closes(c)       == /\ order' = [order EXCEPT ![c] = [NoOrder EXCEPT !.at = "closed"]]
                   /\ meddled' = meddled \ {c}
WithoutBucket   == UNCHANGED <<provider, bucket, assured>>
WithoutSession  == UNCHANGED <<provider, session, assured>>

\* The request that writes an object, or is refused by its condition.
Puts(c, object) ==
    IF bucket[order[c].to] = NoObject \/ Overwrites(order[c])
    THEN /\ bucket' = [bucket EXCEPT ![order[c].to] = object]
         /\ order' = [order EXCEPT ![c].wrote = object,
                        ![c].at = IF order[c].op = "move" THEN "second" ELSE "answer"]
         /\ UNCHANGED meddled
    ELSE Closes(c) /\ UNCHANGED bucket

PutObject(c) ==
    /\ Turn(c, "upload")
    /\ Puts(c, c)
    /\ WithoutSession

\* Whether the source meets the condition of a COS copy is up to COS.
CopyRefused(c) == \/ bucket[order[c].from] = NoObject
                  \/ provider = "cos" /\ ~order[c].over
CopyRequest(c) ==
    /\ Turn(c, "copy") \/ Turn(c, "move")
    /\ \/ bucket[order[c].from] # NoObject /\ Puts(c, bucket[order[c].from])
       \/ CopyRefused(c) /\ Closes(c) /\ UNCHANGED bucket
    /\ WithoutSession

\* Move deletes its source by its key, whatever is there by now.
DeleteMoved(c) ==
    /\ order[c].at = "second"
    /\ bucket' = [bucket EXCEPT ![order[c].from] = NoObject]
    /\ GoesTo(c, "answer")
    /\ WithoutSession

\* DeleteBatch answers with the keys that were deleted, and without an error if
\* the provider deletes only some.
DeleteRequest(c) ==
    /\ Turn(c, "delete")
    /\ \E keys \in SUBSET order[c].keys :
         /\ keys = order[c].keys \/ Cardinality(order[c].keys) > 1
         /\ bucket' = [k \in CloudKeys |-> IF k \in keys THEN NoObject ELSE bucket[k]]
    /\ GoesTo(c, "answer")
    /\ WithoutSession

BeginRequest(c) ==
    /\ Turn(c, "begin")
    /\ session' = session \cup {<<c, order[c].from>>}
    /\ GoesTo(c, "answer")
    /\ WithoutBucket

CompleteRequest(c) ==
    /\ Turn(c, "complete")
    /\ LET s == <<order[c].from, order[c].to>>
       IN  IF s \in session
           THEN session' = session \ {s} /\ Puts(c, order[c].from)
           ELSE Closes(c) /\ UNCHANGED <<session, bucket>>
    /\ UNCHANGED <<provider, assured>>

AbortRequest(c) ==
    /\ Turn(c, "abort")
    /\ session' = {s \in session : s[1] # order[c].from}
    /\ GoesTo(c, "answer")
    /\ WithoutBucket

\* What a call has written is assured, if no other may have changed it and it is
\* not a Move onto its own source, which has deleted it.  (OSS looks at the object
\* again after an upload, and does without if that fails.)
Answer(c) ==
    /\ order[c].at = "answer"
    /\ LET o == order[c]
       IN  assured' = IF o.to # NoObject /\ c \notin meddled /\ (o.op = "move" => o.from # o.to)
                      THEN [assured EXCEPT ![o.to] = o.wrote] ELSE assured
    /\ Closes(c)
    /\ UNCHANGED <<provider, bucket, session>>

\* A request fails; with an effect, it fails after it was carried out.
CloudFails(c) ==
    /\ UnderWay(c)
    /\ Closes(c)
    /\ WithoutSession /\ UNCHANGED bucket

CloudNext ==
    \E c \in CloudCalls :
        \/ \E k \in CloudKeys :
            \/ \E over \in BOOLEAN : CloudUpload(c, k, over)
            \/ \E op \in {"copy", "move"}, to \in CloudKeys, over \in BOOLEAN :
                 CloudCopy(c, op, k, to, over)
            \/ BeginMultipart(c, k)
        \/ \E keys \in SUBSET CloudKeys \ {{}} : CloudDelete(c, keys)
        \/ \E s \in session : CompleteMultipart(c, s) \/ AbortMultipart(c, s)
        \/ PutObject(c) \/ CopyRequest(c) \/ DeleteMoved(c) \/ DeleteRequest(c)
        \/ BeginRequest(c) \/ CompleteRequest(c) \/ AbortRequest(c)
        \/ Answer(c) \/ CloudFails(c)

CloudSpec == CloudInit /\ [][CloudNext]_cloudVars

-----------------------------------------------------------------------------
CloudTypeOK ==
    /\ provider \in Providers
    /\ bucket \in [CloudKeys -> Objects]
    /\ order \in [CloudCalls -> Orders]
    /\ session \subseteq CloudCalls \X CloudKeys
    /\ assured \in [CloudKeys -> Objects]
    /\ meddled \subseteq CloudCalls

\* An object whose write was acknowledged, and met no call that may change its key
\* while it was under way, is still what the key holds as long as no such call
\* comes.  Uploads without overwrite, and copies without it in OSS and S3, are no
\* such calls: they come too late.  A copy of COS is one whatever it was asked,
\* since its condition does not look at the target, and so is a Move for its
\* source, which it deletes whatever is there by then.
CloudObjectKept ==
    \A k \in CloudKeys : assured[k] # NoObject => bucket[k] = assured[k]
=============================================================================
