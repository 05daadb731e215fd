--------------------------- MODULE StorageProofs ---------------------------
(***************************************************************************)
(* That an acknowledged object stays, in the cloud stores and in the local *)
(* one, and that a file of the local store holds whole bodies unless it    *)
(* met one of the causes, for every number of keys, parts and calls.       *)
(*                                                                         *)
(* In the cloud a request replaces what its key holds only if its call was *)
(* counted among those that may change the key: nothing is assured about   *)
(* such a key while the call is under way, and a call that met such        *)
(* another is meddled and assures nothing.                                 *)
(*                                                                         *)
(* In the local store a file has one name at most, and what a call writes  *)
(* has the name the call is about, if it has one; so a call that met       *)
(* nobody is alone with its key, which names its file.  A file without a   *)
(* flaw has one writer, and holds the chunks this writer has put there so  *)
(* far: those of its body, or whole bodies and the beginning of what it is *)
(* reading, from a file nobody has touched since.                          *)
(***************************************************************************)
EXTENDS LocalStorage, CloudStorage, Integers, TLAPS

-----------------------------------------------------------------------------
(* The cloud stores *)


\* What the fields of a call are, by its operation.
Shape(o) ==
    /\ o.op \in {"copy", "move"} => o.from \in CloudKeys
    /\ o.op \in {"upload", "copy", "move", "complete"} => o.to \in CloudKeys
    /\ o.op = "complete" => o.from \in CloudCalls
    /\ o.op = "begin" => o.from \in CloudKeys
    /\ o.op \in {"delete", "begin", "abort"} => o.to = NoObject
    /\ o.at = "second" => o.op = "move"

Goes(o) == o.at \in {"first", "second", "answer"}
Shaped  == \A c \in CloudCalls : Shape(order[c])

\* Nothing is assured that a call under way may change.
AssuredAlone ==
    \A k \in CloudKeys : assured[k] # NoObject =>
        /\ bucket[k] = assured[k]
        /\ \A d \in CloudCalls : Goes(order[d]) => k \notin MayChange(order[d])

\* Of two calls under way one may change what the other writes only if that one
\* is meddled.
MeddledKnown ==
    \A c \in CloudCalls \ meddled, d \in CloudCalls :
        c # d /\ Goes(order[c]) /\ Goes(order[d]) => order[c].to \notin MayChange(order[d])

\* What a call that is not has written is there.
Wrote(o) == /\ o.at \in {"second", "answer"} /\ o.to # NoObject
            /\ o.op = "move" => o.from # o.to
WrittenThere ==
    \A c \in CloudCalls : Wrote(order[c]) =>
        /\ order[c].wrote # NoObject
        /\ c \notin meddled => bucket[order[c].to] = order[c].wrote

CloudInv ==
    /\ CloudTypeOK /\ Shaped /\ AssuredAlone /\ MeddledKnown /\ WrittenThere

LEMMA NoOrderType == NoOrder \in Orders /\ Shape(NoOrder)
BY DEF NoOrder, Orders, OrderOps, Objects, Shape

LEMMA CloudInit_Inv == CloudInit => CloudInv
<1> SUFFICES ASSUME CloudInit PROVE CloudInv
  OBVIOUS
<1>1. /\ bucket \in [CloudKeys -> Objects] /\ assured = bucket
      /\ order = [c \in CloudCalls |-> NoOrder]
  BY DEF CloudInit
<1>2. \A c \in CloudCalls : order[c] = NoOrder /\ NoOrder.at = "to come"
  BY <1>1 DEF NoOrder
<1>3. CloudTypeOK
  BY <1>1, NoOrderType DEF CloudInit, CloudTypeOK
<1>4. Shaped
  BY <1>2, NoOrderType DEF Shaped
<1>5. AssuredAlone /\ MeddledKnown /\ WrittenThere
  BY <1>1, <1>2 DEF AssuredAlone, MeddledKnown, WrittenThere, Goes, Wrote
<1> QED BY <1>3, <1>4, <1>5 DEF CloudInv

LEMMA MayChangeKeys ==
    ASSUME NEW o \in Orders PROVE MayChange(o) \subseteq CloudKeys
BY DEF MayChange, Orders

\* A call arrives.
LEMMA ComesStep ==
    ASSUME CloudInv, NEW c \in CloudCalls, NEW o \in Orders, Shape(o), o.at = "first",
           Comes(c, o)
    PROVE  CloudInv'
<1>0. /\ bucket \in [CloudKeys -> Objects] /\ order \in [CloudCalls -> Orders]
      /\ assured \in [CloudKeys -> Objects] /\ meddled \subseteq CloudCalls
  BY DEF CloudInv, CloudTypeOK
<1>1. /\ order[c].at = "to come" /\ order' = [order EXCEPT ![c] = o]
      /\ assured' = [k \in CloudKeys |-> IF k \in MayChange(o) THEN NoObject ELSE assured[k]]
      /\ meddled' = meddled
           \cup {d \in CloudCalls : UnderWay(d) /\ order[d].to \in MayChange(o)}
           \cup {d \in {c} : \E e \in CloudCalls : UnderWay(e) /\ o.to \in MayChange(order[e])}
      /\ UNCHANGED <<provider, bucket, session>>
  BY DEF Comes
<1>2. order'[c] = o /\ \A d \in CloudCalls \ {c} : order'[d] = order[d]
  BY <1>0, <1>1
<1>3. \A p \in Orders : MayChange(p)' = MayChange(p)
  BY <1>1 DEF MayChange
<1>4. CloudTypeOK'
  <2>1. assured' \in [CloudKeys -> Objects]
    BY <1>0, <1>1 DEF Objects
  <2>2. meddled' \subseteq CloudCalls /\ order' \in [CloudCalls -> Orders]
    BY <1>0, <1>1
  <2> QED BY <1>1, <2>1, <2>2 DEF CloudInv, CloudTypeOK
<1>5. Shaped'
  BY <1>2 DEF CloudInv, Shaped
<1>6. ASSUME NEW k \in CloudKeys, assured'[k] # NoObject
      PROVE  /\ bucket'[k] = assured'[k]
             /\ \A d \in CloudCalls : Goes(order'[d]) => k \notin MayChange(order[d])'
  <2>1. k \notin MayChange(o) /\ assured'[k] = assured[k]
    BY <1>1, <1>6
  <2>2. bucket[k] = assured[k]
        /\ \A d \in CloudCalls : Goes(order[d]) => k \notin MayChange(order[d])
    BY <1>6, <2>1 DEF CloudInv, AssuredAlone
  <2>3. ASSUME NEW d \in CloudCalls, Goes(order'[d]) PROVE k \notin MayChange(order[d])'
    <3>1. CASE d = c
      BY <1>1, <1>2, <2>1, <3>1 DEF MayChange
    <3>2. CASE d # c
      BY <1>1, <1>2, <2>2, <2>3, <3>2 DEF MayChange
    <3> QED BY <3>1, <3>2
  <2> QED BY <1>1, <2>1, <2>2, <2>3
<1>7. AssuredAlone'
  BY <1>6 DEF AssuredAlone
<1>8. MeddledKnown'
  <2> SUFFICES ASSUME NEW a \in CloudCalls, NEW d \in CloudCalls, a \notin meddled',
                      a # d, Goes(order'[a]), Goes(order'[d])
               PROVE  order'[a].to \notin MayChange(order[d])'
    BY DEF MeddledKnown
  <2>1. a \notin meddled
    BY <1>1
  <2>2. CASE a = c
    <3>1. \A e \in CloudCalls : UnderWay(e) => o.to \notin MayChange(order[e])
      BY <1>1, <2>2
    <3>2. UnderWay(d) /\ order'[d] = order[d] /\ order'[a] = o
      BY <1>2, <2>2 DEF UnderWay, Goes
    <3>3. MayChange(order[d])' = MayChange(order[d])
      BY <1>1, <3>2 DEF MayChange
    <3> QED BY <3>1, <3>2, <3>3
  <2>3. CASE d = c
    <3>1. \A e \in CloudCalls : UnderWay(e) /\ e \notin meddled' => order[e].to \notin MayChange(o)
      BY <1>1
    <3>2. UnderWay(a) /\ order'[a] = order[a] /\ order'[d] = o
      BY <1>2, <2>3 DEF UnderWay, Goes
    <3>3. MayChange(order[d])' = MayChange(o)
      BY <1>1, <3>2 DEF MayChange
    <3> QED BY <3>1, <3>2, <3>3
  <2>4. CASE a # c /\ d # c
    <3>1. order'[a] = order[a] /\ order'[d] = order[d]
      BY <1>2, <2>4
    <3>2. MayChange(order[d])' = MayChange(order[d])
      BY <1>1, <3>1 DEF MayChange
    <3>3. order[a].to \notin MayChange(order[d])
      BY <2>1, <3>1 DEF CloudInv, MeddledKnown
    <3> QED BY <3>1, <3>2, <3>3
  <2> QED BY <2>2, <2>3, <2>4
<1>9. WrittenThere'
  BY <1>1, <1>2 DEF CloudInv, WrittenThere, Wrote
<1> QED BY <1>4, <1>5, <1>7, <1>8, <1>9 DEF CloudInv

\* A request that leaves the calls what they are, but for the progress of one, and
\* changes nothing that this one may not change.
LEMMA RequestStep ==
    ASSUME CloudInv, NEW c \in CloudCalls, Goes(order[c]),
           provider' = provider, assured' = assured, meddled' = meddled,
           bucket' \in [CloudKeys -> Objects],
           session' \in SUBSET (CloudCalls \X CloudKeys),
           NEW o \in Orders, order' = [order EXCEPT ![c] = o], Goes(o), Shape(o),
           MayChange(o) = MayChange(order[c]), o.to = order[c].to,
           \A k \in CloudKeys :
               bucket'[k] = bucket[k] \/ bucket[k] = NoObject \/ k \in MayChange(o),
           Wrote(o) => o.wrote # NoObject /\ (c \notin meddled => bucket'[o.to] = o.wrote)
    PROVE  CloudInv'
<1>0. /\ bucket \in [CloudKeys -> Objects] /\ order \in [CloudCalls -> Orders]
      /\ assured \in [CloudKeys -> Objects] /\ meddled \subseteq CloudCalls
  BY DEF CloudInv, CloudTypeOK
<1>1. order'[c] = o /\ \A d \in CloudCalls \ {c} : order'[d] = order[d]
  BY <1>0
<1>2. \A d \in CloudCalls : /\ MayChange(order[d])' = MayChange(order[d])
                            /\ order'[d].to = order[d].to
                            /\ Goes(order'[d]) <=> Goes(order[d])
  <2> TAKE d \in CloudCalls
  <2>1. CASE d = c
    <3>1. MayChange(order[d])' = MayChange(o)
      BY <1>1, <2>1 DEF MayChange
    <3> QED BY <1>1, <2>1, <3>1
  <2>2. CASE d # c
    BY <1>1, <2>2 DEF MayChange
  <2> QED BY <2>1, <2>2
<1>3. CloudTypeOK' /\ Shaped'
  <2>1. order' \in [CloudCalls -> Orders]
    BY <1>0
  <2>2. Shaped'
    BY <1>1 DEF CloudInv, Shaped
  <2> QED BY <2>1, <2>2 DEF CloudInv, CloudTypeOK
<1>4. AssuredAlone'
  <2> SUFFICES ASSUME NEW k \in CloudKeys, assured[k] # NoObject
               PROVE  /\ bucket'[k] = assured[k]
                      /\ \A d \in CloudCalls :
                           Goes(order'[d]) => k \notin MayChange(order[d])'
    BY DEF AssuredAlone
  <2>1. /\ bucket[k] = assured[k] /\ k \notin MayChange(order[c])
        /\ \A d \in CloudCalls : Goes(order[d]) => k \notin MayChange(order[d])
    BY DEF CloudInv, AssuredAlone
  <2> QED BY <1>2, <2>1
<1>5. MeddledKnown'
  BY <1>2 DEF CloudInv, MeddledKnown
<1>6. WrittenThere'
  <2> SUFFICES ASSUME NEW d \in CloudCalls, Wrote(order'[d])
               PROVE  /\ order'[d].wrote # NoObject
                      /\ d \notin meddled => bucket'[order'[d].to] = order'[d].wrote
    BY DEF WrittenThere
  <2>1. CASE d = c
    BY <1>1, <2>1
  <2>2. CASE d # c
    <3>1. /\ order[d].wrote # NoObject
          /\ d \notin meddled => bucket[order[d].to] = order[d].wrote
      BY <1>1, <2>2 DEF CloudInv, WrittenThere
    <3>2. Goes(order[d]) /\ order[d].to \in CloudKeys
      BY <1>0, <1>1, <2>2 DEF Wrote, Goes, Orders
    <3>3. d \notin meddled => order[d].to \notin MayChange(order[c])
      BY <2>2, <3>2 DEF CloudInv, MeddledKnown
    <3> QED BY <1>1, <2>2, <3>1, <3>2, <3>3
  <2> QED BY <2>1, <2>2
<1> QED BY <1>3, <1>4, <1>5, <1>6 DEF CloudInv

\* A call is over; the key it has written is assured if the last argument holds.
LEMMA ClosesStep ==
    ASSUME CloudInv, NEW c \in CloudCalls, Goes(order[c]), Closes(c),
           UNCHANGED <<provider, bucket>>, session' \in SUBSET (CloudCalls \X CloudKeys),
           \/ assured' = assured
           \/ /\ Wrote(order[c]) /\ c \notin meddled
              /\ assured' = [assured EXCEPT ![order[c].to] = order[c].wrote]
    PROVE  CloudInv'
<1>0. /\ bucket \in [CloudKeys -> Objects] /\ order \in [CloudCalls -> Orders]
      /\ assured \in [CloudKeys -> Objects] /\ meddled \subseteq CloudCalls
      /\ order[c] \in Orders
  BY DEF CloudInv, CloudTypeOK
<1> DEFINE o == [NoOrder EXCEPT !.at = "closed"]
<1>1. o \in Orders /\ Shape(o) /\ ~Goes(o) /\ ~Wrote(o)
  BY NoOrderType DEF NoOrder, Orders, Shape, Goes, Wrote
<1>2. order' = [order EXCEPT ![c] = o] /\ meddled' = meddled \ {c}
  BY DEF Closes
<1> HIDE DEF o
<1>3. order'[c] = o /\ \A d \in CloudCalls \ {c} : order'[d] = order[d]
  BY <1>0, <1>2
<1>4. \A d \in CloudCalls \ {c} : MayChange(order[d])' = MayChange(order[d])
  BY <1>3 DEF MayChange
<1>5. CloudTypeOK' /\ Shaped'
  <2>1. order' \in [CloudCalls -> Orders] /\ meddled' \subseteq CloudCalls
    BY <1>0, <1>1, <1>2
  <2>2. assured' \in [CloudKeys -> Objects]
    BY <1>0 DEF Orders
  <2>3. Shaped'
    BY <1>1, <1>3 DEF CloudInv, Shaped
  <2> QED BY <2>1, <2>2, <2>3 DEF CloudInv, CloudTypeOK
<1>6. AssuredAlone'
  <2> SUFFICES ASSUME NEW k \in CloudKeys, assured'[k] # NoObject
               PROVE  /\ bucket[k] = assured'[k]
                      /\ \A d \in CloudCalls :
                           Goes(order'[d]) => k \notin MayChange(order[d])'
    BY DEF AssuredAlone
  <2>1. CASE assured'[k] = assured[k]
    BY <1>1, <1>3, <1>4, <2>1 DEF CloudInv, AssuredAlone
  <2>2. CASE assured'[k] # assured[k]
    <3>1. k = order[c].to /\ Wrote(order[c]) /\ c \notin meddled /\ assured'[k] = order[c].wrote
      BY <1>0, <2>2
    <3>2. bucket[k] = assured'[k]
      BY <3>1 DEF CloudInv, WrittenThere
    <3>3. \A d \in CloudCalls \ {c} : Goes(order[d]) => k \notin MayChange(order[d])
      BY <3>1 DEF CloudInv, MeddledKnown
    <3> QED BY <1>1, <1>3, <1>4, <3>2, <3>3
  <2> QED BY <2>1, <2>2
<1>7. MeddledKnown'
  BY <1>1, <1>2, <1>3, <1>4 DEF CloudInv, MeddledKnown
<1>8. WrittenThere'
  BY <1>1, <1>2, <1>3 DEF CloudInv, WrittenThere
<1> QED BY <1>5, <1>6, <1>7, <1>8 DEF CloudInv

\* The request that writes.
LEMMA PutsStep ==
    ASSUME CloudInv, NEW c \in CloudCalls, order[c].at = "first",
           order[c].op \in {"upload", "copy", "move", "complete"},
           NEW object \in Objects \ {NoObject}, Puts(c, object),
           UNCHANGED <<provider, assured>>, session' \in SUBSET (CloudCalls \X CloudKeys)
    PROVE  CloudInv'
<1>0. /\ bucket \in [CloudKeys -> Objects] /\ order \in [CloudCalls -> Orders]
      /\ order[c] \in Orders /\ Shape(order[c]) /\ order[c].to \in CloudKeys
      /\ Goes(order[c])
  BY DEF CloudInv, CloudTypeOK, Shaped, Shape, Goes
<1>1. CASE bucket[order[c].to] = NoObject \/ Overwrites(order[c])
  <2> DEFINE at == IF order[c].op = "move" THEN "second" ELSE "answer"
             o == [order[c] EXCEPT !.wrote = object, !.at = at]
  <2>1. /\ bucket' = [bucket EXCEPT ![order[c].to] = object] /\ meddled' = meddled
        /\ order' = [order EXCEPT ![c].wrote = object, ![c].at = at]
    BY <1>1 DEF Puts
  <2>2. order' = [order EXCEPT ![c] = o]
    BY <1>0, <2>1
  <2>3. /\ o \in Orders /\ o.at = at /\ o.wrote = object /\ o.op = order[c].op
        /\ o.from = order[c].from /\ o.to = order[c].to /\ o.over = order[c].over
        /\ o.keys = order[c].keys
    BY <1>0 DEF Orders
  <2> HIDE DEF o
  <2>4. Goes(o) /\ Shape(o) /\ MayChange(o) = MayChange(order[c])
    BY <1>0, <2>3 DEF Goes, Shape, MayChange
  <2>5. /\ bucket' \in [CloudKeys -> Objects] /\ bucket'[o.to] = object
        /\ \A k \in CloudKeys : k # o.to => bucket'[k] = bucket[k]
    BY <1>0, <2>1, <2>3
  <2>6. Overwrites(order[c]) => o.to \in MayChange(order[c])
    BY <1>0 , <2>3 DEF Overwrites, MayChange, Shape
  <2>7. \A k \in CloudKeys :
          bucket'[k] = bucket[k] \/ bucket[k] = NoObject \/ k \in MayChange(o)
    BY <1>1, <2>3, <2>4, <2>5, <2>6
  <2>8. object # NoObject
    OBVIOUS
  <2> QED BY <1>0, <2>1, <2>2, <2>3, <2>4, <2>5, <2>7, <2>8, RequestStep
<1>2. CASE ~(bucket[order[c].to] = NoObject \/ Overwrites(order[c]))
  BY <1>0, <1>2, ClosesStep DEF Puts
<1> QED BY <1>1, <1>2

\* A request that writes nothing and is answered.
LEMMA AnsweredStep ==
    ASSUME CloudInv, NEW c \in CloudCalls, Goes(order[c]), GoesTo(c, "answer"),
           UNCHANGED <<provider, assured>>, session' \in SUBSET (CloudCalls \X CloudKeys),
           bucket' \in [CloudKeys -> Objects],
           \A k \in CloudKeys : bucket'[k] = bucket[k] \/ k \in MayChange(order[c]),
           \/ order[c].to = NoObject
           \/ order[c].at = "second" /\ \A k \in CloudKeys :
                                            bucket'[k] = bucket[k] \/ k = order[c].from
    PROVE  CloudInv'
<1>0. order[c] \in Orders /\ order \in [CloudCalls -> Orders] /\ Shape(order[c])
  BY DEF CloudInv, CloudTypeOK, Shaped
<1> DEFINE o == [order[c] EXCEPT !.at = "answer"]
<1>1. order' = [order EXCEPT ![c] = o] /\ meddled' = meddled
  BY <1>0 DEF GoesTo
<1>2. /\ o \in Orders /\ o.at = "answer" /\ o.wrote = order[c].wrote /\ o.op = order[c].op
      /\ o.from = order[c].from /\ o.to = order[c].to /\ o.over = order[c].over
      /\ o.keys = order[c].keys
  BY <1>0 DEF Orders
<1> HIDE DEF o
<1>3. Goes(o) /\ Shape(o) /\ MayChange(o) = MayChange(order[c])
  BY <1>0, <1>2 DEF Goes, Shape, MayChange
<1>4. ASSUME Wrote(o)
      PROVE  o.wrote # NoObject /\ (c \notin meddled => bucket'[o.to] = o.wrote)
  <2>1. /\ order[c].at = "second" /\ order[c].op = "move" /\ o.from # o.to
        /\ o.to \in CloudKeys /\ bucket'[o.to] = bucket[o.to]
    BY <1>0, <1>2, <1>4 DEF Wrote, Shape
  <2>2. Wrote(order[c])
    BY <1>2, <1>4, <2>1 DEF Wrote
  <2> QED BY <1>2, <2>1, <2>2 DEF CloudInv, WrittenThere
<1> QED BY <1>1, <1>2, <1>3, <1>4, RequestStep

LEMMA CloudStep ==
    ASSUME CloudInv, [CloudNext]_cloudVars PROVE CloudInv'
<1>0. /\ bucket \in [CloudKeys -> Objects] /\ order \in [CloudCalls -> Orders]
      /\ session \in SUBSET (CloudCalls \X CloudKeys)
      /\ \A c \in CloudCalls : order[c] \in Orders /\ Shape(order[c])
  BY DEF CloudInv, CloudTypeOK, Shaped
<1>1. ASSUME NEW c \in CloudCalls, NEW k \in CloudKeys, NEW over \in BOOLEAN,
             CloudUpload(c, k, over)
      PROVE  CloudInv'
  <2> DEFINE o == To("upload", k, over)
  <2>1. o \in Orders /\ o.at = "first" /\ Shape(o)
    BY DEF To, NoOrder, Orders, OrderOps, Objects, Shape
  <2> QED BY <1>1, <2>1, ComesStep DEF CloudUpload
<1>2. ASSUME NEW c \in CloudCalls, NEW op \in {"copy", "move"}, NEW k \in CloudKeys,
             NEW to \in CloudKeys, NEW over \in BOOLEAN, CloudCopy(c, op, k, to, over)
      PROVE  CloudInv'
  <2> DEFINE o == [To(op, to, over) EXCEPT !.from = k]
  <2>1. o \in Orders /\ o.at = "first" /\ Shape(o)
    BY DEF To, NoOrder, Orders, OrderOps, Objects, Shape
  <2> QED BY <1>2, <2>1, ComesStep DEF CloudCopy
<1>3. ASSUME NEW c \in CloudCalls, NEW keys \in SUBSET CloudKeys, CloudDelete(c, keys)
      PROVE  CloudInv'
  <2> DEFINE o == [To("delete", NoObject, FALSE) EXCEPT !.keys = keys]
  <2>1. o \in Orders /\ o.at = "first" /\ Shape(o)
    BY DEF To, NoOrder, Orders, OrderOps, Objects, Shape
  <2> QED BY <1>3, <2>1, ComesStep DEF CloudDelete
<1>4. ASSUME NEW c \in CloudCalls, NEW k \in CloudKeys, BeginMultipart(c, k)
      PROVE  CloudInv'
  <2> DEFINE o == [To("begin", NoObject, FALSE) EXCEPT !.from = k]
  <2>1. o \in Orders /\ o.at = "first" /\ Shape(o)
    BY DEF To, NoOrder, Orders, OrderOps, Objects, Shape
  <2> QED BY <1>4, <2>1, ComesStep DEF BeginMultipart
<1>5. ASSUME NEW c \in CloudCalls, NEW s \in session,
             CompleteMultipart(c, s) \/ AbortMultipart(c, s)
      PROVE  CloudInv'
  <2>0. s[1] \in CloudCalls /\ s[2] \in CloudKeys
    BY <1>0
  <2>1. CASE CompleteMultipart(c, s)
    <3> DEFINE o == [To("complete", s[2], TRUE) EXCEPT !.from = s[1]]
    <3>1. o \in Orders /\ o.at = "first" /\ Shape(o)
      BY <2>0 DEF To, NoOrder, Orders, OrderOps, Objects, Shape
    <3> QED BY <2>1, <3>1, ComesStep DEF CompleteMultipart
  <2>2. CASE AbortMultipart(c, s)
    <3> DEFINE o == [To("abort", NoObject, FALSE) EXCEPT !.from = s[1]]
    <3>1. o \in Orders /\ o.at = "first" /\ Shape(o)
      BY <2>0 DEF To, NoOrder, Orders, OrderOps, Objects, Shape
    <3> QED BY <2>2, <3>1, ComesStep DEF AbortMultipart
  <2> QED BY <1>5, <2>1, <2>2
<1>6. ASSUME NEW c \in CloudCalls, PutObject(c) PROVE CloudInv'
  <2>1. c \in Objects \ {NoObject}
    BY CloudStorageAssumption DEF Objects
  <2> QED BY <1>0, <1>6, <2>1, PutsStep DEF PutObject, Turn, WithoutSession
<1>7. ASSUME NEW c \in CloudCalls, CopyRequest(c) PROVE CloudInv'
  <2>1. /\ order[c].at = "first" /\ order[c].op \in {"copy", "move"}
        /\ order[c].from \in CloudKeys /\ Goes(order[c])
        /\ UNCHANGED <<provider, assured>> /\ session' \in SUBSET (CloudCalls \X CloudKeys)
    BY <1>0, <1>7 DEF CopyRequest, Turn, Shape, Goes, WithoutSession
  <2>2. CASE bucket[order[c].from] # NoObject /\ Puts(c, bucket[order[c].from])
    <3>1. bucket[order[c].from] \in Objects \ {NoObject}
      BY <1>0, <2>1, <2>2
    <3> QED BY <2>1, <2>2, <3>1, PutsStep
  <2>3. CASE Closes(c) /\ UNCHANGED bucket
    BY <2>1, <2>3, ClosesStep
  <2> QED BY <1>7, <2>2, <2>3 DEF CopyRequest
<1>8. ASSUME NEW c \in CloudCalls, DeleteMoved(c) PROVE CloudInv'
  <2>1. /\ order[c].at = "second" /\ order[c].op = "move" /\ order[c].from \in CloudKeys
        /\ Goes(order[c]) /\ UNCHANGED <<provider, assured>> /\ GoesTo(c, "answer")
        /\ session' \in SUBSET (CloudCalls \X CloudKeys)
        /\ bucket' = [bucket EXCEPT ![order[c].from] = NoObject]
    BY <1>0, <1>8 DEF DeleteMoved, Shape, Goes, WithoutSession
  <2>2. /\ bucket' \in [CloudKeys -> Objects]
        /\ \A k \in CloudKeys : bucket'[k] = bucket[k] \/ k = order[c].from
    BY <1>0, <2>1 DEF Objects
  <2>3. order[c].from \in MayChange(order[c])
    BY <2>1 DEF MayChange
  <2> QED BY <2>1, <2>2, <2>3, AnsweredStep
<1>9. ASSUME NEW c \in CloudCalls, DeleteRequest(c) PROVE CloudInv'
  <2>1. /\ order[c].to = NoObject /\ Goes(order[c]) /\ UNCHANGED <<provider, assured>>
        /\ GoesTo(c, "answer") /\ session' \in SUBSET (CloudCalls \X CloudKeys)
    BY <1>0, <1>9 DEF DeleteRequest, Turn, Shape, Goes, WithoutSession
  <2>2. PICK keys \in SUBSET order[c].keys :
          bucket' = [k \in CloudKeys |-> IF k \in keys THEN NoObject ELSE bucket[k]]
    BY <1>9 DEF DeleteRequest
  <2>3. /\ bucket' \in [CloudKeys -> Objects]
        /\ \A k \in CloudKeys : bucket'[k] = bucket[k] \/ k \in order[c].keys
    BY <1>0, <2>2 DEF Objects
  <2>4. order[c].keys \subseteq MayChange(order[c])
    BY DEF MayChange
  <2> QED BY <2>1, <2>3, <2>4, AnsweredStep
<1>10. ASSUME NEW c \in CloudCalls, BeginRequest(c) \/ AbortRequest(c) PROVE CloudInv'
  <2>1. /\ order[c].to = NoObject /\ Goes(order[c]) /\ UNCHANGED <<provider, bucket, assured>>
        /\ GoesTo(c, "answer") /\ (order[c].op = "begin" => order[c].from \in CloudKeys)
    BY <1>0, <1>10 DEF BeginRequest, AbortRequest, Turn, Shape, Goes, WithoutBucket
  <2>2. session' \in SUBSET (CloudCalls \X CloudKeys)
    BY <1>0, <1>10, <2>1 DEF BeginRequest, AbortRequest, Turn
  <2> QED BY <1>0, <2>1, <2>2, AnsweredStep
<1>11. ASSUME NEW c \in CloudCalls, CompleteRequest(c) PROVE CloudInv'
  <2>1. /\ order[c].at = "first" /\ order[c].op = "complete" /\ Goes(order[c])
        /\ order[c].from \in Objects \ {NoObject} /\ UNCHANGED <<provider, assured>>
    BY <1>0, <1>11, CloudStorageAssumption DEF CompleteRequest, Turn, Shape, Goes, Objects
  <2>2. session' \in SUBSET (CloudCalls \X CloudKeys)
    BY <1>0, <1>11 DEF CompleteRequest
  <2>3. Puts(c, order[c].from) \/ (Closes(c) /\ bucket' = bucket)
    BY <1>11 DEF CompleteRequest
  <2> QED BY <2>1, <2>2, <2>3, PutsStep, ClosesStep
<1>12. ASSUME NEW c \in CloudCalls, Answer(c) PROVE CloudInv'
  <2>1. /\ order[c].at = "answer" /\ Goes(order[c]) /\ Closes(c)
        /\ UNCHANGED <<provider, bucket>> /\ session' \in SUBSET (CloudCalls \X CloudKeys)
    BY <1>0, <1>12 DEF Answer, Goes
  <2>2. \/ assured' = assured
        \/ /\ Wrote(order[c]) /\ c \notin meddled
           /\ assured' = [assured EXCEPT ![order[c].to] = order[c].wrote]
    BY <1>12 DEF Answer, Wrote
  <2> QED BY <2>1, <2>2, ClosesStep
<1>13. ASSUME NEW c \in CloudCalls, CloudFails(c) PROVE CloudInv'
  <2>1. /\ Goes(order[c]) /\ Closes(c) /\ UNCHANGED <<provider, bucket, assured>>
        /\ session' \in SUBSET (CloudCalls \X CloudKeys)
    BY <1>0, <1>13 DEF CloudFails, UnderWay, Goes, WithoutSession
  <2> QED BY <2>1, ClosesStep
<1>14. CASE UNCHANGED cloudVars
  <2>1. \A o : MayChange(o)' = MayChange(o)
    BY <1>14 DEF cloudVars, MayChange
  <2> QED
    BY <1>14, <2>1 DEF cloudVars, CloudInv, CloudTypeOK, Shaped, AssuredAlone, MeddledKnown,
       WrittenThere, MayChange
<1> QED
  BY <1>1, <1>2, <1>3, <1>4, <1>5, <1>6, <1>7, <1>8, <1>9, <1>10, <1>11, <1>12, <1>13, <1>14
     DEF CloudNext

\* With however many keys and calls and whichever provider, an object whose write
\* was acknowledged stays until a call that may change its key.
THEOREM AcknowledgedStays == CloudSpec => [](CloudTypeOK /\ CloudObjectKept)
<1>1. CloudSpec => []CloudInv
  BY CloudInit_Inv, CloudStep, PTL DEF CloudSpec
<1>2. CloudInv => CloudTypeOK /\ CloudObjectKept
  BY DEF CloudInv, AssuredAlone, CloudObjectKept
<1> QED BY <1>1, <1>2, PTL

-----------------------------------------------------------------------------
(* The local store: the names of files *)

Keeps == {"waiting", "target", "transfer", "unlink", "ended", "delivered"}
StoreCall ==
    [op: StoreOps \cup {"none"}, at: Keeps, from: Paths \cup {NoFile},
     to: Paths \cup {NoFile}, src: Files \cup {NoFile}, dst: Files \cup {NoFile},
     readTo: Nat, wroteTo: Nat, over: BOOLEAN]

Runs(o)  == o.at \in {"target", "transfer", "unlink"}
Fresh(o) == o.at \in {"waiting", "target"}
Alters(o, p) == Runs(o) /\ \/ o.to = p /\ o.dst # NoFile
                           \/ o.op = "move" /\ o.from = p

\* What a call is about at each of its steps.
CallShape(o) ==
    /\ o.at = "waiting" => o = Waiting
    /\ o.at = "target" => o.dst = NoFile /\ o.from \in ObjectKeys /\ o.to \in ObjectKeys
                            /\ o.src # NoFile /\ o.op \in {"copy", "move"}
                            /\ o.readTo = 0 /\ o.wroteTo = 0
    /\ o.at = "transfer" => /\ o.dst # NoFile /\ o.op # "none"
                            /\ o.op = "download" <=> o.to = NoFile
                            /\ o.op = "move" => o.from \in ObjectKeys
                            /\ o.op \in {"copy", "move", "download"} => o.src # NoFile
                            /\ o.op \in {"upload", "part"} => o.src = NoFile
                            /\ o.op = "complete" => o.from \in PartNumbers \cup {NoFile}
    /\ o.at = "unlink" => o.dst = NoFile /\ o.op = "move" /\ o.from \in ObjectKeys
                            /\ o.src = NoFile
    /\ o.op \in {"copy", "move", "download"} => o.readTo = o.wroteTo

LocalTypes ==
    /\ named \in [Paths -> Files \cup {NoFile}]
    /\ written = [f \in Files |-> written[f]]
    /\ call \in [StoreCalls -> StoreCall]
    /\ DOMAIN promised = ObjectKeys /\ crossed \subseteq StoreCalls /\ spoiled \subseteq Files
    /\ \A c \in StoreCalls : CallShape(call[c])

\* A download and what it has delivered.
Private(o) == o.at = "delivered" \/ (o.at = "transfer" /\ o.to = NoFile)

\* A file has one name at most, and a call that creates one gives it its own.
OneName ==
    /\ \A p, q \in Paths : p # q /\ named[p] = named[q] => named[p] = NoFile
    /\ \A c \in StoreCalls : Fresh(call[c]) =>
          /\ \A p \in Paths : named[p] # c
          /\ \A d \in StoreCalls : Runs(call[d]) => call[d].dst # c /\ call[d].src # c
    /\ \A c \in StoreCalls : Private(call[c]) =>
          /\ \A p \in Paths : named[p] # c
          /\ \A d \in StoreCalls \ {c} : Runs(call[d]) => call[d].dst # c
          /\ call[c].at = "transfer" => call[c].dst = c

\* What a call writes has the name the call is about, if it has one.
WritesItsPath ==
    \A c \in StoreCalls, p \in Paths :
        Runs(call[c]) /\ call[c].dst # NoFile /\ named[p] = call[c].dst => call[c].to = p

\* A call that has met nobody is alone with its key, which names its file.
UncrossedAlone ==
    \A c \in StoreCalls \ crossed, k \in ObjectKeys :
        /\ Alters(call[c], k) => \A d \in StoreCalls \ {c} : ~Alters(call[d], k)
        /\ call[c].at = "transfer" /\ call[c].to = k => named[k] = call[c].dst

PromiseKept ==
    \A k \in ObjectKeys : promised[k] # NotPromised =>
        /\ \A c \in StoreCalls : ~Alters(call[c], k)
        /\ named[k] # NoFile /\ written[named[k]] = promised[k]

NamesInv == LocalTypes /\ OneName /\ WritesItsPath /\ UncrossedAlone /\ PromiseKept

LEMMA LocalConstants ==
    /\ NoFile \notin Files /\ NoFile \notin Paths /\ Paths \subseteq Files
    /\ StoreCalls \subseteq Files /\ Paths \cap StoreCalls = {}
    /\ ObjectKeys \subseteq Paths /\ PartNumbers \subseteq Paths
    /\ ObjectKeys \cap PartNumbers = {} /\ NoFile \notin StoreCalls
BY LocalStorageAssumption DEF Files, Paths

LEMMA WaitingType == /\ Waiting \in StoreCall /\ CallShape(Waiting)
                     /\ [Waiting EXCEPT !.at = "ended"] \in StoreCall
                     /\ CallShape([Waiting EXCEPT !.at = "ended"])
                     /\ [Waiting EXCEPT !.at = "delivered"] \in StoreCall
                     /\ CallShape([Waiting EXCEPT !.at = "delivered"])
BY DEF Waiting, StoreCall, CallShape, Keeps

LEMMA ChangersAlter ==
    ASSUME LocalTypes, NEW p
    PROVE  /\ \A c \in StoreCalls : Running(c) <=> Runs(call[c])
           /\ Changers(p) = {c \in StoreCalls : Alters(call[c], p)}
<1>1. \A c \in StoreCalls : Running(c) <=> Runs(call[c])
  BY DEF LocalTypes, Running, Runs, StoreCall, Keeps
<1> QED BY <1>1 DEF Changers, Alters

LEMMA StorageInit_Names == StorageInit => NamesInv
<1> SUFFICES ASSUME StorageInit PROVE NamesInv
  OBVIOUS
<1>1. PICK present \in SUBSET Paths :
        /\ named = [p \in Paths |-> IF p \in present THEN p ELSE NoFile]
        /\ promised = [k \in ObjectKeys |->
                         IF k \in present THEN BodyOf(k) ELSE NotPromised]
        /\ written = [f \in Files |-> IF f \in present THEN BodyOf(f) ELSE <<>>]
  BY DEF StorageInit
<1>2. /\ call = [c \in StoreCalls |-> Waiting] /\ crossed = {} /\ spoiled = {}
      /\ Waiting.at = "waiting" /\ Waiting.dst = NoFile
  BY DEF StorageInit, Waiting
<1>3. LocalTypes
  BY <1>1, <1>2, WaitingType, LocalConstants DEF LocalTypes
<1>4. \A c \in StoreCalls : call[c].at = "waiting"
  BY <1>2
<1>5. OneName /\ WritesItsPath /\ UncrossedAlone
  BY <1>1, <1>4, LocalConstants DEF OneName, WritesItsPath, UncrossedAlone, Fresh, Runs, Alters
<1>6. PromiseKept
  <2> SUFFICES ASSUME NEW k \in ObjectKeys, promised[k] # NotPromised
               PROVE  /\ \A c \in StoreCalls : ~Alters(call[c], k)
                      /\ named[k] # NoFile /\ written[named[k]] = promised[k]
    BY DEF PromiseKept
  <2>1. k \in present
    BY <1>1
  <2> QED BY <1>1, <1>4, <2>1, LocalConstants DEF Alters, Runs
<1> QED BY <1>3, <1>5, <1>6 DEF NamesInv

\* One call goes on, as o.
CallGoesOn(c, o) ==
    /\ o \in StoreCall /\ CallShape(o) /\ o.at # "waiting"
    /\ call' = [call EXCEPT ![c] = o]
    /\ Fresh(o) => Fresh(call[c])
    /\ o.at = "delivered" => call[c].at = "transfer" /\ call[c].to = NoFile
    /\ named' \in [Paths -> Files \cup {NoFile}]
    /\ written' = [f \in Files |-> written'[f]]
    /\ DOMAIN promised' = ObjectKeys
    /\ crossed' \subseteq StoreCalls /\ spoiled' \subseteq Files

\* It may take names away and name the file it creates, and writes to that only.
NamesOnly(c, o) ==
    /\ \A p \in Paths : \/ named'[p] \in {named[p], NoFile}
                        \/ named'[p] = c /\ Fresh(call[c]) /\ ~Fresh(o) /\ o.to = p
    /\ Runs(o) /\ o.dst # NoFile =>
          \/ Runs(call[c]) /\ call[c].dst = o.dst /\ call[c].to = o.to
          \/ Fresh(call[c]) /\ ~Fresh(o) /\ o.dst = c
          \/ Fresh(call[c]) /\ o.to \in Paths /\ o.dst = named[o.to]
    /\ Runs(o) /\ o.src # NoFile =>
          \/ Runs(call[c]) /\ call[c].src = o.src
          \/ \E p \in Paths : o.src = named[p]
    /\ \A f \in Files : written'[f] # written[f] => Runs(o) /\ f = o.dst

\* It meets the others who alter a key when it sets out to, or takes its name.
CrossesOthers(c, o) ==
    /\ crossed \subseteq crossed'
    /\ \A k \in ObjectKeys :
          /\ Alters(o, k) /\ ~Alters(call[c], k) =>
               \A d \in StoreCalls \ {c} : Alters(call[d], k) => {c, d} \subseteq crossed'
          /\ named'[k] # named[k] =>
               \A d \in StoreCalls \ {c} : Alters(call[d], k) => d \in crossed'
    /\ o.at = "transfer" /\ o.to \in ObjectKeys /\ c \notin crossed' =>
          \/ named'[o.to] = o.dst
          \/ /\ call[c].at = "transfer" /\ call[c].to = o.to /\ call[c].dst = o.dst
             /\ named'[o.to] = named[o.to]

\* A promise that is there was, or is given by a call that met nobody.
PromisesOnly(c, o) ==
    \A k \in ObjectKeys : promised'[k] # NotPromised =>
        /\ ~Alters(o, k) /\ named'[k] = named[k]
        /\ \/ promised'[k] = promised[k]
           \/ /\ c \notin crossed /\ call[c].at = "transfer" /\ call[c].to = k
              /\ promised'[k] = written[call[c].dst] /\ written' = written

LEMMA NamesStep ==
    ASSUME NamesInv, NEW c \in StoreCalls, NEW o,
           CallGoesOn(c, o), NamesOnly(c, o), CrossesOthers(c, o), PromisesOnly(c, o)
    PROVE  NamesInv'
<1>0. /\ LocalTypes /\ OneName /\ WritesItsPath /\ UncrossedAlone /\ PromiseKept
      /\ call[c] \in StoreCall /\ CallShape(call[c])
      /\ o \in StoreCall /\ CallShape(o)
  BY DEF NamesInv, LocalTypes, CallGoesOn
<1> USE DEF CallGoesOn, NamesOnly, CrossesOthers, PromisesOnly
<1>1. call'[c] = o /\ \A d \in StoreCalls \ {c} : call'[d] = call[d]
  BY <1>0 DEF LocalTypes
<1>2. LocalTypes'
  BY <1>0, <1>1 DEF LocalTypes
<1>3. OneName'
  <2>1. ASSUME NEW p \in Paths, NEW q \in Paths, p # q, named'[p] = named'[q]
        PROVE  named'[p] = NoFile
    BY <1>0, <2>1 DEF OneName
  <2>2. ASSUME NEW d \in StoreCalls, Fresh(call'[d])
        PROVE  /\ \A p \in Paths : named'[p] # d
               /\ \A e \in StoreCalls : Runs(call'[e]) => call'[e].dst # d /\ call'[e].src # d
    <3>1. Fresh(call[d]) /\ (d = c => Fresh(o))
      BY <1>1, <2>2
    <3>2. /\ \A p \in Paths : named[p] # d
          /\ \A e \in StoreCalls : Runs(call[e]) => call[e].dst # d /\ call[e].src # d
      BY <1>0, <3>1 DEF OneName
    <3>3. \A p \in Paths : named'[p] # d
      BY <3>1, <3>2, LocalConstants
    <3>4. Runs(o) => o.dst # d /\ o.src # d
      BY <3>1, <3>2, LocalConstants
    <3> QED BY <1>1, <3>2, <3>3, <3>4
  <2>3. ASSUME NEW d \in StoreCalls, Private(call'[d])
        PROVE  /\ \A p \in Paths : named'[p] # d
               /\ \A e \in StoreCalls \ {d} : Runs(call'[e]) => call'[e].dst # d
               /\ call'[d].at = "transfer" => call'[d].dst = d
    <3>1. CASE d = c
      <4>1. Private(o)
        BY <1>1, <2>3, <3>1
      <4>2. CASE Private(call[c])
        <5>1. /\ \A p \in Paths : named[p] # c
              /\ \A e \in StoreCalls \ {c} : Runs(call[e]) => call[e].dst # c
              /\ call[c].at = "transfer" => call[c].dst = c
          BY <1>0, <4>2 DEF OneName
        <5>2. ~Fresh(call[c])
          BY <4>2 DEF Private, Fresh
        <5>3. \A p \in Paths : named'[p] # c
          BY <5>1, <5>2, LocalConstants
        <5>4. o.at = "transfer" => o.dst = c
          BY <1>0, <4>2, <5>1, <5>2 DEF CallShape, Private, Runs
        <5> QED BY <1>1, <3>1, <5>1, <5>3, <5>4
      <4>3. CASE ~Private(call[c])
        <5>1. o.at = "transfer" /\ o.to = NoFile /\ o.dst # NoFile /\ Runs(o)
          BY <4>1, <4>3 DEF Private, Runs, CallShape
        <5>2. Fresh(call[c]) /\ o.dst = c
          BY <1>0, <4>3, <5>1, LocalConstants DEF Private, Runs, CallShape
        <5>3. /\ \A p \in Paths : named[p] # c
              /\ \A e \in StoreCalls : Runs(call[e]) => call[e].dst # c
          BY <1>0, <5>2 DEF OneName
        <5>4. \A p \in Paths : named'[p] # c
          BY <5>1, <5>3, LocalConstants
        <5> QED BY <1>1, <3>1, <5>2, <5>3, <5>4
      <4> QED BY <4>2, <4>3
    <3>2. CASE d # c
      <4>1. Private(call[d]) /\ call'[d] = call[d]
        BY <1>1, <2>3, <3>2
      <4>2. /\ \A p \in Paths : named[p] # d
            /\ \A e \in StoreCalls \ {d} : Runs(call[e]) => call[e].dst # d
            /\ call[d].at = "transfer" => call[d].dst = d
        BY <1>0, <4>1 DEF OneName
      <4>3. \A p \in Paths : named'[p] # d
        BY <3>2, <4>2, LocalConstants
      <4>4. Runs(o) => o.dst # d
        BY <3>2, <4>2, LocalConstants
      <4> QED BY <1>1, <3>2, <4>1, <4>2, <4>3, <4>4
    <3> QED BY <3>1, <3>2
  <2> QED BY <2>1, <2>2, <2>3 DEF OneName
<1>4. WritesItsPath'
  <2> SUFFICES ASSUME NEW d \in StoreCalls, NEW p \in Paths,
                      Runs(call'[d]), call'[d].dst # NoFile, named'[p] = call'[d].dst
               PROVE  call'[d].to = p
    BY DEF WritesItsPath
  <2>1. CASE d = c
    <3>1. Runs(o) /\ o.dst # NoFile /\ named'[p] = o.dst
      BY <1>1, <2>1
    <3>2. CASE Runs(call[c]) /\ call[c].dst = o.dst /\ call[c].to = o.to
      <4>1. named'[p] = named[p] \/ (Fresh(call[c]) /\ o.to = p)
        BY <3>1
      <4> QED BY <1>0, <1>1, <2>1, <3>1, <3>2, <4>1 DEF WritesItsPath
    <3>3. CASE Fresh(call[c]) /\ o.dst = c
      <4>1. named[p] # c
        BY <1>0, <3>3 DEF OneName
      <4> QED BY <1>1, <2>1, <3>1, <3>3, <4>1
    <3>4. CASE Fresh(call[c]) /\ o.to \in Paths /\ o.dst = named[o.to]
      <4>1. named[p] = named[o.to] \/ o.to = p
        BY <3>1, <3>4
      <4> QED BY <1>0, <1>1, <2>1, <3>1, <3>4, <4>1 DEF OneName
    <3> QED BY <3>1, <3>2, <3>3, <3>4
  <2>2. CASE d # c
    <3>1. call'[d] = call[d]
      BY <1>1, <2>2
    <3>2. named'[p] = named[p] \/ (named'[p] = c /\ Fresh(call[c]))
      BY <3>1
    <3>3. Fresh(call[c]) => call[d].dst # c
      BY <1>0, <3>1 DEF OneName
    <3> QED BY <1>0, <3>1, <3>2, <3>3 DEF WritesItsPath
  <2> QED BY <2>1, <2>2
<1>5. UncrossedAlone'
  <2> SUFFICES ASSUME NEW d \in StoreCalls \ crossed', NEW k \in ObjectKeys
               PROVE  /\ Alters(call'[d], k) => \A e \in StoreCalls \ {d} : ~Alters(call'[e], k)
                      /\ call'[d].at = "transfer" /\ call'[d].to = k => named'[k] = call'[d].dst
    BY DEF UncrossedAlone
  <2>0. d \notin crossed
    OBVIOUS
  <2>1. CASE d = c
    <3>1. Alters(o, k) => \A e \in StoreCalls \ {c} : ~Alters(call[e], k)
      BY <1>0, <2>0, <2>1 DEF UncrossedAlone
    <3>2. o.at = "transfer" /\ o.to = k => named'[k] = o.dst
      BY <1>0, <2>0, <2>1 DEF UncrossedAlone
    <3> QED BY <1>1, <2>1, <3>1, <3>2
  <2>2. CASE d # c
    <3>1. ASSUME Alters(call[d], k) PROVE ~Alters(o, k)
      BY <1>0, <2>0, <2>2, <3>1 DEF UncrossedAlone
    <3>2. ASSUME call[d].at = "transfer", call[d].to = k PROVE named'[k] = named[k]
      <4>1. Alters(call[d], k)
        BY <1>0, <3>2 DEF LocalTypes, CallShape, Alters, Runs
      <4> QED BY <2>2, <4>1
    <3> QED BY <1>0, <1>1, <2>0, <2>2, <3>1, <3>2 DEF UncrossedAlone
  <2> QED BY <2>1, <2>2
<1>6. PromiseKept'
  <2> SUFFICES ASSUME NEW k \in ObjectKeys, promised'[k] # NotPromised
               PROVE  /\ \A d \in StoreCalls : ~Alters(call'[d], k)
                      /\ named'[k] # NoFile /\ written'[named'[k]] = promised'[k]
    BY DEF PromiseKept
  <2>0. ~Alters(o, k) /\ named'[k] = named[k] /\ k \in Paths
    BY LocalConstants
  <2>1. CASE promised'[k] = promised[k]
    <3>1. /\ \A d \in StoreCalls : ~Alters(call[d], k)
          /\ named[k] # NoFile /\ written[named[k]] = promised[k]
      BY <1>0, <2>1 DEF PromiseKept
    <3>2. named[k] \in Files
      BY <1>0, <2>0, <3>1 DEF LocalTypes
    <3>3. ASSUME Runs(o), o.dst = named[k] PROVE FALSE
      <4>1. CASE Runs(call[c]) /\ call[c].dst = o.dst /\ call[c].to = o.to
        BY <1>0, <2>0, <3>1, <3>3, <4>1 DEF WritesItsPath, Alters
      <4>2. CASE Fresh(call[c]) /\ o.dst = c
        BY <1>0, <2>0, <3>3, <4>2 DEF OneName
      <4>3. CASE Fresh(call[c]) /\ o.to \in Paths /\ o.dst = named[o.to]
        <5>1. o.to = k
          BY <1>0, <2>0, <3>1, <3>3, <4>3 DEF OneName
        <5> QED BY <2>0, <3>1, <3>3, <5>1 DEF Alters
      <4> QED BY <3>1, <3>3, <4>1, <4>2, <4>3
    <3>4. written'[named[k]] = written[named[k]]
      BY <3>2, <3>3
    <3> QED BY <1>1, <2>0, <2>1, <3>1, <3>4
  <2>2. CASE /\ c \notin crossed /\ call[c].at = "transfer" /\ call[c].to = k
             /\ promised'[k] = written[call[c].dst] /\ written' = written
    <3>1. Alters(call[c], k) /\ call[c].dst # NoFile
      BY <1>0, <2>0, <2>2, LocalConstants DEF CallShape, Alters, Runs
    <3>2. named[k] = call[c].dst /\ \A d \in StoreCalls \ {c} : ~Alters(call[d], k)
      BY <1>0, <2>2, <3>1 DEF UncrossedAlone
    <3> QED BY <1>1, <2>0, <2>2, <3>1, <3>2
  <2> QED BY <2>1, <2>2
<1> QED BY <1>2, <1>3, <1>4, <1>5, <1>6 DEF NamesInv

\* A call creates, or empties, the file of path p.
LEMMA CreatesNames ==
    ASSUME NamesInv, NEW c \in StoreCalls, NEW p \in Paths, NEW over \in BOOLEAN,
           NEW next \in StoreCall, Fresh(call[c]), Creates(c, p, over, next),
           MayCreate(p, over), next.to = p,
           CallShape([next EXCEPT !.dst = FileFor(c, p), !.at = "transfer"]),
           \A k : Alters(next, k) => Alters(call[c], k),
           next.op = "move" => Runs(next),
           next.src # NoFile => Runs(call[c]) /\ call[c].src = next.src
    PROVE  NamesInv'
<1> DEFINE f == FileFor(c, p)
           o == [next EXCEPT !.dst = f, !.at = "transfer"]
<1>0. /\ LocalTypes /\ OneName /\ WritesItsPath /\ UncrossedAlone /\ PromiseKept
      /\ call[c] \in StoreCall /\ c \in Files /\ p \in Files /\ p # NoFile
      /\ p \in StoreCalls => FALSE
  BY LocalConstants DEF NamesInv, LocalTypes
<1>1. f \in Files /\ f # NoFile /\ f = (IF named[p] = NoFile THEN c ELSE named[p])
  BY <1>0, LocalConstants DEF FileFor, LocalTypes
<1>2. /\ named' = [named EXCEPT ![p] = f] /\ written' = [written EXCEPT ![f] = <<>>]
      /\ call' = [call EXCEPT ![c] = o] /\ spoiled' \subseteq spoiled \cup {f} \cup HalfRead(f)
      /\ crossed' = crossed \cup (Changers(p) \ {c})
                      \cup (IF Changers(p) \ {c} = {} THEN {} ELSE {c})
      /\ promised' = IF over /\ p \in ObjectKeys THEN [promised EXCEPT ![p] = NotPromised]
                                                 ELSE promised
  BY <1>1 DEF Creates, NoLongerPromised, Meets
<1>3. /\ o \in StoreCall /\ CallShape(o) /\ o.at = "transfer" /\ o.dst = f /\ o.to = p
      /\ o.op = next.op /\ o.from = next.from /\ o.src = next.src
  BY <1>1 DEF StoreCall, Keeps
<1> HIDE DEF f, o
<1>4. Changers(p) = {d \in StoreCalls : Alters(call[d], p)}
  BY <1>0, ChangersAlter
<1>5. /\ \A q \in Paths : named'[q] = IF q = p THEN f ELSE named[q]
      /\ named' \in [Paths -> Files \cup {NoFile}]
  BY <1>0, <1>1, <1>2 DEF LocalTypes
<1>6. /\ written' = [g \in Files |-> written'[g]]
      /\ \A g \in Files : g # f => written'[g] = written[g]
  BY <1>0, <1>1, <1>2 DEF LocalTypes
<1>7. /\ DOMAIN promised' = ObjectKeys
      /\ \A k \in ObjectKeys \ {p} : promised'[k] = promised[k]
      /\ p \in ObjectKeys => promised'[p] = NotPromised
  <2>1. p \in ObjectKeys /\ ~over => promised[p] = NotPromised
    BY <1>0 DEF MayCreate, PromiseKept
  <2> QED BY <1>0, <1>2, <2>1 DEF LocalTypes
<1>8. crossed' \subseteq StoreCalls /\ crossed \subseteq crossed'
  BY <1>0, <1>2, <1>4 DEF LocalTypes
<1>9. spoiled' \subseteq Files
  <2>1. HalfRead(f) \subseteq Files
    BY <1>0 DEF HalfRead, LocalTypes, StoreCall
  <2> QED BY <1>0, <1>1, <1>2, <2>1 DEF LocalTypes
<1>10. Runs(o) /\ ~Fresh(o)
  BY <1>3 DEF Runs, Fresh
<1>11. \A k : Alters(o, k) => k = p \/ Alters(call[c], k)
  BY <1>3, <1>10 DEF Alters
<1>12. \A k \in ObjectKeys :
          /\ Alters(o, k) /\ ~Alters(call[c], k) =>
               \A d \in StoreCalls \ {c} : Alters(call[d], k) => {c, d} \subseteq crossed'
          /\ named'[k] # named[k] =>
               \A d \in StoreCalls \ {c} : Alters(call[d], k) => d \in crossed'
  <2> SUFFICES ASSUME NEW k \in ObjectKeys, NEW d \in StoreCalls \ {c}, Alters(call[d], k), k = p
               PROVE  {c, d} \subseteq crossed'
    BY <1>5, <1>11, LocalConstants
  <2> QED BY <1>2, <1>4
<1>13. \A k \in ObjectKeys : promised'[k] # NotPromised =>
          ~Alters(o, k) /\ named'[k] = named[k] /\ promised'[k] = promised[k]
  <2> SUFFICES ASSUME NEW k \in ObjectKeys, promised'[k] # NotPromised
               PROVE  ~Alters(o, k) /\ named'[k] = named[k] /\ promised'[k] = promised[k]
    OBVIOUS
  <2>1. k # p /\ promised'[k] = promised[k] /\ k \in Paths
    BY <1>7, LocalConstants
  <2>2. ~Alters(call[c], k)
    BY <1>0, <2>1 DEF PromiseKept
  <2> QED BY <1>5, <1>11, <2>1, <2>2
<1>14. /\ \A q \in Paths : \/ named'[q] \in {named[q], NoFile}
                           \/ named'[q] = c /\ Fresh(call[c]) /\ ~Fresh(o) /\ o.to = q
       /\ \/ Fresh(call[c]) /\ ~Fresh(o) /\ o.dst = c
          \/ Fresh(call[c]) /\ o.to \in Paths /\ o.dst = named[o.to]
  BY <1>1, <1>3, <1>5, <1>10
<1>15. o.at = "transfer" /\ o.to \in ObjectKeys => named'[o.to] = o.dst
  BY <1>3, <1>5
<1>16. /\ o.at # "waiting" /\ (Fresh(o) => Fresh(call[c]))
       /\ o.at = "delivered" => call[c].at = "transfer" /\ call[c].to = NoFile
       /\ Runs(o) /\ o.src # NoFile =>
            \/ Runs(call[c]) /\ call[c].src = o.src
            \/ \E q \in Paths : o.src = named[q]
       /\ \A g \in Files : written'[g] # written[g] => Runs(o) /\ g = o.dst
  BY <1>3, <1>6, <1>10
<1>17. CallGoesOn(c, o)
  BY <1>2, <1>3, <1>5, <1>6, <1>7, <1>8, <1>9, <1>16 DEF CallGoesOn
<1>18. NamesOnly(c, o)
  BY <1>14, <1>16 DEF NamesOnly
<1>19. CrossesOthers(c, o)
  BY <1>8, <1>12, <1>15 DEF CrossesOthers
<1>20. PromisesOnly(c, o)
  BY <1>13 DEF PromisesOnly
<1> QED BY <1>17, <1>18, <1>19, <1>20, NamesStep

EndedCall == [Waiting EXCEPT !.at = "ended"]

\* A call ends, and may take names away from those it then has met.
LEMMA EndsNames ==
    ASSUME NamesInv, NEW c \in StoreCalls, Ends(c), UNCHANGED written,
           named' \in [Paths -> Files \cup {NoFile}],
           \A p \in Paths : named'[p] \in {named[p], NoFile},
           DOMAIN promised' = ObjectKeys, crossed' \subseteq StoreCalls, spoiled' \subseteq Files,
           crossed \subseteq crossed',
           \A k \in ObjectKeys : named'[k] # named[k] =>
               \A d \in StoreCalls \ {c} : Alters(call[d], k) => d \in crossed',
           \A k \in ObjectKeys : promised'[k] # NotPromised =>
              /\ named'[k] = named[k]
              /\ \/ promised'[k] = promised[k]
                 \/ /\ c \notin crossed /\ call[c].at = "transfer" /\ call[c].to = k
                    /\ promised'[k] = written[call[c].dst]
    PROVE  NamesInv'
<1>1. /\ EndedCall \in StoreCall /\ CallShape(EndedCall) /\ EndedCall.at = "ended"
      /\ call' = [call EXCEPT ![c] = EndedCall] /\ written = [f \in Files |-> written[f]]
  BY WaitingType DEF EndedCall, Ends, NamesInv, LocalTypes, Waiting
<1>2. ~Fresh(EndedCall) /\ ~Runs(EndedCall) /\ \A k : ~Alters(EndedCall, k)
  BY <1>1 DEF Fresh, Runs, Alters
<1> HIDE DEF EndedCall
<1>3. CallGoesOn(c, EndedCall)
  BY <1>1, <1>2 DEF CallGoesOn
<1>4. NamesOnly(c, EndedCall)
  BY <1>2 DEF NamesOnly
<1>5. CrossesOthers(c, EndedCall)
  BY <1>1, <1>2 DEF CrossesOthers
<1>6. PromisesOnly(c, EndedCall)
  BY <1>2 DEF PromisesOnly
<1> QED BY <1>3, <1>4, <1>5, <1>6, NamesStep

LEMMA RefusedNames == ASSUME NamesInv, NEW c \in StoreCalls, Refused(c) PROVE NamesInv'
<1>1. /\ named \in [Paths -> Files \cup {NoFile}] /\ DOMAIN promised = ObjectKeys
      /\ crossed \subseteq StoreCalls /\ spoiled \subseteq Files
  BY DEF NamesInv, LocalTypes
<1>2. Ends(c) /\ UNCHANGED <<named, written, promised, crossed, spoiled>>
  BY DEF Refused
<1> QED BY <1>1, <1>2, EndsNames

\* A call that writes on, or looks for more to read.
LEMMA TransferNames ==
    ASSUME NamesInv, NEW c \in StoreCalls, NEW o \in StoreCall,
           call[c].at = "transfer", o.at = "transfer", CallShape(o),
           o.op = call[c].op, o.to = call[c].to, o.dst = call[c].dst,
           call[c].op = "move" => o.from = call[c].from,
           o.src = call[c].src \/ \E p \in Paths : o.src = named[p],
           call' = [call EXCEPT ![c] = o], UNCHANGED <<named, promised, crossed>>,
           written' = [f \in Files |-> written'[f]],
           \A f \in Files : written'[f] # written[f] => f = call[c].dst,
           spoiled' \subseteq Files
    PROVE  NamesInv'
<1>0. /\ LocalTypes /\ PromiseKept /\ CallShape(call[c]) /\ call[c].dst # NoFile
      /\ Runs(call[c]) /\ Runs(o) /\ ~Fresh(o)
  BY DEF NamesInv, LocalTypes, CallShape, Runs, Fresh
<1>1. \A k : Alters(o, k) => Alters(call[c], k)
  BY <1>0 DEF Alters
<1>2. CallGoesOn(c, o)
  BY <1>0 DEF CallGoesOn, LocalTypes
<1>3. NamesOnly(c, o)
  BY <1>0 DEF NamesOnly
<1>4. CrossesOthers(c, o)
  BY <1>1 DEF CrossesOthers
<1>5. PromisesOnly(c, o)
  BY <1>0, <1>1 DEF PromisesOnly, PromiseKept
<1> QED BY <1>2, <1>3, <1>4, <1>5, NamesStep

LEMMA DownloadNames ==
    ASSUME NamesInv, NEW c \in StoreCalls, NEW k \in ObjectKeys, DownloadObject(c, k)
    PROVE  NamesInv'
<1>0. /\ LocalTypes /\ PromiseKept /\ call[c] = Waiting /\ Fresh(call[c])
      /\ call[c].at = "waiting" /\ k \in Paths /\ c \in Files
  BY LocalConstants DEF NamesInv, LocalTypes, CallShape, DownloadObject, Arrives, Fresh
<1>1. CASE named[k] = NoFile
  BY <1>1, RefusedNames DEF DownloadObject
<1>2. CASE named[k] # NoFile
  <2> DEFINE o == [Waiting EXCEPT !.op = "download", !.at = "transfer", !.from = k,
                          !.src = named[k], !.dst = c]
  <2>1. /\ o \in StoreCall /\ o.at = "transfer" /\ o.op = "download" /\ o.to = NoFile
        /\ o.dst = c /\ o.src = named[k] /\ o.src # NoFile
        /\ o.readTo = 0 /\ o.wroteTo = 0
    BY <1>0, <1>2 DEF LocalTypes, StoreCall, StoreOps, Waiting, Keeps
  <2>2. call' = [call EXCEPT ![c] = o] /\ UNCHANGED <<named, written, promised, crossed, spoiled>>
    BY <1>2 DEF DownloadObject
  <2> HIDE DEF o
  <2>3. CallShape(o) /\ ~Fresh(o) /\ \A p \in ObjectKeys : ~Alters(o, p)
    BY <1>0, <2>1, LocalConstants DEF CallShape, Fresh, Alters
  <2>4. CallGoesOn(c, o)
    BY <1>0, <2>1, <2>2, <2>3 DEF CallGoesOn, LocalTypes
  <2>5. NamesOnly(c, o)
    BY <1>0, <2>1, <2>2, <2>3 DEF NamesOnly
  <2>6. CrossesOthers(c, o)
    BY <2>1, <2>2, <2>3, LocalConstants DEF CrossesOthers
  <2>7. PromisesOnly(c, o)
    BY <2>2, <2>3 DEF PromisesOnly
  <2> QED BY <2>4, <2>5, <2>6, <2>7, NamesStep
<1> QED BY <1>1, <1>2

LEMMA CopyNames ==
    ASSUME NamesInv, NEW c \in StoreCalls, NEW k \in ObjectKeys, NEW target \in ObjectKeys,
           NEW over \in BOOLEAN, NEW moves \in BOOLEAN, CopyObject(c, k, target, over, moves)
    PROVE  NamesInv'
<1>0. /\ LocalTypes /\ PromiseKept /\ call[c] = Waiting /\ Fresh(call[c])
      /\ call[c].at = "waiting" /\ k \in Paths /\ target \in Paths
      /\ ~Runs(call[c]) /\ \A p : ~Alters(call[c], p)
  BY LocalConstants DEF NamesInv, LocalTypes, CallShape, CopyObject, Arrives, Fresh, Runs, Alters
<1>1. CASE named[k] = NoFile
  BY <1>1, RefusedNames DEF CopyObject
<1>2. CASE named[k] # NoFile
  <2> DEFINE o == [Waiting EXCEPT !.op = IF moves THEN "move" ELSE "copy", !.at = "target",
                          !.from = k, !.to = target, !.src = named[k], !.over = over]
  <2>1. /\ o \in StoreCall /\ o.at = "target" /\ o.op = (IF moves THEN "move" ELSE "copy")
        /\ o.to = target /\ o.from = k /\ o.dst = NoFile /\ o.src = named[k] /\ o.src # NoFile
        /\ o.readTo = 0 /\ o.wroteTo = 0
    BY <1>0, <1>2 DEF LocalTypes, StoreCall, StoreOps, Waiting, Keeps
  <2>2. /\ call' = [call EXCEPT ![c] = o] /\ UNCHANGED <<named, written, spoiled>>
        /\ ~moves => UNCHANGED <<promised, crossed>>
        /\ moves => NoLongerPromised(k) /\ Meets(c, k)
    BY <1>2 DEF CopyObject
  <2> HIDE DEF o
  <2>3. CallShape(o) /\ Fresh(o) /\ \A p : Alters(o, p) <=> moves /\ p = k
    BY <1>0, <2>1, LocalConstants DEF CallShape, Fresh, Alters, Runs
  <2>4. /\ DOMAIN promised' = ObjectKeys
        /\ \A p \in ObjectKeys : promised'[p] # NotPromised =>
             promised'[p] = promised[p] /\ ~(moves /\ p = k)
    BY <1>0, <2>2 DEF LocalTypes, NoLongerPromised
  <2>5. /\ crossed' \subseteq StoreCalls /\ crossed \subseteq crossed'
        /\ moves => \A d \in StoreCalls \ {c} : Alters(call[d], k) => {c, d} \subseteq crossed'
    <3>1. Changers(k) = {d \in StoreCalls : Alters(call[d], k)}
      BY <1>0, ChangersAlter
    <3> QED BY <1>0, <2>2, <3>1 DEF Meets, LocalTypes
  <2>6. CallGoesOn(c, o)
    BY <1>0, <2>1, <2>2, <2>3, <2>4, <2>5 DEF CallGoesOn, LocalTypes
  <2>7. NamesOnly(c, o)
    BY <1>0, <2>1, <2>2, <2>3 DEF NamesOnly
  <2>8. CrossesOthers(c, o)
    BY <1>0, <2>1, <2>2, <2>3, <2>5 DEF CrossesOthers
  <2>9. PromisesOnly(c, o)
    BY <2>2, <2>3, <2>4 DEF PromisesOnly
  <2> QED BY <2>6, <2>7, <2>8, <2>9, NamesStep
<1> QED BY <1>1, <1>2

LEMMA ArrivingNames ==
    ASSUME NamesInv, NEW c \in StoreCalls, NEW p \in Paths, NEW over \in BOOLEAN, NEW op,
           op \in {"upload", "part", "complete"}, Arrives(c), MayCreate(p, over),
           Creates(c, p, over, [Waiting EXCEPT !.op = op, !.to = p])
    PROVE  NamesInv'
<1> DEFINE next == [Waiting EXCEPT !.op = op, !.to = p]
<1>1. /\ next \in StoreCall /\ next.to = p /\ next.op = op /\ next.at = "waiting"
      /\ next.src = NoFile /\ next.from = NoFile
  BY DEF StoreCall, StoreOps, Waiting, Keeps
<1>2. FileFor(c, p) \in Files /\ NoFile \notin Files /\ NoFile \notin Paths
  BY LocalConstants DEF NamesInv, LocalTypes, FileFor
<1>3. CallShape([next EXCEPT !.dst = FileFor(c, p), !.at = "transfer"])
  BY <1>2 DEF CallShape, Waiting
<1>4. Fresh(call[c]) /\ \A k : ~Alters(next, k)
  BY <1>1 DEF Arrives, Fresh, Alters, Runs
<1>5. Creates(c, p, over, next)
  OBVIOUS
<1> HIDE DEF next
<1> QED BY <1>1, <1>3, <1>4, <1>5, CreatesNames

LEMMA CopyTargetNames ==
    ASSUME NamesInv, NEW c \in StoreCalls, CopyTarget(c) PROVE NamesInv'
<1> DEFINE next == call[c]
<1>0. /\ next \in StoreCall /\ CallShape(next) /\ next.at = "target" /\ next.to \in Paths
      /\ next.over \in BOOLEAN /\ next.to \in ObjectKeys
  BY LocalConstants DEF NamesInv, LocalTypes, CopyTarget, CallShape, StoreCall
<1>1. CASE MayCreate(next.to, next.over)
  <2>1. FileFor(c, next.to) \in Files /\ NoFile \notin Files /\ NoFile \notin Paths
    BY <1>0, LocalConstants DEF NamesInv, LocalTypes, FileFor
  <2> DEFINE o == [next EXCEPT !.dst = FileFor(c, next.to), !.at = "transfer"]
  <2>2. /\ o.at = "transfer" /\ o.dst = FileFor(c, next.to) /\ o.op = next.op /\ o.to = next.to
        /\ o.from = next.from /\ o.src = next.src
        /\ o.readTo = next.readTo /\ o.wroteTo = next.wroteTo
    BY <1>0 DEF StoreCall
  <2>3. CallShape(o)
    <3> HIDE DEF o
    <3> QED BY <1>0, <2>1, <2>2 DEF CallShape
  <2>4. Creates(c, next.to, next.over, next)
    BY <1>1 DEF CopyTarget
  <2>5. Fresh(next) /\ Runs(next)
    BY <1>0 DEF Fresh, Runs
  <2> HIDE DEF next
  <2> QED BY <1>0, <1>1, <2>3, <2>4, <2>5, CreatesNames DEF next
<1>2. CASE ~MayCreate(next.to, next.over)
  BY <1>2, RefusedNames DEF CopyTarget
<1> QED BY <1>1, <1>2

LEMMA DeleteNames ==
    ASSUME NamesInv, NEW c \in StoreCalls, NEW k \in ObjectKeys, DeleteObject(c, k)
    PROVE  NamesInv'
<1>0. LocalTypes /\ k \in Paths /\ Changers(k) = {d \in StoreCalls : Alters(call[d], k)}
  BY ChangersAlter, LocalConstants DEF NamesInv
<1>1. /\ Ends(c) /\ named' = [named EXCEPT ![k] = NoFile] /\ UNCHANGED <<written, spoiled>>
      /\ promised' = [promised EXCEPT ![k] = NotPromised]
      /\ crossed' = crossed \cup Changers(k)
  BY DEF DeleteObject, NoLongerPromised
<1>2. /\ named' \in [Paths -> Files \cup {NoFile}] /\ DOMAIN promised' = ObjectKeys
      /\ \A p \in Paths : named'[p] = IF p = k THEN NoFile ELSE named[p]
      /\ \A p \in ObjectKeys : promised'[p] = IF p = k THEN NotPromised ELSE promised[p]
  BY <1>0, <1>1 DEF LocalTypes
<1>3. crossed' \subseteq StoreCalls /\ crossed \subseteq crossed' /\ spoiled' \subseteq Files
  BY <1>0, <1>1 DEF LocalTypes
<1> QED BY <1>0, <1>1, <1>2, <1>3, LocalConstants, EndsNames

LEMMA AbortUploadNames ==
    ASSUME NamesInv, NEW c \in StoreCalls, AbortUpload(c) PROVE NamesInv'
<1>0. LocalTypes
  BY DEF NamesInv
<1>1. /\ Ends(c) /\ named' = [p \in Paths |-> IF p \in PartNumbers THEN NoFile ELSE named[p]]
      /\ UNCHANGED <<written, promised, crossed, spoiled>>
  BY DEF AbortUpload
<1>2. /\ named' \in [Paths -> Files \cup {NoFile}]
      /\ \A p \in Paths : named'[p] \in {named[p], NoFile}
      /\ \A k \in ObjectKeys : named'[k] = named[k]
  BY <1>0, <1>1, LocalConstants DEF LocalTypes
<1> QED BY <1>0, <1>1, <1>2, EndsNames DEF LocalTypes

LEMMA TransferFailsNames ==
    ASSUME NamesInv, NEW c \in StoreCalls, TransferFails(c) PROVE NamesInv'
<1>0. /\ LocalTypes /\ PromiseKept /\ CallShape(call[c]) /\ call[c] \in StoreCall
      /\ call[c].at = "transfer" /\ Ends(c) /\ UNCHANGED <<written, promised>>
      /\ spoiled' = spoiled \cup {call[c].dst}
  BY DEF NamesInv, LocalTypes, TransferFails
<1>1. spoiled' \subseteq Files /\ call[c].dst # NoFile
  BY <1>0 DEF LocalTypes, CallShape, StoreCall
<1>2. CASE call[c].op = "download"
  <2>1. UNCHANGED <<named, crossed>>
    BY <1>2 DEF TransferFails
  <2> QED BY <1>0, <1>1, <2>1, EndsNames DEF LocalTypes
<1>3. CASE call[c].op # "download"
  <2> DEFINE p == call[c].to
  <2>1. /\ p \in Paths /\ named' = [named EXCEPT ![p] = NoFile]
        /\ crossed' = crossed \cup (Changers(p) \ {c})
    BY <1>0, <1>3, LocalConstants DEF TransferFails, CallShape, StoreCall
  <2>2. Changers(p) = {d \in StoreCalls : Alters(call[d], p)} /\ Alters(call[c], p)
    BY <1>0, <1>1, ChangersAlter DEF Alters, Runs
  <2> HIDE DEF p
  <2>3. /\ named' \in [Paths -> Files \cup {NoFile}]
        /\ \A q \in Paths : named'[q] = IF q = p THEN NoFile ELSE named[q]
    BY <1>0, <2>1 DEF LocalTypes
  <2>4. \A k \in ObjectKeys : promised'[k] # NotPromised => k # p
    BY <1>0, <2>2 DEF PromiseKept
  <2>5. crossed' \subseteq StoreCalls /\ crossed \subseteq crossed'
        /\ DOMAIN promised' = ObjectKeys
    BY <1>0, <2>1, <2>2 DEF LocalTypes
  <2> QED BY <1>0, <1>1, <2>1, <2>2, <2>3, <2>4, <2>5, LocalConstants, EndsNames
<1> QED BY <1>2, <1>3

LEMMA MoveUnlinksNames ==
    ASSUME NamesInv, NEW c \in StoreCalls, MoveUnlinks(c) PROVE NamesInv'
<1> DEFINE p == call[c].from
<1>0. /\ LocalTypes /\ PromiseKept /\ Ends(c) /\ UNCHANGED <<written, promised, spoiled>>
      /\ p \in ObjectKeys /\ p \in Paths /\ Alters(call[c], p)
      /\ named' = [named EXCEPT ![p] = NoFile]
      /\ crossed' = crossed \cup (Changers(p) \ {c})
  BY LocalConstants DEF NamesInv, LocalTypes, MoveUnlinks, CallShape, Alters, Runs
<1>1. Changers(p) = {d \in StoreCalls : Alters(call[d], p)}
  BY <1>0, ChangersAlter
<1> HIDE DEF p
<1>2. /\ named' \in [Paths -> Files \cup {NoFile}]
      /\ \A q \in Paths : named'[q] = IF q = p THEN NoFile ELSE named[q]
  BY <1>0 DEF LocalTypes
<1>3. \A k \in ObjectKeys : promised'[k] # NotPromised => k # p
  BY <1>0 DEF PromiseKept
<1>4. /\ crossed' \subseteq StoreCalls /\ crossed \subseteq crossed' /\ spoiled' \subseteq Files
      /\ DOMAIN promised' = ObjectKeys
  BY <1>0, <1>1 DEF LocalTypes
<1> QED BY <1>0, <1>1, <1>2, <1>3, <1>4, LocalConstants, EndsNames

LEMMA CrashNames ==
    ASSUME NamesInv, StorageCrash PROVE NamesInv'
<1>0. /\ LocalTypes /\ OneName /\ PromiseKept
      /\ call' = [c \in StoreCalls |-> IF Running(c) THEN EndedCall ELSE call[c]]
      /\ UNCHANGED <<named, written, promised, crossed>>
      /\ \A c \in StoreCalls : Running(c) <=> Runs(call[c])
  BY ChangersAlter DEF NamesInv, StorageCrash, EndedCall
<1>1. EndedCall \in StoreCall /\ CallShape(EndedCall) /\ EndedCall.at = "ended"
  BY WaitingType DEF EndedCall, Waiting
<1> HIDE DEF EndedCall
<1>2. \A c \in StoreCalls : call'[c] = IF Runs(call[c]) THEN EndedCall ELSE call[c]
  BY <1>0
<1>3. \A c \in StoreCalls : ~Runs(call'[c]) /\ \A k : ~Alters(call'[c], k)
  BY <1>1, <1>2 DEF Runs, Alters
<1>4. spoiled' \subseteq Files
  <2>1. \A c \in StoreCalls : call[c].dst \in Files \cup {NoFile}
    BY <1>0 DEF LocalTypes, StoreCall
  <2> QED BY <1>0, <2>1 DEF StorageCrash, LocalTypes
<1>5. LocalTypes'
  BY <1>0, <1>1, <1>2, <1>4 DEF LocalTypes
<1>6. \A c \in StoreCalls : /\ Fresh(call'[c]) => Fresh(call[c])
                            /\ Private(call'[c]) => Private(call[c]) /\ call'[c] = call[c]
  BY <1>1, <1>2 DEF Fresh, Private
<1>7. OneName'
  BY <1>0, <1>3, <1>6 DEF OneName
<1>8. WritesItsPath' /\ UncrossedAlone' /\ PromiseKept'
  <2>1. \A c \in StoreCalls : call'[c].at # "transfer"
    BY <1>3 DEF Runs
  <2> QED BY <1>0, <1>3, <2>1 DEF WritesItsPath, UncrossedAlone, PromiseKept
<1> QED BY <1>5, <1>7, <1>8 DEF NamesInv

\* What is written where: a chunk goes to what the call writes.
LEMMA WrittenAt ==
    ASSUME LocalTypes, NEW c \in StoreCalls, NEW s,
           written' = [written EXCEPT ![call[c].dst] = s]
    PROVE  /\ written' = [f \in Files |-> written'[f]]
           /\ \A f \in Files : written'[f] # written[f] => f = call[c].dst
           /\ call[c].dst \in Files => written'[call[c].dst] = s
BY DEF LocalTypes

LEMMA WriteChunkNames ==
    ASSUME NamesInv, NEW c \in StoreCalls, WriteChunk(c) PROVE NamesInv'
<1> DEFINE o == [call[c] EXCEPT !.wroteTo = call[c].wroteTo + 1]
<1>0. /\ LocalTypes /\ call[c] \in StoreCall /\ CallShape(call[c]) /\ call[c].at = "transfer"
      /\ UNCHANGED <<named, promised, crossed>>
      /\ spoiled' = spoiled \cup HalfRead(call[c].dst)
      /\ call[c].op \in {"upload", "part"}
  BY DEF NamesInv, LocalTypes, WriteChunk
<1>1. call' = [call EXCEPT ![c] = o]
  BY <1>0 DEF WriteChunk, LocalTypes
<1>2. /\ o \in StoreCall /\ o.at = "transfer" /\ o.op = call[c].op /\ o.to = call[c].to
      /\ o.dst = call[c].dst /\ o.from = call[c].from /\ o.src = call[c].src
  BY <1>0 DEF StoreCall
<1> HIDE DEF o
<1>3. CallShape(o)
  BY <1>0, <1>2 DEF CallShape
<1>4. spoiled' \subseteq Files
  BY <1>0 DEF HalfRead, LocalTypes, StoreCall
<1>5. /\ written' = [f \in Files |-> written'[f]]
      /\ \A f \in Files : written'[f] # written[f] => f = call[c].dst
  BY <1>0, WrittenAt DEF WriteChunk
<1> QED BY <1>0, <1>1, <1>2, <1>3, <1>4, <1>5, TransferNames

LEMMA CopyChunkNames ==
    ASSUME NamesInv, NEW c \in StoreCalls, CopyChunk(c) PROVE NamesInv'
<1> DEFINE o == [call[c] EXCEPT !.wroteTo = call[c].wroteTo + 1, !.readTo = call[c].readTo + 1]
<1>0. /\ LocalTypes /\ call[c] \in StoreCall /\ CallShape(call[c]) /\ call[c].at = "transfer"
      /\ UNCHANGED <<named, promised, crossed>>
      /\ spoiled' = spoiled \cup ReadSpoils(c) \cup HalfRead(call[c].dst)
  BY DEF NamesInv, LocalTypes, CopyChunk
<1>1. call' = [call EXCEPT ![c] = o]
  BY <1>0 DEF CopyChunk, LocalTypes
<1>2. /\ o \in StoreCall /\ o.at = "transfer" /\ o.op = call[c].op /\ o.to = call[c].to
      /\ o.dst = call[c].dst /\ o.from = call[c].from /\ o.src = call[c].src
      /\ o.readTo = call[c].readTo + 1 /\ o.wroteTo = call[c].wroteTo + 1
  <2>1. call[c].wroteTo + 1 \in Nat /\ call[c].readTo + 1 \in Nat
    BY <1>0 DEF StoreCall
  <2> QED BY <1>0, <2>1 DEF StoreCall
<1> HIDE DEF o
<1>3. CallShape(o)
  BY <1>0, <1>2 DEF CallShape
<1>4. spoiled' \subseteq Files
  BY <1>0 DEF HalfRead, ReadSpoils, LocalTypes, StoreCall, CallShape
<1>5. /\ written' = [f \in Files |-> written'[f]]
      /\ \A f \in Files : written'[f] # written[f] => f = call[c].dst
  BY <1>0, WrittenAt DEF CopyChunk
<1> QED BY <1>0, <1>1, <1>2, <1>3, <1>4, <1>5, TransferNames

LEMMA OpenPartNames ==
    ASSUME NamesInv, NEW c \in StoreCalls, OpenPart(c) PROVE NamesInv'
<1>1. PICK n \in NextParts(c) :
        /\ named[n] # NoFile
        /\ call' = [call EXCEPT ![c].from = n, ![c].src = named[n], ![c].readTo = 0]
  BY DEF OpenPart
<1> DEFINE o == [call[c] EXCEPT !.from = n, !.src = named[n], !.readTo = 0]
<1>0. /\ LocalTypes /\ call[c] \in StoreCall /\ CallShape(call[c]) /\ call[c].at = "transfer"
      /\ UNCHANGED <<named, written, promised, crossed>>
      /\ spoiled' = IF call[c].src = NoFile THEN spoiled ELSE spoiled \cup ReadSpoils(c)
  BY DEF NamesInv, LocalTypes, OpenPart
<1>2. n \in PartNumbers /\ n \in Paths /\ call[c].op = "complete"
  BY <1>1, LocalConstants DEF NextParts
<1>3. call' = [call EXCEPT ![c] = o]
  BY <1>0, <1>1 DEF LocalTypes
<1>4. /\ o \in StoreCall /\ o.at = "transfer" /\ o.op = call[c].op /\ o.to = call[c].to
      /\ o.dst = call[c].dst /\ o.from = n /\ o.src = named[n]
  BY <1>0, <1>2 DEF StoreCall, LocalTypes
<1> HIDE DEF o
<1>5. CallShape(o)
  BY <1>0, <1>2, <1>4 DEF CallShape
<1>6. spoiled' \subseteq Files
  BY <1>0 DEF ReadSpoils, LocalTypes, StoreCall, CallShape
<1>7. written' = [f \in Files |-> written'[f]]
  BY <1>0 DEF LocalTypes
<1> QED BY <1>0, <1>2, <1>3, <1>4, <1>5, <1>6, <1>7, TransferNames

LEMMA FinishNames ==
    ASSUME NamesInv, NEW c \in StoreCalls, FinishObject(c) PROVE NamesInv'
<1>0. /\ LocalTypes /\ PromiseKept /\ call[c] \in StoreCall /\ CallShape(call[c])
      /\ call[c].at = "transfer" /\ UNCHANGED <<written, crossed>>
      /\ call[c].dst # NoFile /\ Runs(call[c])
  BY DEF NamesInv, LocalTypes, FinishObject, CallShape, Runs
<1>1. spoiled' \subseteq Files
  BY <1>0 DEF FinishObject, ReadSpoils, LocalTypes, StoreCall, CallShape
<1>2. /\ named' \in [Paths -> Files \cup {NoFile}]
      /\ \A p \in Paths : named'[p] \in {named[p], NoFile}
      /\ \A k \in ObjectKeys : named'[k] = named[k]
      /\ call[c].op # "complete" => named' = named
  BY <1>0, LocalConstants DEF FinishObject, LocalTypes
<1>3. /\ DOMAIN promised' = ObjectKeys
      /\ \A k \in ObjectKeys : promised'[k] # promised[k] =>
            /\ c \notin crossed /\ call[c].to = k /\ call[c].from # k
            /\ promised'[k] = written[call[c].dst]
  BY <1>0 DEF FinishObject, LocalTypes
<1>4. CASE call[c].op = "download"
  <2> DEFINE o == [Waiting EXCEPT !.at = "delivered"]
  <2>1. /\ call' = [call EXCEPT ![c] = o] /\ o \in StoreCall /\ CallShape(o)
        /\ o.at = "delivered" /\ call[c].to = NoFile
    BY <1>0, <1>4, WaitingType DEF FinishObject, CallShape, Waiting
  <2> HIDE DEF o
  <2>2. ~Fresh(o) /\ ~Runs(o) /\ \A k : ~Alters(o, k)
    BY <2>1 DEF Fresh, Runs, Alters
  <2>3. CallGoesOn(c, o)
    BY <1>0, <1>1, <1>2, <1>3, <2>1, <2>2 DEF CallGoesOn, LocalTypes
  <2>4. NamesOnly(c, o)
    BY <1>0, <1>2, <2>2 DEF NamesOnly
  <2>5. CrossesOthers(c, o)
    BY <1>0, <1>2, <2>1, <2>2 DEF CrossesOthers
  <2>6. PromisesOnly(c, o)
    BY <1>0, <1>2, <1>3, <2>2 DEF PromisesOnly
  <2> QED BY <2>3, <2>4, <2>5, <2>6, NamesStep
<1>5. CASE call[c].op = "move" /\ Acknowledged(c)
  <2> DEFINE o == [call[c] EXCEPT !.at = "unlink", !.src = NoFile, !.dst = NoFile]
  <2>1. call' = [call EXCEPT ![c] = o]
    BY <1>0, <1>5 DEF FinishObject, LocalTypes
  <2>2. /\ o \in StoreCall /\ o.at = "unlink" /\ o.src = NoFile /\ o.dst = NoFile
        /\ o.op = "move" /\ o.from = call[c].from
        /\ o.readTo = call[c].readTo /\ o.wroteTo = call[c].wroteTo
    BY <1>0, <1>5 DEF StoreCall, Keeps
  <2> HIDE DEF o
  <2>3. CallShape(o) /\ ~Fresh(o)
    BY <1>0, <1>5, <2>2 DEF CallShape, Fresh
  <2>4. \A k \in ObjectKeys : Alters(o, k) => call[c].from = k /\ Alters(call[c], k)
    BY <1>0, <1>5, <2>2, LocalConstants DEF Alters, Runs
  <2>5. CallGoesOn(c, o)
    BY <1>0, <1>1, <1>2, <1>3, <2>1, <2>2, <2>3 DEF CallGoesOn, LocalTypes
  <2>6. NamesOnly(c, o)
    BY <1>0, <1>2, <2>2, <2>3 DEF NamesOnly
  <2>7. CrossesOthers(c, o)
    BY <1>0, <1>2, <2>2, <2>4 DEF CrossesOthers
  <2>8. PromisesOnly(c, o)
    BY <1>0, <1>2, <1>3, <2>4 DEF PromisesOnly, PromiseKept
  <2> QED BY <2>5, <2>6, <2>7, <2>8, NamesStep
<1>6. CASE call[c].op # "download" /\ ~(call[c].op = "move" /\ Acknowledged(c))
  <2>1. Ends(c)
    BY <1>0, <1>6 DEF FinishObject, Ends
  <2>2. crossed' \subseteq StoreCalls /\ crossed \subseteq crossed' /\ UNCHANGED written
    BY <1>0 DEF LocalTypes
  <2>3. \A k \in ObjectKeys : promised'[k] # NotPromised =>
          /\ named'[k] = named[k]
          /\ \/ promised'[k] = promised[k]
             \/ /\ c \notin crossed /\ call[c].at = "transfer" /\ call[c].to = k
                /\ promised'[k] = written[call[c].dst]
    BY <1>0, <1>2, <1>3
  <2> QED BY <1>1, <1>2, <1>3, <2>1, <2>2, <2>3, EndsNames
<1> QED BY <1>4, <1>5, <1>6

LEMMA StorageStep_Names == NamesInv /\ [StorageNext]_storageVars => NamesInv'
<1> SUFFICES ASSUME NamesInv, [StorageNext]_storageVars PROVE NamesInv'
  OBVIOUS
<1>1. ASSUME NEW c \in StoreCalls, NEW k \in ObjectKeys, NEW over \in BOOLEAN,
             UploadObject(c, k, over)
      PROVE  NamesInv'
  BY <1>1, ArrivingNames, RefusedNames, LocalConstants DEF UploadObject
<1>2. ASSUME NEW c \in StoreCalls, NEW k \in ObjectKeys, CompleteUpload(c, k) PROVE NamesInv'
  BY <1>2, ArrivingNames, LocalConstants DEF CompleteUpload, MayCreate
<1>3. ASSUME NEW c \in StoreCalls, NEW n \in PartNumbers, UploadPart(c, n) PROVE NamesInv'
  BY <1>3, ArrivingNames, LocalConstants DEF UploadPart, MayCreate
<1>4. CASE UNCHANGED storageVars
  BY <1>4 DEF storageVars, NamesInv, LocalTypes, OneName, WritesItsPath, UncrossedAlone,
              PromiseKept
<1> QED
  BY <1>1, <1>2, <1>3, <1>4, CopyNames, DownloadNames, DeleteNames, AbortUploadNames,
     CopyTargetNames, WriteChunkNames, CopyChunkNames, OpenPartNames, TransferFailsNames,
     FinishNames, MoveUnlinksNames, CrashNames DEF StorageNext

\* What was acknowledged stays as it was until a later call sets out to change that
\* key (storage/local): a call that met nobody is alone with the file it names.
THEOREM LocalObjectsStay == StorageSpec => []AcknowledgedObjectKept
<1>1. NamesInv => AcknowledgedObjectKept
  BY DEF NamesInv, PromiseKept, AcknowledgedObjectKept
<1> QED
  BY <1>1, StorageInit_Names, StorageStep_Names, PTL DEF StorageSpec

-----------------------------------------------------------------------------
(* The local store: what is in the files *)

\* The first n chunks are whole bodies.
Whole(s, n) ==
    /\ n <= Len(s) /\ n % ObjectChunks = 0
    /\ \A i \in 1..n :
          /\ s[i] = [of |-> s[i].of, at |-> ((i - 1) % ObjectChunks) + 1]
          /\ i % ObjectChunks # 0 => s[i + 1].of = s[i].of

WritesTo(o, f) == Runs(o) /\ o.dst = f
Unwritten(f) == \A c \in StoreCalls : ~WritesTo(call[c], f)

\* What a path names, a call reads or a download has delivered.
Opened(f) ==
    \/ \E p \in Paths : named[p] = f
    \/ \E c \in StoreCalls : Runs(call[c]) /\ call[c].src = f
    \/ \E c \in StoreCalls : call[c].at = "delivered" /\ c = f

\* A file that is written without a flaw has the chunks of its call so far: those
\* of its body, or whole bodies and then the beginning of what is being read, which
\* nobody has touched since.
BodySoFar(c) ==
    /\ Len(written[call[c].dst]) = call[c].wroteTo
    /\ call[c].op \in {"upload", "part"} =>
          /\ call[c].wroteTo <= ObjectChunks
          /\ \A i \in 1..call[c].wroteTo : written[call[c].dst][i] = [of |-> c, at |-> i]
    /\ call[c].op \notin {"upload", "part"} =>
          /\ call[c].readTo <= call[c].wroteTo
          /\ Whole(written[call[c].dst], call[c].wroteTo - call[c].readTo)
          /\ call[c].src = NoFile => call[c].wroteTo = 0
ReadSoFar(c) ==
    call[c].readTo > 0 =>
        /\ call[c].src \in Files \ spoiled /\ Unwritten(call[c].src)
        /\ call[c].readTo <= Len(written[call[c].src])
        /\ \A i \in 1..call[c].readTo :
             written[call[c].dst][call[c].wroteTo - call[c].readTo + i] = written[call[c].src][i]

WrittenSoFar ==
    \A c \in StoreCalls : call[c].at = "transfer" /\ call[c].dst \notin spoiled =>
        BodySoFar(c) /\ ReadSoFar(c)
OneWriter ==
    \A c, d \in StoreCalls, f \in Files \ spoiled :
        WritesTo(call[c], f) /\ WritesTo(call[d], f) => c = d
OpenedWhole ==
    \A f \in Files \ spoiled : Opened(f) /\ Unwritten(f) => IsWhole(written[f])
FreshEmpty == \A c \in StoreCalls : Fresh(call[c]) => written[c] = <<>>

ContentInv ==
    /\ written \in [Files -> Seq(Chunk)]
    /\ WrittenSoFar /\ OneWriter /\ OpenedWhole /\ FreshEmpty

-----------------------------------------------------------------------------
LEMMA ChunksPositive == ObjectChunks \in Nat \ {0}
BY LocalStorageAssumption

LEMMA ModRange ==
    ASSUME NEW N \in Nat \ {0}, NEW b \in Nat
    PROVE  b % N \in 0..(N-1) /\ b = N * (b \div N) + (b % N) /\ b \div N \in Nat
OBVIOUS

LEMMA ModSmall ==
    ASSUME NEW N \in Nat \ {0}, NEW b \in 0..(N-1) PROVE b % N = b
OBVIOUS

\* Whole bodies in front change no place within a body.
LEMMA ModAdd ==
    ASSUME NEW N \in Nat \ {0}, NEW a \in Nat, NEW b \in Nat, a % N = 0
    PROVE  (a + b) % N = b % N
<1>1. a = N * (a \div N) /\ a \div N \in Nat
  BY ModRange
<1>2. b = N * (b \div N) + (b % N) /\ b \div N \in Nat /\ b % N \in 0..(N-1)
  BY ModRange
<1> DEFINE q == (a \div N) + (b \div N)
           r == b % N
           x == a + b
<1>3. N * q = N * (a \div N) + N * (b \div N)
  BY <1>1, <1>2
<1>4. q \in Int /\ x = N * q + r /\ x \in Int /\ r \in 0..(N-1)
  BY <1>1, <1>2, <1>3
<1>5. x % N = r
  <2> HIDE DEF q, r, x
  <2> QED BY <1>4
<1> QED BY <1>5

LEMMA WholeIsWhole ==
    ASSUME NEW s \in Seq(Chunk)
    PROVE  IsWhole(s) <=> s # <<>> /\ Whole(s, Len(s))
<1>1. ASSUME NEW i \in 1..Len(s)
      PROVE  BodyOf(s[i].of)[((i - 1) % ObjectChunks) + 1]
               = [of |-> s[i].of, at |-> ((i - 1) % ObjectChunks) + 1]
  <2>1. (i - 1) % ObjectChunks \in 0..(ObjectChunks - 1)
    <3>1. i - 1 \in Nat
      OBVIOUS
    <3> QED BY <3>1, ChunksPositive, ModRange
  <2>2. ((i - 1) % ObjectChunks) + 1 \in 1..ObjectChunks
    BY <2>1, ChunksPositive
  <2> QED BY <2>2 DEF BodyOf
<1>2. Len(s) \in Nat /\ Len(s) <= Len(s)
  OBVIOUS
<1>3. ASSUME IsWhole(s) PROVE s # <<>> /\ Whole(s, Len(s))
  BY <1>1, <1>2, <1>3 DEF IsWhole, Whole
<1>4. ASSUME s # <<>>, Whole(s, Len(s)) PROVE IsWhole(s)
  BY <1>1, <1>4 DEF IsWhole, Whole
<1> QED BY <1>3, <1>4

LEMMA BodyIsWhole ==
    ASSUME NEW f \in Files, NEW s \in Seq(Chunk), Len(s) = ObjectChunks,
           \A i \in 1..ObjectChunks : s[i] = [of |-> f, at |-> i]
    PROVE  IsWhole(s)
<1>1. ObjectChunks % ObjectChunks = 0 /\ s # <<>>
  BY ChunksPositive
<1>2. ASSUME NEW i \in 1..ObjectChunks
      PROVE  (i - 1) % ObjectChunks = i - 1 /\ (i % ObjectChunks # 0 => i + 1 \in 1..ObjectChunks)
  <2>1. i - 1 \in 0..(ObjectChunks - 1)
    BY ChunksPositive
  <2>2. (i - 1) % ObjectChunks = i - 1
    BY <2>1, ChunksPositive, ModSmall
  <2>3. i % ObjectChunks # 0 => i # ObjectChunks
    BY <1>1
  <2> QED BY <2>2, <2>3, ChunksPositive
<1>3. ASSUME NEW i \in 1..Len(s)
      PROVE  /\ s[i] = [of |-> s[i].of, at |-> ((i - 1) % ObjectChunks) + 1]
             /\ i % ObjectChunks # 0 => s[i + 1].of = s[i].of
  <2>1. s[i] = [of |-> f, at |-> i] /\ (i - 1) % ObjectChunks = i - 1
    BY <1>2
  <2>2. s[i].of = f /\ (i - 1) + 1 = i
    BY <2>1
  <2>3. ASSUME i % ObjectChunks # 0 PROVE s[i + 1].of = f
    <3>1. s[i + 1] = [of |-> f, at |-> i + 1]
      BY <1>2, <2>3
    <3> QED BY <3>1
  <2> QED BY <2>1, <2>2, <2>3
<1>4. Len(s) <= Len(s) /\ Len(s) % ObjectChunks = 0
  BY <1>1, ChunksPositive
<1>5. Whole(s, Len(s))
  BY <1>3, <1>4, Zenon DEF Whole
<1> QED BY <1>1, <1>5, WholeIsWhole

LEMMA WholeLength ==
    ASSUME NEW s, NEW n, Whole(s, n)
    PROVE  n % ObjectChunks = 0
BY Zenon DEF Whole

\* A whole file read to its end behind whole bodies.
LEMMA WholeAppended ==
    ASSUME NEW t \in Seq(Chunk), NEW s \in Seq(Chunk), NEW b \in Nat, Whole(t, b), IsWhole(s),
           Len(t) = b + Len(s), \A i \in 1..Len(s) : t[b + i] = s[i]
    PROVE  Whole(t, Len(t)) /\ IsWhole(t)
<1> DEFINE N == ObjectChunks
<1>0. N \in Nat \ {0} /\ Len(s) \in Nat /\ Len(t) \in Nat /\ s # <<>> /\ Whole(s, Len(s))
  BY ChunksPositive, WholeIsWhole
<1>1. b % N = 0 /\ Len(s) % N = 0
  <2>1. b % N = 0
    BY WholeLength
  <2>2. Len(s) % N = 0
    BY <1>0, WholeLength
  <2> QED BY <2>1, <2>2
<1>2. Len(t) % N = 0
  <2>1. (b + Len(s)) % N = Len(s) % N
    BY <1>0, <1>1, ModAdd
  <2> QED BY <1>1, <2>1
<1>3. ASSUME NEW i \in 1..Len(t)
      PROVE  /\ t[i] = [of |-> t[i].of, at |-> ((i - 1) % N) + 1]
             /\ i % N # 0 => t[i + 1].of = t[i].of
  <2>1. CASE i \in 1..b
    BY <2>1 DEF Whole
  <2>2. CASE i \notin 1..b
    <3> DEFINE j == i - b
    <3>1. j \in 1..Len(s) /\ i = b + j /\ j - 1 \in Nat /\ i - 1 = b + (j - 1)
      BY <1>0, <2>2
    <3>2. (i - 1) % N = (j - 1) % N /\ i % N = j % N
      <4>1. (b + (j - 1)) % N = (j - 1) % N
        BY <1>0, <1>1, <3>1, ModAdd
      <4>2. j \in Nat
        BY <1>0, <3>1
      <4>3. (b + j) % N = j % N
        BY <1>0, <1>1, <4>2, ModAdd
      <4> QED BY <3>1, <4>1, <4>3
    <3>3. /\ s[j] = [of |-> s[j].of, at |-> ((j - 1) % N) + 1]
          /\ j % N # 0 => s[j + 1].of = s[j].of
      BY <1>0, <3>1 DEF Whole
    <3>4. j % N # 0 => j + 1 \in 1..Len(s)
      BY <1>0, <1>1, <3>1
    <3>5. t[i] = s[j] /\ (j % N # 0 => t[i + 1] = s[j + 1])
      BY <1>0, <3>1, <3>4
    <3> QED BY <3>2, <3>3, <3>5
  <2> QED BY <2>1, <2>2
<1>4. Whole(t, Len(t))
  BY <1>0, <1>2, <1>3 DEF Whole
<1>5. t # <<>>
  BY <1>0
<1> QED BY <1>4, <1>5, WholeIsWhole

\* What PutAt makes of a sequence that ends where it puts.
LEMMA PutAtEnd ==
    ASSUME NEW s \in Seq(Chunk), NEW chunk \in Chunk, NEW n \in Nat
    PROVE  /\ PutAt(s, n, chunk) \in Seq(Chunk)
           /\ Len(s) = n => /\ Len(PutAt(s, n, chunk)) = n + 1
                            /\ PutAt(s, n, chunk)[n + 1] = chunk
                            /\ \A i \in 1..n : PutAt(s, n, chunk)[i] = s[i]
<1> DEFINE m == IF Len(s) > n THEN Len(s) ELSE n + 1
           t == PutAt(s, n, chunk)
<1>1. m \in Nat /\ n + 1 \in 1..m /\ Len(s) \in Nat
  OBVIOUS
<1>2. t = [i \in 1..m |-> IF i = n + 1 THEN chunk ELSE IF i <= Len(s) THEN s[i] ELSE Hole]
  BY DEF PutAt
<1>3. \A i \in 1..m : (IF i = n + 1 THEN chunk ELSE IF i <= Len(s) THEN s[i] ELSE Hole) \in Chunk
  BY <1>1 DEF Chunk
<1>4. t \in [1..m -> Chunk]
  BY <1>2, <1>3
<1>5. t \in Seq(Chunk) /\ Len(t) = m
  BY <1>1, <1>4
<1>6. Len(s) = n => m = n + 1
  OBVIOUS
<1>7. t[n + 1] = chunk /\ \A i \in 1..m : i # n + 1 /\ i <= Len(s) => t[i] = s[i]
  BY <1>1, <1>2
<1> HIDE DEF t, m
<1> QED BY <1>1, <1>5, <1>6, <1>7 DEF t

\* One call goes on, as o: it writes where it writes, spoils what is being written,
\* takes up a file that it then has for itself or spoils, and leaves it whole.
WritesOnly(c, o) ==
    \A f \in Files : written'[f] # written[f] => WritesTo(o, f)
SpoilsOnly(c, o) ==
    /\ \A f \in spoiled \ spoiled' : WritesTo(o, f) /\ ~WritesTo(call[c], f)
    /\ \A f \in spoiled' \ spoiled : WritesTo(o, f) \/ ~Unwritten(f)
TakesUp(c, o) ==
    \A f \in Files : WritesTo(o, f) /\ ~WritesTo(call[c], f) =>
        \A d \in StoreCalls \ {c} :
            /\ WritesTo(call[d], f) => f \in spoiled'
            /\ call[d].at = "transfer" /\ call[d].src = f /\ call[d].readTo > 0 =>
                  call[d].dst \in spoiled'
LetsGo(c, o) ==
    \A f \in Files : WritesTo(call[c], f) /\ ~WritesTo(o, f) =>
        f \in spoiled' \/ IsWhole(written'[f])
OpensOnly(c, o) ==
    \A f \in Files : Opened(f)' => Opened(f) \/ WritesTo(o, f) \/ WritesTo(call[c], f)

LEMMA ContentStep ==
    ASSUME NamesInv, NamesInv', ContentInv, NEW c \in StoreCalls, NEW o,
           call' = [call EXCEPT ![c] = o], Fresh(o) => Fresh(call[c]),
           written' \in [Files -> Seq(Chunk)],
           WritesOnly(c, o), SpoilsOnly(c, o), TakesUp(c, o), LetsGo(c, o), OpensOnly(c, o),
           o.at = "transfer" /\ o.dst \notin spoiled' => BodySoFar(c)' /\ ReadSoFar(c)'
    PROVE  ContentInv'
<1>0. /\ LocalTypes /\ LocalTypes' /\ OneName' /\ WrittenSoFar /\ OneWriter /\ OpenedWhole
      /\ FreshEmpty
  BY DEF NamesInv, ContentInv
<1>1. call'[c] = o /\ \A d \in StoreCalls \ {c} : call'[d] = call[d]
  BY <1>0 DEF LocalTypes
<1>2. ASSUME NEW d \in StoreCalls \ {c}, NEW f \in Files \ spoiled', WritesTo(call[d], f)
      PROVE  ~WritesTo(o, f) /\ f \notin spoiled /\ written'[f] = written[f]
  <2>1. CASE WritesTo(o, f)
    <3>1. WritesTo(call[c], f)
      BY <1>2, <2>1 DEF TakesUp
    <3>2. f \in spoiled
      BY <1>0, <1>2, <3>1 DEF OneWriter
    <3> QED BY <3>1, <3>2 DEF SpoilsOnly
  <2>2. CASE ~WritesTo(o, f)
    BY <2>2 DEF SpoilsOnly, WritesOnly
  <2> QED BY <2>1, <2>2
<1>3. WrittenSoFar'
  <2> SUFFICES ASSUME NEW d \in StoreCalls, call'[d].at = "transfer", call'[d].dst \notin spoiled'
               PROVE  BodySoFar(d)' /\ ReadSoFar(d)'
    BY DEF WrittenSoFar
  <2>1. CASE d = c
    BY <1>1, <2>1
  <2>2. CASE d # c
    <3>1. /\ call'[d] = call[d] /\ call[d].at = "transfer" /\ call[d].dst \in Files \ spoiled'
          /\ WritesTo(call[d], call[d].dst)
      BY <1>0, <1>1, <2>2 DEF LocalTypes, CallShape, StoreCall, WritesTo, Runs
    <3>2. call[d].dst \notin spoiled /\ written'[call[d].dst] = written[call[d].dst]
      BY <1>2, <2>2, <3>1
    <3>3. BodySoFar(d) /\ ReadSoFar(d)
      BY <1>0, <3>1, <3>2 DEF WrittenSoFar
    <3>4. BodySoFar(d)'
      BY <3>1, <3>2, <3>3 DEF BodySoFar
    <3>5. ReadSoFar(d)'
      <4> SUFFICES ASSUME call[d].readTo > 0
                   PROVE  /\ call[d].src \in Files \ spoiled'
                          /\ \A e \in StoreCalls : ~WritesTo(call'[e], call[d].src)
                          /\ written'[call[d].src] = written[call[d].src]
        BY <3>1, <3>2, <3>3 DEF ReadSoFar, Unwritten
      <4>0. PICK f \in Files \ spoiled : f = call[d].src /\ Unwritten(f)
        BY <3>3 DEF ReadSoFar
      <4>1. f \in Files \ spoiled /\ Unwritten(f)
        BY <4>0
      <4>2. ~WritesTo(o, f)
        BY <2>2, <3>1, <4>0 DEF TakesUp, Unwritten
      <4>3. f \notin spoiled' /\ written'[f] = written[f]
        BY <4>1, <4>2 DEF SpoilsOnly, WritesOnly
      <4>4. \A e \in StoreCalls : ~WritesTo(call'[e], f)
        BY <1>1, <4>1, <4>2 DEF Unwritten
      <4> QED BY <4>0, <4>3, <4>4
    <3> QED BY <3>4, <3>5
  <2> QED BY <2>1, <2>2
<1>4. OneWriter'
  <2> SUFFICES ASSUME NEW d \in StoreCalls, NEW e \in StoreCalls, NEW f \in Files \ spoiled',
                      WritesTo(call'[d], f), WritesTo(call'[e], f), d # e
               PROVE  FALSE
    BY DEF OneWriter
  <2>1. CASE d # c /\ e # c
    BY <1>0, <1>1, <1>2, <2>1 DEF OneWriter
  <2>2. CASE d = c \/ e = c
    BY <1>1, <1>2, <2>2
  <2> QED BY <2>1, <2>2
<1>5. OpenedWhole'
  <2> SUFFICES ASSUME NEW f \in Files \ spoiled', Opened(f)', Unwritten(f)'
               PROVE  IsWhole(written'[f])
    BY DEF OpenedWhole
  <2>1. ~WritesTo(o, f) /\ \A d \in StoreCalls \ {c} : ~WritesTo(call[d], f)
    BY <1>1 DEF Unwritten
  <2>2. CASE WritesTo(call[c], f)
    BY <2>1, <2>2 DEF LetsGo
  <2>3. CASE ~WritesTo(call[c], f)
    <3>1. Unwritten(f) /\ Opened(f) /\ f \notin spoiled /\ written'[f] = written[f]
      BY <2>1, <2>3 DEF Unwritten, OpensOnly, SpoilsOnly, WritesOnly
    <3> QED BY <1>0, <3>1 DEF OpenedWhole
  <2> QED BY <2>2, <2>3
<1>6. FreshEmpty'
  <2> SUFFICES ASSUME NEW d \in StoreCalls, Fresh(call'[d]) PROVE written'[d] = <<>>
    BY DEF FreshEmpty
  <2>1. Fresh(call[d]) /\ d \in Files
    BY <1>1, LocalConstants
  <2>2. ~WritesTo(o, d)
    BY <1>0, <1>1 DEF OneName, WritesTo
  <2> QED BY <1>0, <2>1, <2>2 DEF FreshEmpty, WritesOnly
<1> QED BY <1>3, <1>4, <1>5, <1>6 DEF ContentInv

LEMMA StorageInit_Content == StorageInit => ContentInv
<1> SUFFICES ASSUME StorageInit PROVE ContentInv
  OBVIOUS
<1>1. PICK present \in SUBSET Paths :
        /\ named = [p \in Paths |-> IF p \in present THEN p ELSE NoFile]
        /\ written = [f \in Files |-> IF f \in present THEN BodyOf(f) ELSE <<>>]
  BY DEF StorageInit
<1>2. \A c \in StoreCalls : call[c].at = "waiting"
  BY DEF StorageInit, Waiting
<1>3. ASSUME NEW f \in Files
      PROVE  /\ BodyOf(f) \in Seq(Chunk) /\ Len(BodyOf(f)) = ObjectChunks
             /\ \A i \in 1..ObjectChunks : BodyOf(f)[i] = [of |-> f, at |-> i]
  <2>1. BodyOf(f) \in [1..ObjectChunks -> Chunk]
    BY <1>3, ChunksPositive DEF BodyOf, Chunk
  <2> QED BY <2>1, ChunksPositive DEF BodyOf
<1>4. written \in [Files -> Seq(Chunk)]
  BY <1>1, <1>3
<1>5. WrittenSoFar /\ OneWriter
  BY <1>2 DEF WrittenSoFar, OneWriter, WritesTo, Runs
<1>6. OpenedWhole
  <2> SUFFICES ASSUME NEW f \in Files, Opened(f) PROVE IsWhole(written[f])
    BY DEF OpenedWhole
  <2>1. f \in present
    BY <1>1, <1>2, LocalConstants DEF Opened, Runs
  <2>2. written[f] = BodyOf(f)
    BY <1>1, <2>1
  <2> QED BY <1>3, <2>2, BodyIsWhole
<1>7. FreshEmpty
  BY <1>1, LocalConstants DEF FreshEmpty
<1> QED BY <1>4, <1>5, <1>6, <1>7 DEF ContentInv

LEMMA WritersWrite ==
    ASSUME LocalTypes, NEW f
    PROVE  /\ Writers(f) = {d \in StoreCalls : WritesTo(call[d], f)}
           /\ HalfRead(f) = {call[d].dst : d \in {e \in StoreCalls :
                                Runs(call[e]) /\ call[e].src = f /\ call[e].readTo > 0}} \ {NoFile}
           /\ \A g \in HalfRead(f) : ~Unwritten(g) /\ g \in Files
           /\ \A d \in StoreCalls :
                call[d].at = "transfer" /\ call[d].src = f /\ call[d].readTo > 0 =>
                    call[d].dst \in HalfRead(f)
<1>1. \A c \in StoreCalls : Running(c) <=> Runs(call[c])
  BY ChangersAlter
<1>2. \A d \in StoreCalls : call[d].at = "transfer" => Runs(call[d]) /\ call[d].dst # NoFile
  BY DEF LocalTypes, CallShape, Runs
<1>3. HalfRead(f) = {call[d].dst : d \in {e \in StoreCalls :
                        Runs(call[e]) /\ call[e].src = f /\ call[e].readTo > 0}} \ {NoFile}
  BY <1>1 DEF HalfRead
<1>4. \A g \in HalfRead(f) : ~Unwritten(g) /\ g \in Files
  BY <1>3 DEF Unwritten, WritesTo, LocalTypes, StoreCall
<1> QED BY <1>1, <1>2, <1>3, <1>4 DEF Writers, WritesTo

\* A call that ends its transfer, or refuses: it opens and writes nothing more.
LEMMA StopsContent ==
    ASSUME NamesInv, NamesInv', ContentInv, NEW c \in StoreCalls, NEW o,
           call' = [call EXCEPT ![c] = o], ~Fresh(o), o.at # "transfer",
           Runs(o) => o.dst = NoFile /\ o.src = NoFile,
           o.at = "delivered" => WritesTo(call[c], c),
           UNCHANGED written, \A p \in Paths : named'[p] \in {named[p], NoFile},
           spoiled \subseteq spoiled', \A f \in spoiled' \ spoiled : ~Unwritten(f),
           \A f \in Files : WritesTo(call[c], f) => f \in spoiled' \/ IsWhole(written[f])
    PROVE  ContentInv'
<1>0. LocalTypes /\ call'[c] = o /\ \A d \in StoreCalls \ {c} : call'[d] = call[d]
  BY DEF NamesInv, LocalTypes
<1>1. \A f \in Files : ~WritesTo(o, f)
  BY LocalConstants DEF WritesTo
<1>2. written' \in [Files -> Seq(Chunk)]
  BY DEF ContentInv
<1>3. WritesOnly(c, o) /\ SpoilsOnly(c, o) /\ TakesUp(c, o) /\ LetsGo(c, o)
  BY <1>1 DEF WritesOnly, SpoilsOnly, TakesUp, LetsGo
<1>4. OpensOnly(c, o)
  <2> SUFFICES ASSUME NEW f \in Files, Opened(f)', ~Opened(f)
               PROVE  WritesTo(call[c], f)
    BY DEF OpensOnly
  <2>1. \A p \in Paths : named'[p] # f
    BY LocalConstants DEF Opened
  <2>2. \A d \in StoreCalls : ~(Runs(call'[d]) /\ call'[d].src = f)
    BY <1>0, LocalConstants DEF Opened
  <2>3. PICK d \in StoreCalls : call'[d].at = "delivered" /\ d = f
    BY <2>1, <2>2 DEF Opened
  <2> QED BY <1>0, <2>3 DEF Opened
<1> QED BY <1>2, <1>3, <1>4, ContentStep

LEMMA EndsContent ==
    ASSUME NamesInv, NamesInv', ContentInv, NEW c \in StoreCalls, Ends(c),
           UNCHANGED written, \A p \in Paths : named'[p] \in {named[p], NoFile},
           spoiled \subseteq spoiled', \A f \in spoiled' \ spoiled : ~Unwritten(f),
           \A f \in Files : WritesTo(call[c], f) => f \in spoiled' \/ IsWhole(written[f])
    PROVE  ContentInv'
<1>1. call' = [call EXCEPT ![c] = EndedCall] /\ EndedCall.at = "ended"
  BY DEF Ends, EndedCall, Waiting
<1>2. ~Fresh(EndedCall) /\ ~Runs(EndedCall)
  BY <1>1 DEF Fresh, Runs
<1> HIDE DEF EndedCall
<1> QED BY <1>1, <1>2, StopsContent

\* A call that writes nothing yet, or nothing any more, ends.
LEMMA IdleEndsContent ==
    ASSUME NamesInv, NamesInv', ContentInv, NEW c \in StoreCalls, Ends(c),
           call[c].at \in {"waiting", "target", "unlink"},
           UNCHANGED <<written, spoiled>>, \A p \in Paths : named'[p] \in {named[p], NoFile}
    PROVE  ContentInv'
<1>1. \A f \in Files : ~WritesTo(call[c], f)
  BY LocalConstants DEF NamesInv, LocalTypes, CallShape, Waiting, WritesTo, Runs
<1> QED BY <1>1, EndsContent

LEMMA CreatesContent ==
    ASSUME NamesInv, NamesInv', ContentInv, NEW c \in StoreCalls, NEW p \in Paths, NEW over,
           NEW next \in StoreCall, Creates(c, p, over, next), Fresh(call[c]),
           next.readTo = 0, next.wroteTo = 0,
           next.src # NoFile => Runs(call[c]) /\ next.src = call[c].src
    PROVE  ContentInv'
<1> DEFINE f == FileFor(c, p)
           o == [next EXCEPT !.dst = f, !.at = "transfer"]
<1>0. LocalTypes /\ call[c].dst = NoFile /\ named[p] \in Files \cup {NoFile}
      /\ written \in [Files -> Seq(Chunk)]
  BY DEF NamesInv, LocalTypes, CallShape, Fresh, Waiting, ContentInv
<1>1. f \in Files /\ f # NoFile
  BY <1>0, LocalConstants DEF FileFor
<1>2. /\ o.at = "transfer" /\ o.dst = f /\ o.op = next.op /\ o.readTo = 0 /\ o.wroteTo = 0
      /\ o.src = next.src /\ Runs(o) /\ ~Fresh(o)
  BY DEF StoreCall, Runs, Fresh
<1>3. /\ named' = [named EXCEPT ![p] = f] /\ written' = [written EXCEPT ![f] = <<>>]
      /\ call' = [call EXCEPT ![c] = o]
      /\ spoiled' = (IF Writers(f) \ {c} = {} THEN spoiled \ {f} ELSE spoiled \cup {f})
                    \cup HalfRead(f)
  BY DEF Creates
<1> HIDE DEF f, o
<1>4. /\ call'[c] = o /\ \A d \in StoreCalls \ {c} : call'[d] = call[d]
      /\ written' \in [Files -> Seq(Chunk)] /\ written'[f] = <<>>
      /\ \A g \in Files : g # f => written'[g] = written[g]
      /\ \A q \in Paths : named'[q] = IF q = p THEN f ELSE named[q]
  BY <1>0, <1>1, <1>3 DEF LocalTypes
<1>5. \A g \in Files : WritesTo(o, g) <=> g = f
  BY <1>2 DEF WritesTo
<1>6. \A g \in Files : ~WritesTo(call[c], g)
  BY <1>0, LocalConstants DEF WritesTo
<1>7. /\ Writers(f) = {d \in StoreCalls : WritesTo(call[d], f)}
      /\ \A g \in HalfRead(f) : ~Unwritten(g)
      /\ \A d \in StoreCalls :
           call[d].at = "transfer" /\ call[d].src = f /\ call[d].readTo > 0 =>
              call[d].dst \in HalfRead(f)
  BY <1>0, WritersWrite
<1>8. WritesOnly(c, o) /\ LetsGo(c, o)
  BY <1>4, <1>5, <1>6 DEF WritesOnly, LetsGo
<1>9. SpoilsOnly(c, o)
  <2>1. \A g \in spoiled \ spoiled' : g = f
    BY <1>3
  <2>2. \A g \in spoiled' \ spoiled : g = f \/ g \in HalfRead(f)
    BY <1>3
  <2> QED BY <1>1, <1>5, <1>6, <1>7, <2>1, <2>2 DEF SpoilsOnly
<1>10. TakesUp(c, o)
  <2>1. \A d \in StoreCalls \ {c} : WritesTo(call[d], f) => f \in spoiled'
    BY <1>3, <1>7
  <2>2. HalfRead(f) \subseteq spoiled'
    BY <1>3
  <2> QED BY <1>5, <1>7, <2>1, <2>2 DEF TakesUp
<1>11. OpensOnly(c, o)
  <2> SUFFICES ASSUME NEW g \in Files, Opened(g)', g # f PROVE Opened(g)
    BY <1>5 DEF OpensOnly
  <2>1. ASSUME NEW q \in Paths, named'[q] = g PROVE Opened(g)
    BY <1>4, <2>1 DEF Opened
  <2>2. ASSUME NEW d \in StoreCalls, Runs(call'[d]), call'[d].src = g PROVE Opened(g)
    <3>1. d = c => Runs(call[c]) /\ call[c].src = g
      BY <1>2, <1>4, <2>2, LocalConstants
    <3> QED BY <1>4, <2>2, <3>1 DEF Opened
  <2>3. ASSUME NEW d \in StoreCalls, call'[d].at = "delivered", d = g PROVE Opened(g)
    BY <1>2, <1>4, <2>3 DEF Opened
  <2> QED BY <2>1, <2>2, <2>3 DEF Opened
<1>12. BodySoFar(c)' /\ ReadSoFar(c)'
  <2>1. Whole(<<>>, 0)
    <3>1. 0 % ObjectChunks = 0
      BY ChunksPositive, ModSmall
    <3> QED BY <3>1 DEF Whole
  <2>2. written'[call'[c].dst] = <<>>
    BY <1>2, <1>4
  <2>3. BodySoFar(c)'
    BY <1>2, <1>4, <2>1, <2>2, ChunksPositive DEF BodySoFar
  <2> QED BY <1>2, <1>4, <2>3 DEF ReadSoFar
<1> QED BY <1>2, <1>3, <1>4, <1>8, <1>9, <1>10, <1>11, <1>12, ContentStep

\* A call that writes on, to the file it writes to.
LEMMA GoesOnContent ==
    ASSUME NamesInv, NamesInv', ContentInv, NEW c \in StoreCalls, NEW o,
           call[c].at = "transfer", o.at = "transfer", o.dst = call[c].dst,
           call' = [call EXCEPT ![c] = o], UNCHANGED named,
           o.src = call[c].src \/ \E p \in Paths : o.src = named[p],
           written' \in [Files -> Seq(Chunk)],
           \A f \in Files : written'[f] # written[f] => f = call[c].dst,
           spoiled \subseteq spoiled', \A f \in spoiled' \ spoiled : ~Unwritten(f),
           o.dst \notin spoiled' => BodySoFar(c)' /\ ReadSoFar(c)'
    PROVE  ContentInv'
<1>0. LocalTypes /\ call'[c] = o /\ \A d \in StoreCalls \ {c} : call'[d] = call[d]
  BY DEF NamesInv, LocalTypes
<1>1. ~Fresh(o) /\ Runs(o) /\ Runs(call[c])
  BY DEF Fresh, Runs
<1>2. \A f \in Files : (WritesTo(o, f) <=> f = call[c].dst) /\ (WritesTo(call[c], f) <=> f = call[c].dst)
  BY <1>1 DEF WritesTo
<1>3. WritesOnly(c, o) /\ SpoilsOnly(c, o) /\ TakesUp(c, o) /\ LetsGo(c, o)
  BY <1>2 DEF WritesOnly, SpoilsOnly, TakesUp, LetsGo
<1>4. OpensOnly(c, o)
  <2> SUFFICES ASSUME NEW f \in Files, Opened(f)' PROVE Opened(f)
    BY DEF OpensOnly
  <2>1. ASSUME NEW d \in StoreCalls, Runs(call'[d]), call'[d].src = f PROVE Opened(f)
    BY <1>0, <1>1, <2>1 DEF Opened
  <2>2. ASSUME NEW d \in StoreCalls, call'[d].at = "delivered", d = f PROVE Opened(f)
    BY <1>0, <2>2 DEF Opened
  <2> QED BY <2>1, <2>2 DEF Opened
<1> QED BY <1>1, <1>3, <1>4, ContentStep

\* The causes a call that reads may have to spoil what it writes.
LEMMA ReadsClean ==
    ASSUME NamesInv, NEW c \in StoreCalls, call[c].at = "transfer", call[c].src # NoFile,
           call[c].dst \notin ReadSpoils(c)
    PROVE  /\ call[c].src \in Files \ spoiled /\ Unwritten(call[c].src) /\ Opened(call[c].src)
           /\ call[c].src # call[c].dst
<1>0. LocalTypes /\ call[c].src \in Files /\ Runs(call[c])
  BY DEF NamesInv, LocalTypes, StoreCall, Runs
<1>1. PICK f \in Files : f = call[c].src
  BY <1>0
<1>2. f \notin spoiled /\ Writers(f) = {}
  BY <1>1 DEF ReadSpoils
<1>3. Unwritten(f)
  BY <1>0, <1>2, WritersWrite DEF Unwritten
<1>4. Opened(f) /\ f # call[c].dst
  BY <1>0, <1>1, <1>3 DEF Opened, Unwritten, WritesTo
<1> QED BY <1>1, <1>2, <1>3, <1>4

LEMMA ReadToEnd ==
    ASSUME NamesInv, ContentInv, NEW c \in StoreCalls, call[c].at = "transfer",
           call[c].src # NoFile, call[c].readTo >= Len(written[call[c].src]),
           call[c].dst \notin spoiled, call[c].dst \notin ReadSpoils(c)
    PROVE  /\ IsWhole(written[call[c].dst]) /\ Whole(written[call[c].dst], call[c].wroteTo)
           /\ EndsWith(written[call[c].dst], written[call[c].src])
           /\ call[c].op # "complete" =>
                 Len(written[call[c].dst]) = Len(written[call[c].src])
<1> DEFINE t == written[call[c].dst]
           s == written[call[c].src]
           b == call[c].wroteTo - call[c].readTo
<1>1. /\ call[c] \in StoreCall /\ CallShape(call[c]) /\ call[c].dst \in Files
      /\ call[c].readTo \in Nat /\ call[c].wroteTo \in Nat
      /\ call[c].op \notin {"upload", "part"}
  BY DEF NamesInv, LocalTypes, CallShape, StoreCall
<1>2. BodySoFar(c) /\ ReadSoFar(c) /\ t \in Seq(Chunk)
  BY <1>1 DEF ContentInv, WrittenSoFar
<1>3. call[c].src \in Files \ spoiled /\ Unwritten(call[c].src) /\ Opened(call[c].src)
  BY ReadsClean
<1>4. IsWhole(s) /\ s \in Seq(Chunk)
  BY <1>3 DEF ContentInv, OpenedWhole
<1>5. Len(s) \in Nat /\ Len(s) > 0
  BY <1>4 DEF IsWhole
<1>6. call[c].readTo > 0
  BY <1>1, <1>5
<1>7. call[c].readTo = Len(s) /\ \A i \in 1..call[c].readTo : t[b + i] = s[i]
  BY <1>1, <1>2, <1>5, <1>6 DEF ReadSoFar
<1>8. Len(t) = call[c].wroteTo /\ call[c].readTo <= call[c].wroteTo /\ Whole(t, b)
  BY <1>1, <1>2 DEF BodySoFar
<1>9. b \in Nat /\ Len(t) = b + Len(s) /\ \A i \in 1..Len(s) : t[b + i] = s[i]
  BY <1>1, <1>7, <1>8
<1>10. call[c].op # "complete" => b = 0
  BY <1>1 DEF CallShape, StoreCall, StoreOps
<1> HIDE DEF t, s, b
<1>11. Whole(t, Len(t)) /\ IsWhole(t)
  <2>1. t \in Seq(Chunk) /\ s \in Seq(Chunk) /\ b \in Nat
    BY <1>2, <1>4, <1>9
  <2>2. Whole(t, b) /\ IsWhole(s)
    BY <1>4, <1>8
  <2>3. Len(t) = b + Len(s) /\ \A i \in 1..Len(s) : t[b + i] = s[i]
    BY <1>9
  <2> QED BY <2>1, <2>2, <2>3, WholeAppended
<1>12. EndsWith(t, s)
  BY <1>5, <1>9 DEF EndsWith
<1>13. call[c].op # "complete" => Len(t) = Len(s)
  BY <1>5, <1>9, <1>10
<1> QED BY <1>8, <1>11, <1>12, <1>13 DEF t, s

LEMMA WholeKept ==
    ASSUME NEW s \in Seq(Chunk), NEW t \in Seq(Chunk), NEW n \in Nat, Whole(s, n),
           n <= Len(t), \A i \in 1..n : t[i] = s[i]
    PROVE  Whole(t, n)
<1>1. \A i \in 1..n : i % ObjectChunks # 0 => i + 1 \in 1..n
  BY DEF Whole
<1> QED BY <1>1 DEF Whole

LEMMA WriteChunkContent ==
    ASSUME NamesInv, NamesInv', ContentInv, NEW c \in StoreCalls, WriteChunk(c)
    PROVE  ContentInv'
<1> DEFINE f == call[c].dst
           n == call[c].wroteTo
           b == BodyOf(c)[n + 1]
           t == PutAt(written[f], n, b)
           o == [call[c] EXCEPT !.wroteTo = n + 1]
<1>0. /\ LocalTypes /\ call[c] \in StoreCall /\ CallShape(call[c]) /\ call[c].at = "transfer"
      /\ call[c].op \in {"upload", "part"} /\ n < ObjectChunks /\ UNCHANGED named
      /\ spoiled' = spoiled \cup HalfRead(f)
  BY DEF NamesInv, LocalTypes, WriteChunk
<1>1. call' = [call EXCEPT ![c] = o] /\ written' = [written EXCEPT ![f] = t]
  BY <1>0 DEF WriteChunk, LocalTypes, ContentInv
<1>2. /\ n \in Nat /\ f \in Files /\ o.at = "transfer" /\ o.op = call[c].op /\ o.dst = f
      /\ o.src = call[c].src /\ o.src = NoFile /\ o.readTo = call[c].readTo /\ o.wroteTo = n + 1
  BY <1>0 DEF StoreCall, CallShape
<1>3. written[f] \in Seq(Chunk) /\ written \in [Files -> Seq(Chunk)]
  BY <1>2 DEF ContentInv
<1>4. BodyOf(c)[n + 1] = [of |-> c, at |-> n + 1] /\ BodyOf(c)[n + 1] \in Chunk
  BY <1>0, <1>2, ChunksPositive, LocalConstants DEF BodyOf, Chunk
<1>5. /\ t \in Seq(Chunk)
      /\ Len(written[f]) = n => /\ Len(t) = n + 1 /\ t[n + 1] = [of |-> c, at |-> n + 1]
                                /\ \A i \in 1..n : t[i] = written[f][i]
  <2> DEFINE ChunkPut(s, m, chunk, u) ==
               /\ u \in Seq(Chunk)
               /\ Len(s) = m => /\ Len(u) = m + 1 /\ u[m + 1] = chunk
                                /\ \A i \in 1..m : u[i] = s[i]
  <2>1. \A s \in Seq(Chunk), chunk \in Chunk, m \in Nat : ChunkPut(s, m, chunk, PutAt(s, m, chunk))
    <3>1. TAKE s \in Seq(Chunk), chunk \in Chunk, m \in Nat
    <3>2. /\ PutAt(s, m, chunk) \in Seq(Chunk)
          /\ Len(s) = m => /\ Len(PutAt(s, m, chunk)) = m + 1
                           /\ PutAt(s, m, chunk)[m + 1] = chunk
                           /\ \A i \in 1..m : PutAt(s, m, chunk)[i] = s[i]
      BY PutAtEnd
    <3> QED BY <3>2
  <2>2. n \in Nat /\ written[f] \in Seq(Chunk) /\ BodyOf(c)[n + 1] \in Chunk
    BY <1>2, <1>3, <1>4
  <2>3. /\ t \in Seq(Chunk)
        /\ Len(written[f]) = n => /\ Len(t) = n + 1 /\ t[n + 1] = b
                                  /\ \A i \in 1..n : t[i] = written[f][i]
    <3>1. n \in Nat /\ written[f] \in Seq(Chunk) /\ b \in Chunk
      BY <2>2
    <3>2. ChunkPut(written[f], n, b, t)
      <4> HIDE DEF n, f, b, ChunkPut
      <4> QED BY <2>1, <3>1
    <3> HIDE DEF n, f, b, t
    <3> QED BY <3>2
  <2> HIDE DEF t, n, f
  <2> QED BY <1>4, <2>3
<1> HIDE DEF t, o
<1>6. /\ written' \in [Files -> Seq(Chunk)] /\ written'[f] = t /\ call'[c] = o
      /\ \A g \in Files : written'[g] # written[g] => g = f
  BY <1>0, <1>1, <1>2, <1>3, <1>5 DEF LocalTypes
<1>7. \A g \in spoiled' \ spoiled : ~Unwritten(g)
  BY <1>0, WritersWrite
<1>8. ASSUME f \notin spoiled' PROVE BodySoFar(c)' /\ ReadSoFar(c)'
  <2>1. BodySoFar(c) /\ ReadSoFar(c)
    BY <1>0, <1>8 DEF ContentInv, WrittenSoFar
  <2>2. /\ Len(written[f]) = n
        /\ \A i \in 1..n : written[f][i] = [of |-> c, at |-> i]
    BY <1>0, <2>1 DEF BodySoFar
  <2>3. Len(t) = n + 1 /\ \A i \in 1..(n + 1) : t[i] = [of |-> c, at |-> i]
    BY <1>2, <1>5, <2>2
  <2>4. n + 1 <= ObjectChunks
    BY <1>0, <1>2, ChunksPositive
  <2>5. BodySoFar(c)'
    BY <1>0, <1>2, <1>6, <2>3, <2>4 DEF BodySoFar
  <2>6. ~(call[c].readTo > 0)
    BY <1>2, <2>1, LocalConstants DEF ReadSoFar
  <2> QED BY <1>2, <1>6, <2>5, <2>6 DEF ReadSoFar
<1>9. spoiled \subseteq spoiled'
  BY <1>0
<1> QED BY <1>0, <1>1, <1>2, <1>6, <1>7, <1>8, <1>9, GoesOnContent

LEMMA CopyChunkContent ==
    ASSUME NamesInv, NamesInv', ContentInv, NEW c \in StoreCalls, CopyChunk(c)
    PROVE  ContentInv'
<1> DEFINE f == call[c].dst
           g == call[c].src
           n == call[c].wroteTo
           r == call[c].readTo
           t == PutAt(written[f], n, written[g][r + 1])
           o == [call[c] EXCEPT !.wroteTo = n + 1, !.readTo = r + 1]
<1>0. /\ LocalTypes /\ call[c] \in StoreCall /\ CallShape(call[c]) /\ call[c].at = "transfer"
      /\ g # NoFile /\ r < Len(written[g]) /\ UNCHANGED named
      /\ spoiled' = spoiled \cup ReadSpoils(c) \cup HalfRead(f)
  BY DEF NamesInv, LocalTypes, CopyChunk
<1>1. call' = [call EXCEPT ![c] = o] /\ written' = [written EXCEPT ![f] = t]
  BY <1>0 DEF CopyChunk, LocalTypes, ContentInv
<1>2. /\ n \in Nat /\ r \in Nat /\ f \in Files /\ g \in Files
      /\ o.at = "transfer" /\ o.op = call[c].op /\ o.dst = f
      /\ o.src = g /\ o.readTo = r + 1 /\ o.wroteTo = n + 1
      /\ call[c].op \notin {"upload", "part"}
  BY <1>0 DEF StoreCall, CallShape
<1>3. /\ written[f] \in Seq(Chunk) /\ written[g] \in Seq(Chunk)
      /\ written \in [Files -> Seq(Chunk)] /\ written[g][r + 1] \in Chunk
  BY <1>0, <1>2 DEF ContentInv
<1>4. /\ t \in Seq(Chunk)
      /\ Len(written[f]) = n => /\ Len(t) = n + 1 /\ t[n + 1] = written[g][r + 1]
                                /\ \A i \in 1..n : t[i] = written[f][i]
  <2> DEFINE ChunkPut(s, m, chunk, u) ==
               /\ u \in Seq(Chunk)
               /\ Len(s) = m => /\ Len(u) = m + 1 /\ u[m + 1] = chunk
                                /\ \A i \in 1..m : u[i] = s[i]
  <2>1. \A s \in Seq(Chunk), chunk \in Chunk, m \in Nat : ChunkPut(s, m, chunk, PutAt(s, m, chunk))
    <3>1. TAKE s \in Seq(Chunk), chunk \in Chunk, m \in Nat
    <3>2. /\ PutAt(s, m, chunk) \in Seq(Chunk)
          /\ Len(s) = m => /\ Len(PutAt(s, m, chunk)) = m + 1
                           /\ PutAt(s, m, chunk)[m + 1] = chunk
                           /\ \A i \in 1..m : PutAt(s, m, chunk)[i] = s[i]
      BY PutAtEnd
    <3> QED BY <3>2
  <2>2. n \in Nat /\ written[f] \in Seq(Chunk) /\ written[g][r + 1] \in Chunk
    BY <1>2, <1>3
  <2>3. ChunkPut(written[f], n, written[g][r + 1], t)
    <3> HIDE DEF n, f, g, r, ChunkPut
    <3> QED BY <2>1, <2>2
  <2> HIDE DEF n, f, g, r, t
  <2> QED BY <2>3
<1> HIDE DEF t, o
<1>5. /\ written' \in [Files -> Seq(Chunk)] /\ written'[f] = t /\ call'[c] = o
      /\ \A h \in Files : written'[h] # written[h] => h = f
      /\ \A d \in StoreCalls \ {c} : call'[d] = call[d]
  BY <1>0, <1>1, <1>2, <1>3, <1>4 DEF LocalTypes
<1>6. WritesTo(call[c], f) /\ \A h \in HalfRead(f) : ~Unwritten(h)
  BY <1>0, WritersWrite DEF WritesTo, Runs
<1>7. \A h \in spoiled' \ spoiled : ~Unwritten(h)
  BY <1>0, <1>6 DEF ReadSpoils, Unwritten
<1>8. ASSUME f \notin spoiled' PROVE BodySoFar(c)' /\ ReadSoFar(c)'
  <2>1. BodySoFar(c) /\ ReadSoFar(c)
    BY <1>0, <1>2, <1>8 DEF ContentInv, WrittenSoFar
  <2>2. g \in Files \ spoiled /\ Unwritten(g) /\ g # f
    BY <1>0, <1>8, ReadsClean
  <2>3. /\ Len(written[f]) = n /\ r <= n /\ Whole(written[f], n - r)
    <3>1. Len(written[f]) = n
      BY <2>1 DEF BodySoFar
    <3>2. r <= n /\ Whole(written[f], n - r)
      BY <1>2, <2>1 DEF BodySoFar
    <3> QED BY <3>1, <3>2
  <2>4. n - r \in Nat /\ n - r <= n /\ (n + 1) - (r + 1) = n - r
    <3>1. n \in Nat /\ r \in Nat /\ r <= n
      BY <1>2, <2>3
    <3> HIDE DEF n, r
    <3> QED BY <3>1
  <2>5. Len(t) = n + 1 /\ t[n + 1] = written[g][r + 1] /\ \A i \in 1..n : t[i] = written[f][i]
    BY <1>4, <2>3
  <2>6. Whole(t, n - r)
    <3>1. n - r <= Len(t) /\ \A i \in 1..(n - r) : t[i] = written[f][i]
      BY <1>2, <2>4, <2>5
    <3> QED BY <1>3, <1>4, <2>3, <2>4, <3>1, WholeKept
  <2>7. BodySoFar(c)'
    <3>1. r + 1 <= n + 1 /\ call'[c].src # NoFile
      BY <1>0, <1>2, <1>5, <2>3
    <3> QED BY <1>2, <1>5, <2>4, <2>5, <2>6, <3>1 DEF BodySoFar
  <2>8. written'[g] = written[g] /\ g \notin spoiled'
    <3>1. g \notin HalfRead(f)
      BY <1>6, <2>2
    <3>2. g \notin ReadSpoils(c)
      BY <2>2 DEF ReadSpoils
    <3> QED BY <1>0, <1>2, <1>5, <2>2, <3>1, <3>2
  <2>9. \A d \in StoreCalls : ~WritesTo(call'[d], g)
    BY <1>2, <1>5, <2>2 DEF Unwritten, WritesTo
  <2>10. \A i \in 1..(r + 1) : t[(n - r) + i] = written[g][i]
    <3> SUFFICES ASSUME NEW i \in 1..(r + 1) PROVE t[(n - r) + i] = written[g][i]
      OBVIOUS
    <3>1. CASE i = r + 1
      <4>1. (n - r) + i = n + 1
        BY <1>2, <3>1
      <4> QED BY <2>5, <3>1, <4>1
    <3>2. CASE i # r + 1
      <4>1. i \in 1..r /\ r > 0 /\ (n - r) + i \in 1..n
        <5>1. n \in Nat /\ r \in Nat /\ r <= n
          BY <1>2, <2>3
        <5> HIDE DEF n, r
        <5> QED BY <3>2, <5>1
      <4>2. written[f][(n - r) + i] = written[g][i]
        BY <2>1, <4>1 DEF ReadSoFar
      <4> QED BY <2>5, <4>1, <4>2
    <3> QED BY <3>1, <3>2
  <2>11. r + 1 <= Len(written[g])
    BY <1>0, <1>2, <1>3
  <2>12. ReadSoFar(c)'
    <3>1. /\ call'[c].src = g /\ call'[c].dst = f
          /\ call'[c].readTo = r + 1 /\ call'[c].wroteTo - call'[c].readTo = n - r
      BY <1>2, <1>5, <2>4
    <3>2. call'[c].src \in Files \ spoiled'
      BY <1>2, <2>8, <3>1
    <3>3. Unwritten(call[c].src)'
      BY <2>9, <3>1 DEF Unwritten
    <3>4. call'[c].readTo <= Len(written'[call'[c].src])
      BY <2>8, <2>11, <3>1
    <3>5. ASSUME NEW i \in 1..call'[c].readTo
          PROVE  written'[call'[c].dst][(call'[c].wroteTo - call'[c].readTo) + i]
                   = written'[call'[c].src][i]
      BY <1>5, <2>8, <2>10, <3>1
    <3> QED BY <3>2, <3>3, <3>4, <3>5 DEF ReadSoFar
  <2> QED BY <2>7, <2>12
<1>9. spoiled \subseteq spoiled'
  BY <1>0
<1> QED BY <1>0, <1>1, <1>2, <1>5, <1>7, <1>8, <1>9, GoesOnContent

LEMMA OpenPartContent ==
    ASSUME NamesInv, NamesInv', ContentInv, NEW c \in StoreCalls, OpenPart(c)
    PROVE  ContentInv'
<1>1. PICK n \in NextParts(c) :
        /\ named[n] # NoFile
        /\ call' = [call EXCEPT ![c].from = n, ![c].src = named[n], ![c].readTo = 0]
  BY DEF OpenPart
<1> DEFINE f == call[c].dst
           o == [call[c] EXCEPT !.from = n, !.src = named[n], !.readTo = 0]
<1>0. /\ LocalTypes /\ call[c] \in StoreCall /\ CallShape(call[c]) /\ call[c].at = "transfer"
      /\ UNCHANGED <<named, written>> /\ (call[c].src = NoFile \/ AtEnd(c))
      /\ spoiled' = IF call[c].src = NoFile THEN spoiled ELSE spoiled \cup ReadSpoils(c)
  BY DEF NamesInv, LocalTypes, OpenPart
<1>2. n \in Paths /\ call[c].op = "complete" /\ call' = [call EXCEPT ![c] = o]
  BY <1>0, <1>1, LocalConstants DEF NextParts, LocalTypes
<1>3. /\ o.at = "transfer" /\ o.op = "complete" /\ o.dst = f /\ o.src = named[n]
      /\ o.readTo = 0 /\ o.wroteTo = call[c].wroteTo /\ call[c].wroteTo \in Nat /\ f \in Files
  BY <1>0, <1>2 DEF StoreCall, CallShape
<1> HIDE DEF o
<1>4. call'[c] = o /\ written' \in [Files -> Seq(Chunk)]
  BY <1>0, <1>2 DEF LocalTypes, ContentInv
<1>5. WritesTo(call[c], f)
  BY <1>0 DEF WritesTo, Runs
<1>6. spoiled \subseteq spoiled' /\ \A h \in spoiled' \ spoiled : ~Unwritten(h)
  BY <1>0, <1>5 DEF ReadSpoils, Unwritten
<1>7. ASSUME f \notin spoiled' PROVE BodySoFar(c)' /\ ReadSoFar(c)'
  <2>1. BodySoFar(c) /\ f \notin spoiled
    BY <1>0, <1>3, <1>6, <1>7 DEF ContentInv, WrittenSoFar
  <2>2. Whole(written[f], call[c].wroteTo)
    <3>1. CASE call[c].src = NoFile
      <4>1. call[c].wroteTo = 0 /\ Whole(written[f], 0 - call[c].readTo) /\ call[c].readTo <= 0
        BY <1>2, <2>1, <3>1 DEF BodySoFar
      <4>2. call[c].readTo \in Nat /\ 0 - call[c].readTo = 0
        BY <1>0, <4>1 DEF StoreCall
      <4> QED BY <4>1, <4>2
    <3>2. CASE call[c].src # NoFile
      <4>1. call[c].readTo >= Len(written[call[c].src]) /\ f \notin ReadSpoils(c)
        BY <1>0, <1>2, <1>7, <3>2 DEF AtEnd
      <4> QED BY <1>0, <2>1, <3>2, <4>1, ReadToEnd
    <3> QED BY <3>1, <3>2
  <2>3. BodySoFar(c)'
    <3>1. Len(written[f]) = call[c].wroteTo /\ call[c].wroteTo - 0 = call[c].wroteTo
      BY <1>3, <2>1 DEF BodySoFar
    <3>2. 0 <= call[c].wroteTo
      BY <1>3
    <3> QED BY <1>0, <1>1, <1>3, <1>4, <2>2, <3>1, <3>2 DEF BodySoFar
  <2> QED BY <1>3, <1>4, <2>3 DEF ReadSoFar
<1> QED BY <1>0, <1>2, <1>3, <1>4, <1>6, <1>7, GoesOnContent

LEMMA DownloadContent ==
    ASSUME NamesInv, NamesInv', ContentInv, NEW c \in StoreCalls, NEW k \in ObjectKeys,
           DownloadObject(c, k)
    PROVE  ContentInv'
<1>0. /\ LocalTypes /\ OneName /\ call[c] = Waiting /\ call[c].at = "waiting" /\ Fresh(call[c])
      /\ k \in Paths /\ c \in Files /\ written \in [Files -> Seq(Chunk)]
  BY LocalConstants DEF NamesInv, LocalTypes, CallShape, DownloadObject, Arrives, ContentInv, Fresh
<1>1. CASE named[k] = NoFile
  <2>1. Ends(c) /\ UNCHANGED <<written, spoiled>> /\ UNCHANGED named
    BY <1>1 DEF DownloadObject, Refused
  <2> QED BY <1>0, <2>1, IdleEndsContent
<1>2. CASE named[k] # NoFile
  <2> DEFINE o == [Waiting EXCEPT !.op = "download", !.at = "transfer", !.from = k,
                          !.src = named[k], !.dst = c]
  <2>1. /\ o.at = "transfer" /\ o.op = "download" /\ o.dst = c /\ o.src = named[k]
        /\ o.readTo = 0 /\ o.wroteTo = 0
    BY DEF Waiting
  <2>2. call' = [call EXCEPT ![c] = o] /\ UNCHANGED <<named, written, spoiled>>
    BY <1>2 DEF DownloadObject
  <2> HIDE DEF o
  <2>3. ~Fresh(o) /\ call'[c] = o /\ \A d \in StoreCalls \ {c} : call'[d] = call[d]
    BY <1>0, <2>1, <2>2 DEF Fresh, LocalTypes
  <2>4. /\ \A f \in Files : WritesTo(o, f) => f = c
        /\ \A f \in Files : ~WritesTo(call[c], f)
    BY <1>0, <2>1, LocalConstants DEF WritesTo, Waiting
  <2>5. WritesOnly(c, o) /\ SpoilsOnly(c, o) /\ LetsGo(c, o)
    BY <2>2, <2>4 DEF WritesOnly, SpoilsOnly, LetsGo
  <2>6. TakesUp(c, o)
    <3>1. \A d \in StoreCalls : Runs(call[d]) => call[d].dst # c /\ call[d].src # c
      BY <1>0 DEF OneName
    <3> QED BY <2>4, <3>1 DEF TakesUp, WritesTo, Runs
  <2>7. OpensOnly(c, o)
    <3> SUFFICES ASSUME NEW f \in Files, Opened(f)' PROVE Opened(f)
      BY DEF OpensOnly
    <3>1. ASSUME NEW d \in StoreCalls, Runs(call'[d]), call'[d].src = f PROVE Opened(f)
      BY <1>0, <2>1, <2>3, <3>1 DEF Opened
    <3>2. ASSUME NEW d \in StoreCalls, call'[d].at = "delivered", d = f PROVE Opened(f)
      BY <2>1, <2>3, <3>2 DEF Opened
    <3> QED BY <2>2, <3>1, <3>2 DEF Opened
  <2>8. BodySoFar(c)' /\ ReadSoFar(c)'
    <3>1. written'[c] = <<>>
      BY <1>0, <2>2 DEF ContentInv, FreshEmpty
    <3>2. Whole(<<>>, 0)
      <4>1. 0 % ObjectChunks = 0
        BY ChunksPositive, ModSmall
      <4> QED BY <4>1 DEF Whole
    <3>3. BodySoFar(c)'
      BY <2>1, <2>3, <3>1, <3>2 DEF BodySoFar
    <3> QED BY <2>1, <2>3, <3>3 DEF ReadSoFar
  <2> QED BY <1>0, <2>2, <2>3, <2>5, <2>6, <2>7, <2>8, ContentStep
<1> QED BY <1>1, <1>2

LEMMA CopyContent ==
    ASSUME NamesInv, NamesInv', ContentInv, NEW c \in StoreCalls, NEW k \in ObjectKeys,
           NEW target \in ObjectKeys, NEW over \in BOOLEAN, NEW moves \in BOOLEAN,
           CopyObject(c, k, target, over, moves)
    PROVE  ContentInv'
<1>0. /\ LocalTypes /\ call[c] = Waiting /\ call[c].at = "waiting" /\ Fresh(call[c])
      /\ k \in Paths /\ written \in [Files -> Seq(Chunk)]
  BY LocalConstants DEF NamesInv, LocalTypes, CallShape, CopyObject, Arrives, ContentInv, Fresh
<1>1. CASE named[k] = NoFile
  <2>1. Ends(c) /\ UNCHANGED <<written, spoiled>> /\ UNCHANGED named
    BY <1>1 DEF CopyObject, Refused
  <2> QED BY <1>0, <2>1, IdleEndsContent
<1>2. CASE named[k] # NoFile
  <2> DEFINE o == [Waiting EXCEPT !.op = IF moves THEN "move" ELSE "copy", !.at = "target",
                          !.from = k, !.to = target, !.src = named[k], !.over = over]
  <2>1. o.at = "target" /\ o.dst = NoFile /\ o.src = named[k]
    BY DEF Waiting
  <2>2. call' = [call EXCEPT ![c] = o] /\ UNCHANGED <<named, written, spoiled>>
    BY <1>2 DEF CopyObject
  <2> HIDE DEF o
  <2>3. call'[c] = o /\ \A d \in StoreCalls \ {c} : call'[d] = call[d]
    BY <1>0, <2>2 DEF LocalTypes
  <2>4. \A f \in Files : ~WritesTo(o, f) /\ ~WritesTo(call[c], f)
    BY <1>0, <2>1, LocalConstants DEF WritesTo, Waiting
  <2>5. WritesOnly(c, o) /\ SpoilsOnly(c, o) /\ TakesUp(c, o) /\ LetsGo(c, o)
    BY <2>2, <2>4 DEF WritesOnly, SpoilsOnly, TakesUp, LetsGo
  <2>6. OpensOnly(c, o)
    <3> SUFFICES ASSUME NEW f \in Files, Opened(f)' PROVE Opened(f)
      BY DEF OpensOnly
    <3>1. ASSUME NEW d \in StoreCalls, Runs(call'[d]), call'[d].src = f PROVE Opened(f)
      BY <1>0, <2>1, <2>3, <3>1 DEF Opened
    <3>2. ASSUME NEW d \in StoreCalls, call'[d].at = "delivered", d = f PROVE Opened(f)
      BY <2>1, <2>3, <3>2 DEF Opened
    <3> QED BY <2>2, <3>1, <3>2 DEF Opened
  <2> QED BY <1>0, <2>1, <2>2, <2>5, <2>6, ContentStep
<1> QED BY <1>1, <1>2

LEMMA ArrivingContent ==
    ASSUME NamesInv, NamesInv', ContentInv, NEW c \in StoreCalls, NEW p \in Paths, NEW over,
           NEW op, op \in {"upload", "part", "complete"}, Arrives(c),
           Creates(c, p, over, [Waiting EXCEPT !.op = op, !.to = p])
    PROVE  ContentInv'
<1> DEFINE next == [Waiting EXCEPT !.op = op, !.to = p]
<1>1. next \in StoreCall /\ next.src = NoFile /\ next.readTo = 0 /\ next.wroteTo = 0
  BY DEF StoreCall, StoreOps, Waiting, Keeps
<1>2. Fresh(call[c]) /\ Creates(c, p, over, next)
  BY DEF Arrives, Fresh
<1> HIDE DEF next
<1> QED BY <1>1, <1>2, CreatesContent

LEMMA UploadContent ==
    ASSUME NamesInv, NamesInv', ContentInv, NEW c \in StoreCalls, NEW k \in ObjectKeys,
           NEW over \in BOOLEAN, UploadObject(c, k, over)
    PROVE  ContentInv'
<1>1. CASE MayCreate(k, over)
  BY <1>1, ArrivingContent, LocalConstants DEF UploadObject
<1>2. CASE ~MayCreate(k, over)
  <2>1. call[c].at = "waiting" /\ Ends(c) /\ UNCHANGED <<written, spoiled>> /\ UNCHANGED named
    BY <1>2 DEF UploadObject, Refused, Arrives
  <2> QED BY <2>1, IdleEndsContent
<1> QED BY <1>1, <1>2

LEMMA CopyTargetContent ==
    ASSUME NamesInv, NamesInv', ContentInv, NEW c \in StoreCalls, CopyTarget(c)
    PROVE  ContentInv'
<1>0. /\ call[c] \in StoreCall /\ CallShape(call[c]) /\ call[c].at = "target"
      /\ call[c].to \in Paths /\ Fresh(call[c]) /\ Runs(call[c])
      /\ call[c].readTo = 0 /\ call[c].wroteTo = 0
  BY LocalConstants DEF NamesInv, LocalTypes, CopyTarget, CallShape, Fresh, Runs
<1>1. CASE MayCreate(call[c].to, call[c].over)
  BY <1>0, <1>1, CreatesContent DEF CopyTarget
<1>2. CASE ~MayCreate(call[c].to, call[c].over)
  <2>1. Ends(c) /\ UNCHANGED <<written, spoiled>> /\ UNCHANGED named
    BY <1>2 DEF CopyTarget, Refused
  <2> QED BY <1>0, <2>1, IdleEndsContent
<1> QED BY <1>1, <1>2

LEMMA RemovalsContent ==
    ASSUME NamesInv, NamesInv', ContentInv, NEW c \in StoreCalls,
           \/ \E k \in ObjectKeys : DeleteObject(c, k)
           \/ AbortUpload(c) \/ MoveUnlinks(c)
    PROVE  ContentInv'
<1>0. LocalTypes
  BY DEF NamesInv
<1>1. /\ call[c].at \in {"waiting", "unlink"} /\ Ends(c) /\ UNCHANGED <<written, spoiled>>
      /\ \A p \in Paths : named'[p] \in {named[p], NoFile}
  BY <1>0 DEF DeleteObject, AbortUpload, MoveUnlinks, Arrives, LocalTypes
<1> QED BY <1>1, IdleEndsContent

LEMMA TransferFailsContent ==
    ASSUME NamesInv, NamesInv', ContentInv, NEW c \in StoreCalls, TransferFails(c)
    PROVE  ContentInv'
<1>1. /\ LocalTypes /\ call[c].at = "transfer" /\ Ends(c) /\ UNCHANGED written
      /\ spoiled' = spoiled \cup {call[c].dst}
  BY DEF NamesInv, TransferFails
<1>2. \A p \in Paths : named'[p] \in {named[p], NoFile}
  BY <1>1 DEF TransferFails, LocalTypes
<1>3. WritesTo(call[c], call[c].dst) /\ ~Unwritten(call[c].dst)
  BY <1>1 DEF WritesTo, Runs, Unwritten
<1>4. spoiled \subseteq spoiled' /\ \A f \in spoiled' \ spoiled : ~Unwritten(f)
  BY <1>1, <1>3
<1>5. \A f \in Files : WritesTo(call[c], f) => f \in spoiled'
  BY <1>1 DEF WritesTo
<1> QED BY <1>1, <1>2, <1>4, <1>5, EndsContent

LEMMA FinishContent ==
    ASSUME NamesInv, NamesInv', ContentInv, NEW c \in StoreCalls, FinishObject(c)
    PROVE  ContentInv'
<1> DEFINE f == call[c].dst
<1>0. /\ LocalTypes /\ OneName /\ call[c] \in StoreCall /\ CallShape(call[c])
      /\ call[c].at = "transfer" /\ AtEnd(c) /\ UNCHANGED written /\ f \in Files
      /\ spoiled' = IF call[c].src = NoFile THEN spoiled ELSE spoiled \cup ReadSpoils(c)
  BY DEF NamesInv, LocalTypes, FinishObject, CallShape, StoreCall
<1>1. \A p \in Paths : named'[p] \in {named[p], NoFile}
  BY <1>0 DEF FinishObject, LocalTypes
<1>2. WritesTo(call[c], f) /\ ~Unwritten(f)
  BY <1>0 DEF WritesTo, Runs, Unwritten
<1>3. spoiled \subseteq spoiled' /\ \A g \in spoiled' \ spoiled : ~Unwritten(g)
  BY <1>0, <1>2 DEF ReadSpoils
<1>4. ASSUME f \notin spoiled' PROVE IsWhole(written[f])
  <2>1. BodySoFar(c) /\ f \notin spoiled /\ written[f] \in Seq(Chunk)
    BY <1>0, <1>3, <1>4 DEF ContentInv, WrittenSoFar
  <2>2. CASE call[c].op \in {"upload", "part"}
    <3>1. call[c].wroteTo = ObjectChunks
      BY <1>0, <2>2 DEF AtEnd, CallShape
    <3>2. /\ Len(written[f]) = ObjectChunks
          /\ \A i \in 1..ObjectChunks : written[f][i] = [of |-> c, at |-> i]
      BY <2>1, <2>2, <3>1 DEF BodySoFar
    <3> QED BY <2>1, <3>2, BodyIsWhole, LocalConstants
  <2>3. CASE call[c].op \notin {"upload", "part"}
    <3>1. call[c].src # NoFile /\ call[c].readTo >= Len(written[call[c].src])
      BY <1>0, <2>3 DEF AtEnd
    <3>2. f \notin ReadSpoils(c)
      BY <1>0, <1>4, <3>1
    <3> QED BY <1>0, <2>1, <3>1, <3>2, ReadToEnd
  <2> QED BY <2>2, <2>3
<1>5. \A g \in Files : WritesTo(call[c], g) => g \in spoiled' \/ IsWhole(written[g])
  BY <1>4 DEF WritesTo
<1>6. CASE call[c].op = "download"
  <2> DEFINE o == [Waiting EXCEPT !.at = "delivered"]
  <2>1. call' = [call EXCEPT ![c] = o] /\ o.at = "delivered"
    BY <1>6 DEF FinishObject, Waiting
  <2> HIDE DEF o
  <2>2. call[c].to = NoFile
    BY <1>0, <1>6 DEF CallShape
  <2>3. WritesTo(call[c], c)
    BY <1>0, <1>2, <2>2 DEF OneName, Private
  <2> QED BY <1>0, <1>1, <1>3, <1>5, <2>1, <2>3, StopsContent DEF Runs, Fresh
<1>7. CASE call[c].op = "move" /\ Acknowledged(c)
  <2> DEFINE o == [call[c] EXCEPT !.at = "unlink", !.src = NoFile, !.dst = NoFile]
  <2>1. call' = [call EXCEPT ![c] = o]
    BY <1>0, <1>7 DEF FinishObject, LocalTypes
  <2>2. o.at = "unlink" /\ o.src = NoFile /\ o.dst = NoFile
    BY <1>0 DEF StoreCall
  <2> HIDE DEF o
  <2> QED BY <1>0, <1>1, <1>3, <1>5, <2>1, <2>2, StopsContent DEF Fresh
<1>8. CASE call[c].op # "download" /\ ~(call[c].op = "move" /\ Acknowledged(c))
  <2>1. Ends(c)
    BY <1>8 DEF FinishObject, Ends
  <2> QED BY <1>0, <1>1, <1>3, <1>5, <2>1, EndsContent
<1> QED BY <1>6, <1>7, <1>8

LEMMA CrashContent ==
    ASSUME NamesInv, ContentInv, StorageCrash PROVE ContentInv'
<1>1. /\ LocalTypes /\ UNCHANGED <<named, written>>
      /\ \A c \in StoreCalls : Running(c) <=> Runs(call[c])
      /\ call' = [c \in StoreCalls |-> IF Running(c) THEN EndedCall ELSE call[c]]
      /\ spoiled' = spoiled \cup ({call[c].dst : c \in {d \in StoreCalls : Running(d)}}
                                  \ {NoFile})
  BY ChangersAlter DEF NamesInv, StorageCrash, EndedCall
<1>2. EndedCall.at = "ended"
  BY DEF EndedCall, Waiting
<1> HIDE DEF EndedCall
<1>3. \A c \in StoreCalls : call'[c] = IF Runs(call[c]) THEN EndedCall ELSE call[c]
  BY <1>1
<1>4. \A c \in StoreCalls : ~Runs(call'[c]) /\ call'[c].at # "transfer"
  BY <1>2, <1>3 DEF Runs
<1>5. ASSUME NEW f \in Files \ spoiled', Opened(f)' PROVE IsWhole(written'[f])
  <2>1. Unwritten(f) /\ f \notin spoiled
    BY <1>1, <1>5, LocalConstants DEF Unwritten, WritesTo
  <2>2. ASSUME NEW c \in StoreCalls, call'[c].at = "delivered", c = f PROVE Opened(f)
    BY <1>2, <1>3, <2>2 DEF Opened
  <2>3. Opened(f)
    BY <1>1, <1>4, <1>5, <2>2 DEF Opened
  <2> QED BY <1>1, <2>1, <2>3 DEF ContentInv, OpenedWhole
<1>6. FreshEmpty'
  <2>1. \A c \in StoreCalls : Fresh(call'[c]) => Fresh(call[c])
    BY <1>2, <1>3 DEF Fresh
  <2> QED BY <1>1, <2>1 DEF ContentInv, FreshEmpty
<1> QED BY <1>1, <1>4, <1>5, <1>6 DEF ContentInv, WrittenSoFar, OneWriter, WritesTo, OpenedWhole

LEMMA StorageStep_Content ==
    NamesInv /\ NamesInv' /\ ContentInv /\ [StorageNext]_storageVars => ContentInv'
<1> SUFFICES ASSUME NamesInv, NamesInv', ContentInv, [StorageNext]_storageVars
             PROVE  ContentInv'
  OBVIOUS
<1>1. ASSUME NEW c \in StoreCalls, NEW k \in ObjectKeys, CompleteUpload(c, k)
      PROVE  ContentInv'
  BY <1>1, ArrivingContent, LocalConstants DEF CompleteUpload
<1>2. ASSUME NEW c \in StoreCalls, NEW n \in PartNumbers, UploadPart(c, n) PROVE ContentInv'
  BY <1>2, ArrivingContent, LocalConstants DEF UploadPart
<1>3. CASE UNCHANGED storageVars
  BY <1>3 DEF storageVars, ContentInv, WrittenSoFar, OneWriter, OpenedWhole, FreshEmpty,
              BodySoFar, ReadSoFar, Opened, Unwritten
<1> QED
  BY <1>1, <1>2, <1>3, UploadContent, CopyContent, DownloadContent, CopyTargetContent,
     RemovalsContent, WriteChunkContent, CopyChunkContent, OpenPartContent,
     TransferFailsContent, FinishContent, CrashContent DEF StorageNext

\* What nobody writes and no cause has spoiled is whole, and so is what a download
\* has delivered: each file has its one writer's bodies so far.
LEMMA RestingObjectsWhole == NamesInv /\ ContentInv => RestingObjectIsWhole
<1> SUFFICES ASSUME NamesInv, ContentInv PROVE RestingObjectIsWhole
  OBVIOUS
<1>0. LocalTypes /\ OneName /\ OpenedWhole
  BY DEF NamesInv, ContentInv
<1>1. ASSUME NEW p \in Paths, named[p] # NoFile, Writers(named[p]) = {}, named[p] \notin spoiled
      PROVE  IsWhole(written[named[p]])
  <2>1. PICK f \in Files : f = named[p]
    BY <1>0, <1>1 DEF LocalTypes
  <2>2. Unwritten(f)
    BY <1>0, <1>1, <2>1, WritersWrite DEF Unwritten
  <2> QED BY <1>0, <1>1, <2>1, <2>2 DEF OpenedWhole, Opened
<1>2. ASSUME NEW c \in StoreCalls, call[c].at = "delivered", c \notin spoiled
      PROVE  IsWhole(written[c])
  <2>1. \A d \in StoreCalls \ {c} : Runs(call[d]) => call[d].dst # c
    BY <1>0, <1>2 DEF OneName, Private
  <2>2. Unwritten(c) /\ c \in Files
    BY <1>2, <2>1, LocalConstants DEF Unwritten, WritesTo, Runs
  <2> QED BY <1>0, <1>2, <2>2 DEF OpenedWhole, Opened
<1> QED BY <1>1, <1>2 DEF RestingObjectIsWhole

\* A call that has read all of its source has written all of it.
LEMMA NothingLeftOut == NamesInv /\ ContentInv => NothingIsLeftOut
<1> SUFFICES ASSUME NamesInv, ContentInv, NEW c \in StoreCalls,
                    call[c].at = "transfer", call[c].src # NoFile, AtEnd(c),
                    call[c].dst \notin spoiled \cup ReadSpoils(c)
             PROVE  /\ EndsWith(written[call[c].dst], written[call[c].src])
                    /\ call[c].op # "complete" =>
                          Len(written[call[c].dst]) = Len(written[call[c].src])
  BY DEF NothingIsLeftOut
<1>1. call[c].op \notin {"upload", "part"}
  BY DEF NamesInv, LocalTypes, CallShape
<1>2. call[c].readTo >= Len(written[call[c].src])
  BY <1>1 DEF AtEnd
<1> QED BY <1>2, ReadToEnd

\* Everything that was moved arrived: resting files and answered downloads hold
\* whole bodies, and a call at the end of its source has left nothing of it out.
THEOREM TransfersFaithful == StorageSpec => []TransfersAreFaithful
<1>1. NamesInv /\ ContentInv => TransfersAreFaithful
  BY RestingObjectsWhole, NothingLeftOut DEF TransfersAreFaithful
<1> QED
  BY <1>1, StorageInit_Names, StorageStep_Names, StorageInit_Content, StorageStep_Content,
     PTL DEF StorageSpec

\* The names, the files and the calls have the types they should.
THEOREM LocalTypesHold == StorageSpec => []StorageTypeOK
<1>1. NamesInv /\ ContentInv => StorageTypeOK
  BY DEF NamesInv, LocalTypes, ContentInv, StorageTypeOK
<1> QED
  BY <1>1, StorageInit_Names, StorageStep_Names, StorageInit_Content, StorageStep_Content,
     PTL DEF StorageSpec
=============================================================================
