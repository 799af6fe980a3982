------------------------- MODULE ResourceEditor_proofs -------------------------
(***************************************************************************)
(* What the editing pages and the handlers that apply texts promise, for   *)
(* any number of pages, clients, values and writes.                        *)
(*                                                                         *)
(* None of the four properties of a step is about one step only: that a    *)
(* handler replaces what it has read needs that a version is given once    *)
(* (VersionsAreUnique), that a page writes what was confirmed needs the    *)
(* way of a text from the editor by the dry run to the dialog              *)
(* (SavesAreReviewed), and that a saving stays with its object needs that  *)
(* the identity in a text is that of the object it was made of             *)
(* (TextsTellTheirObject).                                                 *)
(***************************************************************************)
EXTENDS ResourceEditor, TLAPS

Request == [op : {"apply", "set", "replace"}, text : Texts, dry : BOOLEAN,
            at : {"sent", "read", "ended"},
            seen : Objects \cup {None}, ok : BOOLEAN]
PageState == [at : {"loading", "open", "left"},
              yaml : Texts \cup {None}, original : Texts \cup {None},
              pending : Texts \cup {None}, diff : BOOLEAN]

(* An object is a text that tells everything.                              *)
LEMMA ObjectsAreTexts == Objects \subseteq Texts
  BY DEF Objects, Texts

(* The slots are those of the pages and of the clients.                    *)
LEMMA SlotShape ==
  /\ \A p \in Pages : <<p, "check">> \in Slots /\ <<p, "save">> \in Slots
  /\ \A c \in Clients : <<c, "api">> \in Slots
  /\ \A s \in Slots : s[2] \in {"check", "save"} => s[1] \in Pages /\ s = <<s[1], s[2]>>
  /\ \A s \in Slots : s[2] \in {"check", "save", "api"}
  BY DEF Slots

(* A request is sent in a free slot, and the others go on.                 *)
LEMMA SendFills ==
  ASSUME TypeOK, NEW s \in Slots, NEW op \in {"apply", "set", "replace"}, NEW text \in Texts,
         NEW dry \in BOOLEAN, Send(s, op, text, dry)
  PROVE  /\ call' \in [Slots -> {None} \cup Request]
         /\ call'[s] = [op |-> op, text |-> text, dry |-> dry, at |-> "sent",
                        seen |-> None, ok |-> FALSE]
         /\ \A t \in Slots : t # s => call'[t] = call[t]
<1> DEFINE r == [op |-> op, text |-> text, dry |-> dry, at |-> "sent",
                 seen |-> None, ok |-> FALSE]
<1>1. call \in [Slots -> {None} \cup Request]
  BY DEF TypeOK, Request
<1>2. call' = [call EXCEPT ![s] = r]
  BY DEF Send
<1>3. r \in Request
  BY DEF Request
<1> HIDE DEF r
<1>4. /\ call' \in [Slots -> {None} \cup Request]
      /\ call'[s] = r
      /\ \A t \in Slots : t # s => call'[t] = call[t]
  BY <1>1, <1>2, <1>3
<1> QED
  BY <1>4 DEF r

(* A request that ends is answered, or forgotten, and the others go on.    *)
LEMMA EndedFrees ==
  ASSUME TypeOK, NEW s \in Slots, call[s] # None, NEW ok \in BOOLEAN,
         call' = Ended(s, ok)
  PROVE  /\ call' \in [Slots -> {None} \cup Request]
         /\ s[2] # "save" => call'[s] = None
         /\ s[2] = "save" =>
                /\ call'[s] \in Request
                /\ call'[s].text = call[s].text /\ call'[s].dry = call[s].dry
                /\ call'[s].op = call[s].op /\ call'[s].at = "ended"
                /\ call'[s].seen = None /\ call'[s].ok = ok
         /\ \A t \in Slots : t # s => call'[t] = call[t]
<1>1. call \in [Slots -> {None} \cup Request] /\ call[s] \in Request
  BY DEF TypeOK, Request
<1>2. CASE s[2] = "save"
  <2> DEFINE r == [call[s] EXCEPT !.at = "ended", !.ok = ok, !.seen = None]
  <2>1. r \in Request /\ r.text = call[s].text /\ r.dry = call[s].dry
        /\ r.op = call[s].op /\ r.at = "ended" /\ r.seen = None /\ r.ok = ok
    BY <1>1 DEF Request
  <2>2. call' = [call EXCEPT ![s] = r]
    BY <1>1, <1>2 DEF Ended
  <2> HIDE DEF r
  <2>3. /\ call' \in [Slots -> {None} \cup Request]
        /\ call'[s] = r
        /\ \A t \in Slots : t # s => call'[t] = call[t]
    BY <1>1, <2>1, <2>2
  <2> QED
    BY <1>2, <2>1, <2>3
<1>3. CASE s[2] # "save"
  <2>1. call' = [call EXCEPT ![s] = None]
    BY <1>3 DEF Ended
  <2> QED
    BY <1>1, <1>3, <2>1
<1> QED
  BY <1>2, <1>3

(* What a page shows at first is a text.                                   *)
LEMMA PageTextIsText ==
  ASSUME NEW k, NEW o \in Objects
  PROVE  /\ PageText(k, o) \in Texts
         /\ k.page # "rebuilds" => PageText(k, o) = o
         /\ k.page = "rebuilds" => PageText(k, o).meta = Reread[o.meta]
         /\ k.page = "rebuilds" /\ ~k.base64 => PageText(k, o).data = Reread[o.data]
         /\ PageText(k, o).uid # None => PageText(k, o).uid = o.uid
<1>1. CASE k.page = "rebuilds"
  <2> DEFINE d == IF Reread[o.data] = o.data THEN o.data ELSE Bad
  <2>1. /\ o \in [meta : Meta, data : Data, extra : Extra \cup {None},
                 uid : Versions, rv : Versions]
        /\ Reread[o.meta] \in Meta /\ Reread[o.data] \in Data
    BY RereadingIsReading DEF Objects
  <2>2. RebuiltText(o) = [meta |-> Reread[o.meta], data |-> Reread[o.data], extra |-> None,
                          uid |-> None, rv |-> None]
    <3> DEFINE m == Reread[o.meta]
               v == Reread[o.data]
    <3>1. /\ o \in [meta : Meta, data : Data, extra : Extra \cup {None},
                   uid : Versions, rv : Versions]
          /\ RebuiltText(o) = [o EXCEPT !.meta = m, !.data = v,
                                        !.extra = None, !.uid = None, !.rv = None]
      BY <2>1 DEF RebuiltText
    <3> HIDE DEF m, v
    <3>2. RebuiltText(o) = [meta |-> m, data |-> v, extra |-> None, uid |-> None, rv |-> None]
      BY <3>1
    <3> QED
      BY <3>2 DEF m, v
  <2>3. RebuiltSecret(o) = [meta |-> Reread[o.meta], data |-> d, extra |-> None,
                            uid |-> None, rv |-> None]
    BY <2>2 DEF RebuiltSecret
  <2>4. d \in Data \cup {Bad}
    BY <2>1
  <2>5. PageText(k, o) = IF k.base64 THEN RebuiltSecret(o) ELSE RebuiltText(o)
    BY <1>1 DEF PageText
  <2> HIDE DEF d
  <2> QED
    BY <1>1, <2>1, <2>2, <2>3, <2>4, <2>5 DEF Texts
<1>2. CASE k.page # "rebuilds"
  <2>1. PageText(k, o) = o
    BY <1>2 DEF PageText, CleanText
  <2> QED
    BY <1>2, <2>1, ObjectsAreTexts
<1> QED
  BY <1>1, <1>2

(* What is stored when a request is accepted is an object with a new       *)
(* version.                                                                *)
LEMMA StoredIsObject ==
  ASSUME TypeOK, NEW c \in Request, Decoded(c) # Bad, Accepts(c),
         c.op # "apply" => c.seen # None, version < MaxVersion
  PROVE  /\ Stored(c) \in Objects
         /\ Stored(c).rv = version + 1
         /\ c.seen # None => Stored(c).uid = obj.uid
<1>1. version + 1 \in Versions /\ version \in Nat
  BY Bounds DEF TypeOK, Versions
<1>2. c.text \in Texts /\ c.seen \in Objects \cup {None} /\ c.op \in {"apply", "set", "replace"}
  BY DEF Request
<1>3. c.seen # None => obj \in Objects
  BY DEF Accepts, TypeOK
<1> DEFINE new == Written(c)
<1>4. new.meta \in Meta /\ new.data \in Data /\ new.extra \in Extra \cup {None}
      /\ new = [meta |-> new.meta, data |-> new.data, extra |-> new.extra,
                uid |-> new.uid, rv |-> new.rv]
  <2>1. CASE c.op = "set"
    <3>1. c.seen \in Objects /\ new = SetFields(c)
      BY <1>2, <2>1 DEF Written
    <3>2. c.text.data \in Data
      BY <1>2, <2>1 DEF Decoded, Texts
    <3> QED
      BY <1>2, <3>1, <3>2 DEF SetFields, Objects, Texts
  <2>2. CASE c.op # "set"
    <3>1. Decoded(c) \in Data
      BY <1>2, DecodingChanges DEF Decoded, Texts
    <3>2. CASE c.seen = None
      BY <1>2, <2>2, <3>1, <3>2 DEF Written, Texts
    <3>3. CASE c.seen # None
      <4>1. new = Adopt([c.text EXCEPT !.data = Decoded(c)], c.seen)
        BY <2>2, <3>3 DEF Written
      <4> QED
        BY <1>2, <3>1, <4>1 DEF Adopt, Texts
    <3> QED
      BY <3>2, <3>3
  <2> QED
    BY <1>2, <2>1, <2>2
<1>5. Stored(c) = [new EXCEPT !.rv = version + 1,
                              !.uid = IF c.seen = None THEN version + 1 ELSE obj.uid]
  BY DEF Stored
<1> HIDE DEF new
<1>6. Stored(c) = [meta |-> new.meta, data |-> new.data, extra |-> new.extra,
                   uid |-> IF c.seen = None THEN version + 1 ELSE obj.uid,
                   rv |-> version + 1]
  BY <1>4, <1>5
<1> QED
  BY <1>1, <1>3, <1>4, <1>6 DEF Objects

(* A handler that writes ends its request, and has stored nothing or what  *)
(* was accepted.                                                           *)
LEMMA PutStores ==
  ASSUME TypeOK, SlotsFit, NEW s \in Slots, Put(s)
  PROVE  /\ \E ok \in BOOLEAN : call' = Ended(s, ok)
         /\ \/ UNCHANGED <<obj, version>>
            \/ /\ Accepts(call[s]) /\ ~call[s].dry
               /\ version < MaxVersion /\ version' = version + 1
               /\ obj' = Stored(call[s]) /\ obj' \in Objects
               /\ obj'.rv = version + 1
               /\ call[s].seen # None => obj'.uid = obj.uid
<1>1. \E ok \in BOOLEAN : call' = Ended(s, ok)
  BY DEF Put
<1>2. call[s] \in Request
  BY DEF TypeOK, Request, Put
<1>3. Decoded(call[s]) # Bad /\ (call[s].op # "apply" => call[s].seen # None)
  BY DEF SlotsFit, Put
<1>4. CASE UNCHANGED <<obj, version>>
  BY <1>1, <1>4
<1>5. CASE ~UNCHANGED <<obj, version>>
  <2>1. /\ Accepts(call[s]) /\ ~call[s].dry /\ version < MaxVersion
        /\ obj' = Stored(call[s]) /\ version' = version + 1
    BY <1>5 DEF Put
  <2> QED
    BY <1>1, <1>2, <1>3, <2>1, StoredIsObject
<1> QED
  BY <1>4, <1>5

(* Every step keeps all values in their ranges.                            *)
LEMMA NextTypeOK == TypeOK /\ SlotsFit /\ PagesFit /\ [Next]_vars => TypeOK'
<1> SUFFICES ASSUME TypeOK, SlotsFit, PagesFit, [Next]_vars PROVE TypeOK'
  OBVIOUS
<1>1. /\ kind \in Kinds /\ obj \in Objects \cup {None} /\ version \in Versions
      /\ page \in [Pages -> PageState]
      /\ call \in [Slots -> {None} \cup Request]
      /\ edits \in [Pages -> 0 .. MaxEdits]
      /\ base \in [Pages -> Objects \cup {None}]
      /\ moved \in [Pages -> BOOLEAN]
  BY DEF TypeOK, PageState, Request
<1>2. SUFFICES
      /\ kind' \in Kinds /\ obj' \in Objects \cup {None} /\ version' \in Versions
      /\ page' \in [Pages -> PageState]
      /\ call' \in [Slots -> {None} \cup Request]
      /\ edits' \in [Pages -> 0 .. MaxEdits]
      /\ base' \in [Pages -> Objects \cup {None}]
      /\ moved' \in [Pages -> BOOLEAN]
  BY DEF TypeOK, PageState, Request
<1>3. ASSUME version < MaxVersion PROVE version + 1 \in Versions
  BY <1>1, <1>3, Bounds DEF Versions
<1>4. \A p \in Pages : page[p].at = "open" => page[p].yaml \in Texts
  BY <1>1 DEF PagesFit, PageFits, PageState
<1>5. ASSUME NEW p \in Pages, Use(p)
      PROVE  /\ page' \in [Pages -> PageState]
             /\ call' \in [Slots -> {None} \cup Request]
             /\ edits' \in [Pages -> 0 .. MaxEdits]
             /\ base' \in [Pages -> Objects \cup {None}]
             /\ moved' \in [Pages -> BOOLEAN]
             /\ UNCHANGED <<kind, obj, version>>
  <2>1. CASE Load(p)
    <3>1. obj # None => PageText(kind, obj) \in Texts
      BY <1>1, PageTextIsText
    <3>2. page' \in [Pages -> PageState]
      BY <1>1, <2>1, <3>1 DEF Load, PageState
    <3> QED
      BY <1>1, <2>1, <3>2 DEF Load
  <2>2. CASE Type(p)
    <3>2. PICK text \in {[page[p].yaml EXCEPT !.meta = m] : m \in Meta}
                 \cup {[page[p].yaml EXCEPT !.data = d] : d \in Data}
                 \cup {[page[p].yaml EXCEPT !.uid = None], [page[p].yaml EXCEPT !.rv = None]} :
              page' = [page EXCEPT ![p].yaml = text]
      BY <2>2 DEF Type
    <3>3. text \in Texts
      <4>1. page[p].yaml \in Texts
        BY <1>4, <2>2 DEF Type
      <4>2. \/ \E m \in Meta : text = [page[p].yaml EXCEPT !.meta = m]
            \/ \E d \in Data : text = [page[p].yaml EXCEPT !.data = d]
            \/ text = [page[p].yaml EXCEPT !.uid = None] \/ text = [page[p].yaml EXCEPT !.rv = None]
        BY <3>2
      <4> QED
        BY <4>1, <4>2 DEF Texts
    <3>5. page' \in [Pages -> PageState]
      BY <1>1, <3>2, <3>3 DEF PageState
    <3>4. edits' \in [Pages -> 0 .. MaxEdits] /\ moved' \in [Pages -> BOOLEAN]
      BY <1>1, <2>2, Bounds DEF Type
    <3> QED
      BY <1>1, <2>2, <3>4, <3>5 DEF Type
  <2>3. CASE Reset(p)
    BY <1>1, <2>3 DEF Reset, PageState
  <2>4. CASE handleDryRun(p) \/ handleSubmit(p) \/ handleConfirmDiff(p)
    <3>1. PICK what \in {"check", "save"}, text \in Texts, dry \in BOOLEAN :
              Send(<<p, what>>, "apply", text, dry)
      <4>1. CASE handleDryRun(p)
        BY <1>4, <4>1 DEF handleDryRun
      <4>2. CASE handleSubmit(p)
        BY <1>4, <4>2 DEF handleSubmit
      <4>3. CASE handleConfirmDiff(p)
        <5>1. Sent(p) \in Texts
          BY <1>1, <1>4, <4>3 DEF handleConfirmDiff, Sent, PagesFit, PageFits, PageState
        <5> QED
          BY <4>3, <5>1 DEF handleConfirmDiff
      <4> QED
        BY <2>4, <4>1, <4>2, <4>3
    <3>2. call' \in [Slots -> {None} \cup Request]
      BY <3>1, SlotShape, SendFills
    <3>3. UNCHANGED <<kind, obj, version, page, edits, base>>
      BY <2>4 DEF handleDryRun, handleSubmit, handleConfirmDiff
    <3>4. moved' \in [Pages -> BOOLEAN]
      BY <1>1, <2>4 DEF handleDryRun, handleSubmit, handleConfirmDiff
    <3> QED
      BY <1>1, <3>2, <3>3, <3>4
  <2>5. CASE CancelDiff(p)
    BY <1>1, <2>5 DEF CancelDiff, PageState
  <2>6. CASE handleBack(p)
    <3>1. Left(p) \in PageState
      BY <1>1 DEF Left, Blank, PageState
    <3> QED
      BY <1>1, <2>6, <3>1 DEF handleBack
  <2> QED
    BY <1>5, <2>1, <2>2, <2>3, <2>4, <2>5, <2>6 DEF Use
<1>6. ASSUME NEW s \in Slots, Fail(s) \/ Get(s)
      PROVE  /\ call' \in [Slots -> {None} \cup Request]
             /\ UNCHANGED <<kind, obj, version, page, edits, base, moved>>
  <2>1. UNCHANGED <<kind, obj, version, page, edits, base, moved>>
    BY <1>6 DEF Fail, Get
  <2>2. CASE call' = Ended(s, FALSE)
    BY <1>6, <2>1, <2>2, EndedFrees DEF Fail, Get
  <2>3. CASE call' # Ended(s, FALSE)
    <3>1. PICK seen \in {obj, None} :
              call' = [call EXCEPT ![s].at = "read", ![s].seen = seen]
      BY <1>6, <2>3 DEF Fail, Get
    <3>2. call[s] \in Request
      BY <1>1, <1>6 DEF Fail, Get
    <3> QED
      BY <1>1, <2>1, <3>1, <3>2 DEF Request
  <2> QED
    BY <2>2, <2>3
<1>7. ASSUME NEW s \in Slots, Put(s)
      PROVE  /\ call' \in [Slots -> {None} \cup Request]
             /\ obj' \in Objects \cup {None} /\ version' \in Versions
             /\ UNCHANGED <<kind, page, edits, base, moved>>
  <2>1. UNCHANGED <<kind, page, edits, base, moved>> /\ call[s] # None
    BY <1>7 DEF Put
  <2>2. call' \in [Slots -> {None} \cup Request]
    BY <1>7, <2>1, PutStores, EndedFrees
  <2>3. obj' \in Objects \cup {None} /\ version' \in Versions
    BY <1>1, <1>3, <1>7, PutStores
  <2> QED
    BY <2>1, <2>2, <2>3
<1>8. ASSUME NEW s \in Slots, Deliver(s)
      PROVE  /\ call' \in [Slots -> {None} \cup Request]
             /\ page' \in [Pages -> PageState]
             /\ UNCHANGED <<kind, obj, version, edits, base, moved>>
  <2>1. call' \in [Slots -> {None} \cup Request]
        /\ UNCHANGED <<kind, obj, version, edits, base, moved>>
    BY <1>1, <1>8 DEF Deliver
  <2>2. s[1] \in Pages /\ call[s] \in Request
    BY <1>1, <1>8, SlotShape DEF Deliver, SlotsFit
  <2>3. Answered(s[1], call[s]) \in PageState
    <3>1. page[s[1]] \in PageState /\ call[s].text \in Texts
      BY <1>1, <2>2 DEF Request
    <3>2. Left(s[1]) \in PageState
      BY <3>1 DEF Left, Blank, PageState
    <3>3. [page[s[1]] EXCEPT !.pending = call[s].text, !.diff = TRUE] \in PageState
      BY <3>1 DEF PageState
    <3>4. [page[s[1]] EXCEPT !.original = call[s].text, !.diff = FALSE] \in PageState
      BY <3>1 DEF PageState
    <3> QED
      BY <3>1, <3>2, <3>3, <3>4 DEF Answered
  <2>4. page' \in [Pages -> PageState]
    BY <1>1, <1>8, <2>2, <2>3 DEF Deliver
  <2> QED
    BY <2>1, <2>4
<1>9. ASSUME NEW c \in Clients, Ask(c)
      PROVE  /\ call' \in [Slots -> {None} \cup Request]
             /\ UNCHANGED <<kind, obj, version, page, edits, base, moved>>
  <2>1. \A r \in Requested :
            [meta |-> r.meta, data |-> r.data, extra |-> None,
             uid |-> None, rv |-> None] \in Texts
    BY ProperInputs DEF Texts
  <2>2. PICK op \in {"apply", "set", "replace"}, text \in Texts :
            Send(<<c, "api">>, op, text, FALSE)
    BY <1>9, <2>1 DEF Ask, Operations
  <2> QED
    BY <1>9, <2>2, SlotShape, SendFills DEF Ask
<1>10. CASE Create
  BY <1>1, <1>3, <1>10, ProperInputs DEF Create, Objects
<1>11. CASE Delete
  BY <1>1, <1>11 DEF Delete
<1>12. CASE Elsewhere
  <2>1. PICK o \in {[obj EXCEPT !.data = d] : d \in Data}
                    \cup {[obj EXCEPT !.extra = e] : e \in Extra} :
            obj' = [o EXCEPT !.rv = version + 1]
    BY <1>12 DEF Elsewhere
  <2>2. o \in Objects
    <3>1. \/ \E d \in Data : o = [obj EXCEPT !.data = d]
          \/ \E e \in Extra : o = [obj EXCEPT !.extra = e]
      BY <2>1
    <3> QED
      BY <1>1, <1>12, <3>1 DEF Elsewhere, Objects
  <2>3. obj' \in Objects
    BY <1>3, <1>12, <2>1, <2>2 DEF Elsewhere, Objects
  <2> QED
    BY <1>1, <1>3, <1>12, <2>3 DEF Elsewhere
<1>13. CASE UNCHANGED vars
  BY <1>1, <1>13 DEF vars
<1> QED
  BY <1>1, <1>5, <1>6, <1>7, <1>8, <1>9, <1>10, <1>11, <1>12, <1>13 DEF Next, Serve

(* Initially nothing is under way and no page has loaded.                  *)
LEMMA InitIInv == Init => IInv
<1> SUFFICES ASSUME Init PROVE IInv
  OBVIOUS
<1>1. TypeOK
  <2>1. 1 \in Versions
    BY Bounds DEF Versions
  <2>2. PICK o \in Starts : obj = [meta |-> o.meta, data |-> o.data,
                                   extra |-> o.extra, uid |-> 1, rv |-> 1]
    BY DEF Init
  <2>3. obj \in Objects
    BY <2>1, <2>2, ProperInputs DEF Objects
  <2> QED
    BY <2>1, <2>3, Bounds DEF Init, TypeOK, Blank
<1>2. VersionsAreUnique
  <2>1. obj.rv = 1
    BY DEF Init
  <2> QED
    BY <2>1 DEF Init, VersionsAreUnique
<1>3. SlotsFit
  BY DEF Init, SlotsFit
<1>4. PagesFit
  BY SlotShape DEF Init, PagesFit, PageFits, Idle, Blank
<1>5. SavesAreReviewed
  BY SlotShape DEF Init, SavesAreReviewed, SaveIsReviewed, Idle, Blank
<1>6. TextsTellTheirObject
  BY SlotShape DEF Init, TextsTellTheirObject, TextsTell, Idle, Blank
<1> QED
  BY <1>1, <1>2, <1>3, <1>4, <1>5, <1>6 DEF IInv

(* What a step does to the requests under way, slot by slot: it leaves     *)
(* one alone, sends it, lets it read, ends it or forgets it.               *)
Same(s) == call'[s] = call[s]
Sends(s) == call'[s].at = "sent" /\ call'[s].seen = None
Reads(s) ==
    /\ call[s] # None /\ call[s].at = "sent" /\ Decoded(call[s]) # Bad
    /\ call'[s].at = "read" /\ call'[s].seen \in {obj, None}
    /\ call[s].op # "apply" => call'[s].seen # None
    /\ call'[s].op = call[s].op /\ call'[s].text = call[s].text
    /\ call'[s].dry = call[s].dry
Ends(s) ==
    /\ call[s] # None /\ s[2] = "save"
    /\ call'[s].at = "ended" /\ call'[s].seen = None
    /\ call'[s].op = call[s].op /\ call'[s].text = call[s].text
    /\ call'[s].dry = call[s].dry
Forgets(s) == call[s] # None /\ call'[s] = None

(* A handler that reads or ends does so for its own slot.                  *)
LEMMA HandlersMoveTheirSlot ==
  ASSUME TypeOK, NEW s \in Slots, Fail(s) \/ Get(s) \/ Put(s)
  PROVE  /\ Reads(s) \/ Ends(s) \/ Forgets(s)
         /\ \A t \in Slots : t # s => Same(t)
<1>1. call[s] # None /\ call[s] \in Request /\ call \in [Slots -> {None} \cup Request]
  BY DEF TypeOK, Request, Fail, Get, Put
<1>2. CASE \E ok \in BOOLEAN : call' = Ended(s, ok)
  <2>1. PICK ok \in BOOLEAN : call' = Ended(s, ok)
    BY <1>2
  <2> QED
    BY <1>1, <2>1, EndedFrees DEF Ends, Forgets, Same
<1>3. CASE ~\E ok \in BOOLEAN : call' = Ended(s, ok)
  <2>1. call' # Ended(s, FALSE) /\ Get(s)
    BY <1>3 DEF Fail, Put
  <2>2. PICK seen \in {obj, None} :
            /\ call' = [call EXCEPT ![s].at = "read", ![s].seen = seen]
            /\ ~(call[s].op # "apply" /\ seen = None)
    BY <2>1 DEF Get
  <2>3. Reads(s)
    BY <1>1, <2>1, <2>2 DEF Get, Reads, Request
  <2> QED
    BY <1>1, <2>2, <2>3 DEF Same
<1> QED
  BY <1>2, <1>3

(* What the three buttons of a page send: the text in the editor to be     *)
(* checked, or what is confirmed.                                          *)
LEMMA PagesSend ==
  ASSUME TypeOK, PagesFit, NEW p \in Pages
  PROVE  /\ handleDryRun(p) =>
                /\ call'[<<p, "check">>] =
                      [op |-> "apply", text |-> page[p].yaml, dry |-> TRUE,
                       at |-> "sent", seen |-> None, ok |-> FALSE]
                /\ \A t \in Slots : t # <<p, "check">> => Same(t)
         /\ handleSubmit(p) =>
                /\ call'[<<p, "save">>] =
                      [op |-> "apply", text |-> page[p].yaml, dry |-> TRUE,
                       at |-> "sent", seen |-> None, ok |-> FALSE]
                /\ \A t \in Slots : t # <<p, "save">> => Same(t)
         /\ handleConfirmDiff(p) =>
                /\ call'[<<p, "save">>] =
                      [op |-> "apply", text |-> Sent(p), dry |-> FALSE,
                       at |-> "sent", seen |-> None, ok |-> FALSE]
                /\ \A t \in Slots : t # <<p, "save">> => Same(t)
<1>1. page[p] \in PageState /\ PageFits(p)
  BY DEF TypeOK, PageState, PagesFit
<1>2. page[p].at = "open" => page[p].yaml \in Texts
  BY <1>1 DEF PageFits, PageState
<1>3. page[p].at = "open" /\ page[p].diff => Sent(p) \in Texts
  BY <1>1 DEF PageFits, PageState, Sent
<1>4. <<p, "check">> \in Slots /\ <<p, "save">> \in Slots
  BY SlotShape
<1>5. ASSUME handleDryRun(p)
      PROVE  page[p].yaml \in Texts /\ Send(<<p, "check">>, "apply", page[p].yaml, TRUE)
  BY <1>2, <1>5 DEF handleDryRun
<1>6. ASSUME handleSubmit(p)
      PROVE  page[p].yaml \in Texts /\ Send(<<p, "save">>, "apply", page[p].yaml, TRUE)
  BY <1>2, <1>6 DEF handleSubmit
<1>7. ASSUME handleConfirmDiff(p)
      PROVE  Sent(p) \in Texts /\ Send(<<p, "save">>, "apply", Sent(p), FALSE)
  BY <1>3, <1>7 DEF handleConfirmDiff
<1>8. ASSUME NEW s \in Slots, NEW text \in Texts, NEW dry \in BOOLEAN,
             Send(s, "apply", text, dry)
      PROVE  /\ call'[s] = [op |-> "apply", text |-> text, dry |-> dry,
                            at |-> "sent", seen |-> None, ok |-> FALSE]
             /\ \A t \in Slots : t # s => Same(t)
  BY <1>8, SendFills DEF Same
<1> QED
  <2>1. handleDryRun(p) => /\ call'[<<p, "check">>] =
                                [op |-> "apply", text |-> page[p].yaml, dry |-> TRUE,
                                 at |-> "sent", seen |-> None, ok |-> FALSE]
                          /\ \A t \in Slots : t # <<p, "check">> => Same(t)
    BY <1>4, <1>5, <1>8
  <2>2. handleSubmit(p) => /\ call'[<<p, "save">>] =
                                [op |-> "apply", text |-> page[p].yaml, dry |-> TRUE,
                                 at |-> "sent", seen |-> None, ok |-> FALSE]
                          /\ \A t \in Slots : t # <<p, "save">> => Same(t)
    BY <1>4, <1>6, <1>8
  <2>3. handleConfirmDiff(p) =>
            /\ call'[<<p, "save">>] = [op |-> "apply", text |-> Sent(p), dry |-> FALSE,
                                      at |-> "sent", seen |-> None, ok |-> FALSE]
            /\ \A t \in Slots : t # <<p, "save">> => Same(t)
    BY <1>4, <1>7, <1>8
  <2> QED
    BY <2>1, <2>2, <2>3

(* A request in such a state has been sent.                                *)
LEMMA SentIsSent ==
  \A s, op, text, dry :
      call'[s] = [op |-> op, text |-> text, dry |-> dry, at |-> "sent",
                  seen |-> None, ok |-> FALSE]
      => Sends(s) /\ call'[s].op = op /\ call'[s].text = text /\ call'[s].dry = dry
  BY DEF Sends

(* Every step leaves a slot alone, or moves it on in one of these ways.    *)
LEMMA SlotsMove ==
  ASSUME TypeOK, SlotsFit, PagesFit, [Next]_vars, NEW s \in Slots
  PROVE  \/ Same(s) \/ Reads(s) \/ Ends(s) \/ Forgets(s)
         \/ /\ Sends(s)
            /\ s[2] = "check" => call'[s].dry
            /\ s[2] # "api" => call'[s].op = "apply"
<1>1. ASSUME NEW p \in Pages, Use(p)
      PROVE  \/ Same(s)
             \/ /\ Sends(s) /\ call'[s].op = "apply"
                /\ s[2] = "check" => call'[s].dry
  <2>1. CASE handleDryRun(p) \/ handleSubmit(p) \/ handleConfirmDiff(p)
    <3>1. CASE handleDryRun(p)
      <4>1. call'[<<p, "check">>].op = "apply" /\ call'[<<p, "check">>].dry
            /\ Sends(<<p, "check">>)
        <5>1. call'[<<p, "check">>] = [op |-> "apply", text |-> page[p].yaml,
                  dry |-> TRUE, at |-> "sent", seen |-> None, ok |-> FALSE]
          BY <3>1, PagesSend
        <5> QED
          BY <5>1, SentIsSent
      <4>2. s # <<p, "check">> => Same(s)
        BY <3>1, PagesSend
      <4> QED
        BY <4>1, <4>2
    <3>2. CASE handleSubmit(p) \/ handleConfirmDiff(p)
      <4>1. call'[<<p, "save">>].op = "apply" /\ Sends(<<p, "save">>)
            /\ <<p, "save">>[2] # "check"
        <5>1. \E text, dry : call'[<<p, "save">>] = [op |-> "apply", text |-> text,
                  dry |-> dry, at |-> "sent", seen |-> None, ok |-> FALSE]
          BY <3>2, PagesSend
        <5>2. call'[<<p, "save">>].op = "apply" /\ Sends(<<p, "save">>)
          BY <5>1, SentIsSent
        <5> QED
          BY <5>2
      <4>2. s # <<p, "save">> => Same(s)
        BY <3>2, PagesSend
      <4> QED
        BY <4>1, <4>2
    <3> QED
      BY <2>1, <3>1, <3>2
  <2>2. CASE Load(p) \/ Type(p) \/ Reset(p) \/ CancelDiff(p) \/ handleBack(p)
    BY <2>2 DEF Load, Type, Reset, CancelDiff, handleBack, Same
  <2> QED
    BY <1>1, <2>1, <2>2 DEF Use
<1>2. ASSUME NEW t \in Slots, Serve(t)
      PROVE  Same(s) \/ Reads(s) \/ Ends(s) \/ Forgets(s)
  <2>1. CASE Deliver(t)
    <3>1. call \in [Slots -> {None} \cup Request]
      BY DEF TypeOK, Request
    <3> QED
      BY <2>1, <3>1 DEF Deliver, Same, Forgets
  <2> QED
    BY <1>2, <2>1, HandlersMoveTheirSlot DEF Serve
<1>3. ASSUME NEW c \in Clients, Ask(c)
      PROVE  Same(s) \/ (s[2] = "api" /\ Sends(s))
  <2>1. \A r \in Requested :
            [meta |-> r.meta, data |-> r.data, extra |-> None,
             uid |-> None, rv |-> None] \in Texts
    BY ProperInputs DEF Texts
  <2>2. PICK op \in {"apply", "set", "replace"}, text \in Texts :
            Send(<<c, "api">>, op, text, FALSE)
    BY <1>3, <2>1 DEF Ask, Operations
  <2>3. CASE s = <<c, "api">>
    <3>1. Sends(<<c, "api">>) /\ <<c, "api">>[2] = "api"
      <4>0. <<c, "api">> \in Slots
        BY SlotShape
      <4>1. call'[<<c, "api">>] = [op |-> op, text |-> text,
                dry |-> FALSE, at |-> "sent", seen |-> None, ok |-> FALSE]
        BY <2>2, <4>0, SendFills
      <4>2. Sends(<<c, "api">>)
        BY <4>1, SentIsSent
      <4> QED
        BY <4>2
    <3> QED
      BY <2>3, <3>1
  <2>4. CASE s # <<c, "api">>
    BY <2>2, <2>4, SlotShape, SendFills DEF Same
  <2> QED
    BY <2>3, <2>4
<1>4. CASE Create \/ Delete \/ Elsewhere \/ UNCHANGED vars
  BY <1>4 DEF Create, Delete, Elsewhere, vars, Same
<1> QED
  BY <1>1, <1>2, <1>3, <1>4 DEF Next

(* Every step keeps what a request has made sure of.                       *)
LEMMA NextSlotsFit == TypeOK /\ SlotsFit /\ PagesFit /\ [Next]_vars => SlotsFit'
<1> SUFFICES ASSUME TypeOK, SlotsFit, PagesFit, [Next]_vars,
                    NEW s \in Slots, call'[s] # None
             PROVE  /\ s[2] = "check" => call'[s].dry
                    /\ s[2] # "api" => call'[s].op = "apply"
                    /\ call'[s].at = "ended" => s[2] = "save"
                    /\ call'[s].at = "read" =>
                           /\ Decoded(call[s])' # Bad
                           /\ call'[s].op # "apply" => call'[s].seen # None
  BY DEF SlotsFit
<1>1. kind' = kind
  BY DEF Next, Use, Serve, Load, Type, Reset, handleDryRun, handleSubmit,
         handleConfirmDiff, CancelDiff, handleBack, Fail, Get, Put, Deliver,
         Ask, Create, Delete, Elsewhere, vars
<1>2. CASE Same(s)
  BY <1>1, <1>2 DEF Same, SlotsFit, Decoded
<1>3. CASE Reads(s)
  BY <1>1, <1>3 DEF Reads, SlotsFit, Decoded
<1>4. CASE Ends(s)
  BY <1>4 DEF Ends, SlotsFit
<1>5. CASE Sends(s) /\ (s[2] = "check" => call'[s].dry)
                    /\ (s[2] # "api" => call'[s].op = "apply")
  BY <1>5 DEF Sends
<1> QED
  BY <1>2, <1>3, <1>4, <1>5, SlotsMove DEF Forgets

(* The object stays, goes, or comes with a version nobody has seen.        *)
LEMMA ObjectMoves ==
  ASSUME TypeOK, SlotsFit, [Next]_vars
  PROVE  \/ UNCHANGED <<obj, version>>
         \/ obj' = None /\ version' = version
         \/ /\ version' = version + 1
            /\ obj' \in Objects /\ obj'.rv = version + 1
<1>1. ASSUME NEW p \in Pages, Use(p) PROVE UNCHANGED <<obj, version>>
  BY <1>1 DEF Use, Load, Type, Reset, handleDryRun, handleSubmit,
              handleConfirmDiff, CancelDiff, handleBack
<1>2. ASSUME NEW s \in Slots, Fail(s) \/ Get(s) \/ Deliver(s)
      PROVE  UNCHANGED <<obj, version>>
  BY <1>2 DEF Fail, Get, Deliver
<1>3. ASSUME NEW s \in Slots, Put(s)
      PROVE  \/ UNCHANGED <<obj, version>>
             \/ /\ version' = version + 1
                /\ obj' \in Objects /\ obj'.rv = version + 1
  BY <1>3, PutStores
<1>4. CASE Create
  <2>1. version + 1 \in Versions
    BY <1>4, Bounds DEF Create, TypeOK, Versions
  <2> QED
    BY <1>4, <2>1, ProperInputs DEF Create, Objects
<1>5. CASE Elsewhere
  <2>1. version + 1 \in Versions /\ obj \in Objects
    BY <1>5, Bounds DEF Elsewhere, TypeOK, Versions
  <2>2. PICK o \in {[obj EXCEPT !.data = d] : d \in Data}
                    \cup {[obj EXCEPT !.extra = e] : e \in Extra} :
            obj' = [o EXCEPT !.rv = version + 1]
    BY <1>5 DEF Elsewhere
  <2>3. o \in Objects
    <3>1. \/ \E d \in Data : o = [obj EXCEPT !.data = d]
          \/ \E e \in Extra : o = [obj EXCEPT !.extra = e]
      BY <2>2
    <3> QED
      BY <2>1, <3>1 DEF Objects
  <2> QED
    BY <1>5, <2>1, <2>2, <2>3 DEF Elsewhere, Objects
<1>6. CASE Delete \/ UNCHANGED vars \/ \E c \in Clients : Ask(c)
  BY <1>6 DEF Delete, vars, Ask
<1> QED
  BY <1>1, <1>2, <1>3, <1>4, <1>5, <1>6 DEF Next, Serve

(* Every step keeps versions unique.                                       *)
LEMMA NextVersions ==
  TypeOK /\ SlotsFit /\ PagesFit /\ VersionsAreUnique /\ [Next]_vars => VersionsAreUnique'
<1> SUFFICES ASSUME TypeOK, SlotsFit, PagesFit, VersionsAreUnique, [Next]_vars
             PROVE  VersionsAreUnique'
  OBVIOUS
<1>1. version \in Nat /\ obj \in Objects \cup {None}
      /\ call \in [Slots -> {None} \cup Request]
  BY DEF TypeOK, Versions, Request
<1>2. \A o \in Objects : o.rv \in Nat
  BY DEF Objects, Versions
<1>3. obj' # None => obj'.rv <= version' /\ version' \in Nat
  BY <1>1, <1>2, ObjectMoves DEF VersionsAreUnique
<1>4. version' \in Nat /\ version <= version'
  BY <1>1, ObjectMoves
<1>5. ASSUME NEW s \in Slots, call'[s] # None, call'[s].seen # None
      PROVE  /\ call'[s].seen \in Objects
             /\ call'[s].seen.rv <= version
             /\ obj # None /\ obj.rv = call'[s].seen.rv => obj = call'[s].seen
  <2>1. CASE Same(s)
    BY <1>1, <1>5, <2>1 DEF Same, VersionsAreUnique, Request
  <2>2. CASE Reads(s)
    BY <1>1, <1>5, <2>2 DEF Reads, VersionsAreUnique
  <2> QED
    BY <1>5, <2>1, <2>2, SlotsMove DEF Sends, Ends, Forgets
<1>6. ASSUME NEW s \in Slots, call'[s] # None, call'[s].seen # None,
             obj' # None, obj'.rv = call'[s].seen.rv
      PROVE  obj' = call'[s].seen
  <2>1. call'[s].seen.rv \in Nat /\ call'[s].seen.rv <= version
    BY <1>2, <1>5, <1>6
  <2>2. UNCHANGED <<obj, version>>
    BY <1>1, <1>6, <2>1, ObjectMoves
  <2> QED
    BY <1>5, <1>6, <2>2
<1>7. ASSUME NEW s \in Slots, call'[s] # None, call'[s].seen # None
      PROVE  call'[s].seen.rv <= version'
  BY <1>1, <1>2, <1>4, <1>5, <1>7
<1> QED
  BY <1>3, <1>6, <1>7 DEF VersionsAreUnique

-----------------------------------------------------------------------------
(* A step that does nothing to a page: its saving, if one is under way,    *)
(* goes on with the same text.                                             *)
LeftAlone(p) ==
    /\ kind' = kind /\ page'[p] = page[p] /\ base'[p] = base[p]
    /\ moved'[p] = moved[p]
    /\ ~Idle(p)' => /\ ~Idle(p)
                    /\ call'[<<p, "save">>].text = call[<<p, "save">>].text
                    /\ call'[<<p, "save">>].dry = call[<<p, "save">>].dry

(* A step does nothing to a page, or it is its user's or brings the answer *)
(* to its saving.                                                          *)
LEMMA PagesMove ==
  ASSUME TypeOK, SlotsFit, PagesFit, [Next]_vars, NEW p \in Pages
  PROVE  LeftAlone(p) \/ Use(p) \/ Deliver(<<p, "save">>)
<1> DEFINE slot == <<p, "save">>
<1>1. slot \in Slots /\ slot[2] = "save"
  BY SlotShape
<1>2. /\ page \in [Pages -> PageState]
      /\ base \in [Pages -> Objects \cup {None}]
      /\ moved \in [Pages -> BOOLEAN]
  BY DEF TypeOK, PageState
<1>3. ASSUME NEW q \in Pages, q # p, Use(q) PROVE LeftAlone(p)
  <2>1. <<q, "check">> # slot /\ <<q, "save">> # slot
    BY <1>3
  <2>2. call'[slot] = call[slot]
    <3>1. CASE handleDryRun(q) \/ handleSubmit(q) \/ handleConfirmDiff(q)
      BY <1>1, <2>1, <3>1, PagesSend DEF Same
    <3>2. CASE Load(q) \/ Type(q) \/ Reset(q) \/ CancelDiff(q) \/ handleBack(q)
      BY <3>2 DEF Load, Type, Reset, CancelDiff, handleBack
    <3> QED
      BY <1>3, <3>1, <3>2 DEF Use
  <2>3. /\ kind' = kind /\ page'[p] = page[p] /\ base'[p] = base[p]
        /\ moved'[p] = moved[p]
    BY <1>2, <1>3 DEF Use, Load, Type, Reset, handleDryRun, handleSubmit,
                      handleConfirmDiff, CancelDiff, handleBack
  <2> QED
    BY <2>2, <2>3 DEF LeftAlone, Idle
<1>4. ASSUME NEW s \in Slots, Fail(s) \/ Get(s) \/ Put(s) PROVE LeftAlone(p)
  <2>1. UNCHANGED <<kind, page, base, moved>>
    BY <1>4 DEF Fail, Get, Put
  <2>2. Same(slot) \/ Reads(slot) \/ Ends(slot) \/ call'[slot] = None
    BY <1>1, <1>4, HandlersMoveTheirSlot DEF Forgets
  <2> QED
    BY <2>1, <2>2 DEF LeftAlone, Idle, Same, Reads, Ends
<1>5. ASSUME NEW s \in Slots, Deliver(s), s # slot PROVE LeftAlone(p)
  <2>1. s[2] = "save" /\ s[1] \in Pages /\ s = <<s[1], s[2]>>
    BY <1>5, SlotShape DEF Deliver, SlotsFit
  <2>2. s[1] # p
    BY <1>5, <2>1
  <2>3. call'[slot] = call[slot] /\ page'[p] = page[p]
        /\ UNCHANGED <<kind, base, moved>>
    BY <1>1, <1>2, <1>5, <2>2 DEF Deliver, TypeOK
  <2> QED
    BY <2>3 DEF LeftAlone, Idle
<1>6. ASSUME NEW c \in Clients, Ask(c) PROVE LeftAlone(p)
  <2>1. UNCHANGED <<kind, page, base, moved>>
    BY <1>6 DEF Ask
  <2>2. <<c, "api">> # slot
    OBVIOUS
  <2>3. call'[slot] = call[slot]
    BY <1>1, <1>6, <2>2 DEF Ask, Send, TypeOK
  <2> QED
    BY <2>1, <2>3 DEF LeftAlone, Idle
<1>7. CASE Create \/ Delete \/ Elsewhere \/ UNCHANGED vars
  BY <1>7 DEF Create, Delete, Elsewhere, vars, LeftAlone, Idle
<1> QED
  BY <1>3, <1>4, <1>5, <1>6, <1>7 DEF Next, Serve

(* What holds of a page that is left alone goes on holding.                *)
LEMMA AloneKeeps ==
  ASSUME NEW p \in Pages, LeftAlone(p), PageFits(p), SaveIsReviewed(p), TextsTell(p)
  PROVE  PageFits(p)' /\ SaveIsReviewed(p)' /\ TextsTell(p)'
<1>1. PageFits(p)'
  BY DEF LeftAlone, PageFits, Blank
<1>2. SaveIsReviewed(p)'
  BY DEF LeftAlone, SaveIsReviewed
<1>3. TextsTell(p)'
  BY DEF LeftAlone, TextsTell, Tells
<1> QED
  BY <1>1, <1>2, <1>3

(* What the user of a page does keeps it.                                  *)
LEMMA UseKeeps ==
  ASSUME TypeOK, PagesFit, NEW p \in Pages, Use(p),
         SaveIsReviewed(p), TextsTell(p)
  PROVE  PageFits(p)' /\ SaveIsReviewed(p)' /\ TextsTell(p)'
<1>1. /\ page \in [Pages -> PageState] /\ page[p] \in PageState
      /\ base \in [Pages -> Objects \cup {None}] /\ obj \in Objects \cup {None}
      /\ moved \in [Pages -> BOOLEAN] /\ PageFits(p)
  BY DEF TypeOK, PageState, PagesFit
<1>2. <<p, "save">> \in Slots /\ <<p, "check">> \in Slots /\ <<p, "check">> # <<p, "save">>
  BY SlotShape
<1>3. None \notin Texts
  BY NothingIsNoValue
<1>4. CASE Load(p)
  <2>1. page[p] = Blank /\ Idle(p) /\ Idle(p)'
    BY <1>1, <1>4 DEF Load, PageFits, Idle
  <2>2. CASE obj # None /\ base'[p] = obj
             /\ page'[p] = [page[p] EXCEPT !.at = "open", !.yaml = PageText(kind, obj),
                                           !.original = PageText(kind, obj)]
    <3> DEFINE text == PageText(kind, obj)
    <3>1. text \in Texts /\ Tells(text, obj)
      BY <1>1, <2>2, PageTextIsText DEF Tells
    <3>2. page'[p].at = "open" /\ page'[p].yaml = text /\ page'[p].original = text
          /\ page'[p].pending = page[p].pending /\ page'[p].diff = page[p].diff
      BY <1>1, <2>2 DEF PageState
    <3>3. page[p].pending = None /\ page[p].diff = FALSE
      BY <2>1 DEF Blank
    <3> HIDE DEF text
    <3>4. PageFits(p)'
      BY <1>3, <3>1, <3>2, <3>3 DEF PageFits
    <3>5. SaveIsReviewed(p)'
      BY <2>1, <3>2, <3>3 DEF SaveIsReviewed
    <3>6. TextsTell(p)'
      BY <2>1, <2>2, <3>1, <3>2, <3>3 DEF TextsTell
    <3> QED
      BY <3>4, <3>5, <3>6
  <2>3. CASE page'[p] = [page[p] EXCEPT !.at = "left"]
    <3>1. page'[p].at = "left" /\ page'[p].yaml = page[p].yaml
          /\ page'[p].original = page[p].original
          /\ page'[p].pending = page[p].pending
      BY <1>1, <2>3 DEF PageState
    <3>2. page[p].yaml = None /\ page[p].original = None /\ page[p].pending = None
      BY <2>1 DEF Blank
    <3> QED
      BY <2>1, <3>1, <3>2 DEF PageFits, SaveIsReviewed, TextsTell
  <2> QED
    BY <1>1, <1>4, <2>2, <2>3 DEF Load
<1>5. CASE Type(p) \/ Reset(p)
  <2>1. PICK text \in Texts :
            /\ page'[p] = [page[p] EXCEPT !.yaml = text]
            /\ Tells(text, base[p])
    <3>1. page[p].yaml \in Texts /\ page[p].original \in Texts
      BY <1>1, <1>5 DEF Type, Reset, PageFits, PageState
    <3>2. Tells(page[p].yaml, base[p]) /\ Tells(page[p].original, base[p])
      BY <1>3, <3>1 DEF TextsTell
    <3>3. CASE Reset(p)
      BY <1>1, <3>1, <3>2, <3>3 DEF Reset
    <3>4. CASE Type(p)
      <4>1. PICK text \in {[page[p].yaml EXCEPT !.meta = m] : m \in Meta}
                   \cup {[page[p].yaml EXCEPT !.data = d] : d \in Data}
                   \cup {[page[p].yaml EXCEPT !.uid = None], [page[p].yaml EXCEPT !.rv = None]} :
                page' = [page EXCEPT ![p].yaml = text]
        BY <3>4 DEF Type
      <4>2. text \in Texts /\ Tells(text, base[p])
        <5>1. \/ \E m \in Meta : text = [page[p].yaml EXCEPT !.meta = m]
              \/ \E d \in Data : text = [page[p].yaml EXCEPT !.data = d]
              \/ text = [page[p].yaml EXCEPT !.uid = None]
              \/ text = [page[p].yaml EXCEPT !.rv = None]
          BY <4>1
        <5> QED
          BY <3>1, <3>2, <5>1 DEF Texts, Tells
      <4> QED
        BY <1>1, <4>1, <4>2
    <3> QED
      BY <1>5, <3>3, <3>4
  <2>2. page'[p].yaml = text /\ page'[p].original = page[p].original
        /\ page'[p].pending = page[p].pending /\ page'[p].diff = page[p].diff
        /\ page'[p].at = page[p].at
    BY <1>1, <2>1 DEF PageState
  <2>3. page[p].at = "open" /\ ~page[p].diff /\ moved'[p] = (moved[p] \/ ~Idle(p))
        /\ UNCHANGED <<kind, call, base>>
    BY <1>1, <1>5 DEF Type, Reset
  <2>4. PageFits(p)'
    BY <1>1, <1>3, <2>1, <2>2, <2>3 DEF PageFits
  <2>5. SaveIsReviewed(p)'
    BY <2>2, <2>3 DEF SaveIsReviewed, Idle
  <2>6. TextsTell(p)'
    BY <2>1, <2>2, <2>3 DEF TextsTell, Idle
  <2> QED
    BY <2>4, <2>5, <2>6
<1>6. CASE handleDryRun(p)
  <2>1. UNCHANGED <<kind, page, base, moved>>
    BY <1>6 DEF handleDryRun
  <2>2. call'[<<p, "save">>] = call[<<p, "save">>]
    BY <1>2, <1>6, PagesSend DEF Same
  <2> QED
    BY <1>1, <2>1, <2>2, AloneKeeps DEF LeftAlone, Idle
<1>7. CASE handleSubmit(p) \/ handleConfirmDiff(p)
  <2> DEFINE c == call'[<<p, "save">>]
  <2>1. UNCHANGED <<kind, page, base>> /\ page[p].at = "open"
    BY <1>7 DEF handleSubmit, handleConfirmDiff
  <2>2. /\ handleSubmit(p) => c.dry = TRUE /\ c.text = page[p].yaml
        /\ handleConfirmDiff(p) => c.dry = FALSE /\ c.text = Sent(p)
    <3>1. CASE handleSubmit(p)
      <4>1. c = [op |-> "apply", text |-> page[p].yaml, dry |-> TRUE,
                 at |-> "sent", seen |-> None, ok |-> FALSE]
        BY <3>1, PagesSend
      <4>2. page[p].diff = FALSE
        BY <1>1, <3>1 DEF handleSubmit, PageState
      <4>3. c.dry = TRUE /\ c.text = page[p].yaml
        BY <4>1, SentIsSent
      <4> QED
        BY <4>2, <4>3 DEF handleConfirmDiff
    <3>2. CASE handleConfirmDiff(p)
      <4>1. c = [op |-> "apply", text |-> Sent(p), dry |-> FALSE,
                 at |-> "sent", seen |-> None, ok |-> FALSE]
        BY <3>2, PagesSend
      <4>2. page[p].diff = TRUE
        BY <1>1, <3>2 DEF handleConfirmDiff, PageState
      <4>3. c.dry = FALSE /\ c.text = Sent(p)
        BY <4>1, SentIsSent
      <4> QED
        BY <4>2, <4>3 DEF handleSubmit
    <3> QED
      BY <1>7, <3>1, <3>2
  <2> HIDE DEF c
  <2>3. PageFits(p)'
    BY <1>1, <2>1 DEF PageFits, Blank
  <2>4. SaveIsReviewed(p)'
    <3>1. CASE handleSubmit(p)
      BY <2>1, <2>2, <3>1 DEF handleSubmit, SaveIsReviewed, c
    <3>2. CASE handleConfirmDiff(p)
      BY <2>1, <2>2, <3>2 DEF handleConfirmDiff, SaveIsReviewed, Sent, c
    <3> QED
      BY <1>7, <3>1, <3>2
  <2>5. Tells(c.text, base[p])
    <3>1. c.text = page[p].yaml \/ (page[p].diff /\ c.text = page[p].pending)
      BY <1>7, <2>2 DEF Sent, handleConfirmDiff
    <3> QED
      BY <1>1, <2>1, <3>1 DEF TextsTell, PageFits
  <2>6. TextsTell(p)'
    BY <2>1, <2>5 DEF TextsTell, c, Tells
  <2> QED
    BY <2>3, <2>4, <2>6
<1>8. CASE CancelDiff(p)
  <2>1. page'[p] = [page[p] EXCEPT !.diff = FALSE] /\ UNCHANGED <<kind, call, base, moved>>
        /\ page[p].at = "open"
    BY <1>1, <1>8 DEF CancelDiff
  <2>2. page'[p].yaml = page[p].yaml /\ page'[p].original = page[p].original
        /\ page'[p].pending = page[p].pending /\ page'[p].diff = FALSE
        /\ page'[p].at = page[p].at
    BY <1>1, <2>1 DEF PageState
  <2>3. PageFits(p)'
    BY <1>1, <2>1, <2>2 DEF PageFits
  <2>4. SaveIsReviewed(p)'
    BY <2>1, <2>2 DEF SaveIsReviewed, Idle
  <2>5. TextsTell(p)'
    BY <2>1, <2>2 DEF TextsTell, Idle
  <2> QED
    BY <2>3, <2>4, <2>5
<1>9. CASE handleBack(p)
  <2>1. page'[p] = Left(p) /\ UNCHANGED <<kind, call, base, moved>>
    BY <1>1, <1>9 DEF handleBack
  <2>2. /\ Left(p).at = "left" /\ Left(p).yaml = None /\ Left(p).original = None
        /\ Left(p).pending = page[p].pending
    BY DEF Left, Blank
  <2>3. PageFits(p)'
    BY <2>1, <2>2 DEF PageFits
  <2>4. SaveIsReviewed(p)'
    BY <2>1, <2>2 DEF SaveIsReviewed, Idle
  <2>5. TextsTell(p)'
    BY <2>1, <2>2 DEF TextsTell, Idle
  <2> QED
    BY <2>3, <2>4, <2>5
<1> QED
  BY <1>4, <1>5, <1>6, <1>7, <1>8, <1>9 DEF Use

(* So does the answer to its saving.                                       *)
LEMMA AnswerKeeps ==
  ASSUME TypeOK, PagesFit, NEW p \in Pages, Deliver(<<p, "save">>),
         SaveIsReviewed(p), TextsTell(p)
  PROVE  PageFits(p)' /\ SaveIsReviewed(p)' /\ TextsTell(p)'
<1> DEFINE c == call[<<p, "save">>]
<1>1. /\ page \in [Pages -> PageState] /\ page[p] \in PageState
      /\ call \in [Slots -> {None} \cup Request] /\ PageFits(p)
  BY DEF TypeOK, PageState, Request, PagesFit
<1>2. <<p, "save">> \in Slots
  BY SlotShape
<1>3. /\ c # None /\ ~Idle(p) /\ Idle(p)'
      /\ UNCHANGED <<kind, base, moved>>
      /\ page'[p] = Answered(p, c)
  BY <1>1, <1>2 DEF Deliver, Idle
<1>4. c \in Request /\ c.text \in Texts
  BY <1>1, <1>2, <1>3 DEF Request
<1>5. /\ Tells(c.text, base[p])
      /\ c.dry /\ page[p].at = "open" => c.text = page[p].yaml \/ moved[p]
  BY <1>3 DEF TextsTell, SaveIsReviewed
<1>6. page[p].at # "loading"
  BY <1>1, <1>3 DEF PageFits
<1> HIDE DEF c
<1>7. CASE page'[p] = page[p]
  <2>1. PageFits(p)'
    BY <1>1, <1>6, <1>7 DEF PageFits
  <2>2. SaveIsReviewed(p)'
    BY <1>3, <1>7 DEF SaveIsReviewed
  <2>3. TextsTell(p)'
    BY <1>3, <1>7 DEF TextsTell
  <2> QED
    BY <2>1, <2>2, <2>3
<1>8. CASE c.dry /\ page[p].at = "open"
           /\ page'[p] = [page[p] EXCEPT !.pending = c.text, !.diff = TRUE]
  <2>1. page'[p].yaml = page[p].yaml /\ page'[p].original = page[p].original
        /\ page'[p].pending = c.text /\ page'[p].at = "open"
    BY <1>1, <1>8 DEF PageState
  <2>2. PageFits(p)'
    BY <1>1, <1>4, <1>8, <2>1, NothingIsNoValue DEF PageFits
  <2>3. SaveIsReviewed(p)'
    BY <1>3, <1>5, <1>8, <2>1 DEF SaveIsReviewed
  <2>4. TextsTell(p)'
    BY <1>3, <1>5, <2>1 DEF TextsTell
  <2> QED
    BY <2>2, <2>3, <2>4
<1>9. CASE page[p].at = "open"
           /\ page'[p] = [page[p] EXCEPT !.original = c.text, !.diff = FALSE]
  <2>1. page'[p].yaml = page[p].yaml /\ page'[p].original = c.text
        /\ page'[p].pending = page[p].pending /\ page'[p].at = "open"
        /\ page'[p].diff = FALSE
    BY <1>1, <1>9 DEF PageState
  <2>2. PageFits(p)'
    BY <1>1, <1>4, <1>9, <2>1, NothingIsNoValue DEF PageFits
  <2>3. SaveIsReviewed(p)'
    BY <1>3, <2>1 DEF SaveIsReviewed
  <2>4. TextsTell(p)'
    BY <1>3, <1>5, <2>1 DEF TextsTell
  <2> QED
    BY <2>2, <2>3, <2>4
<1>10. CASE page'[p] = Left(p)
  <2>1. /\ Left(p).at = "left" /\ Left(p).yaml = None /\ Left(p).original = None
        /\ Left(p).pending = page[p].pending
    BY DEF Left, Blank
  <2>2. PageFits(p)'
    BY <1>10, <2>1 DEF PageFits
  <2>3. SaveIsReviewed(p)'
    BY <1>3, <1>10, <2>1 DEF SaveIsReviewed
  <2>4. TextsTell(p)'
    BY <1>3, <1>10, <2>1 DEF TextsTell
  <2> QED
    BY <2>2, <2>3, <2>4
<1> QED
  <2>1. page[p].at \in {"loading", "open", "left"}
    BY <1>1 DEF PageState
  <2> QED
    BY <1>3, <1>6, <1>7, <1>8, <1>9, <1>10, <2>1 DEF Answered

(* Every state is as the inductive invariant says.                         *)
LEMMA Invariance == Spec => []IInv
<1>1. Init => IInv
  BY InitIInv
<1>2. IInv /\ [Next]_vars => IInv'
  <2> SUFFICES ASSUME IInv, [Next]_vars PROVE IInv'
    OBVIOUS
  <2>1. TypeOK' /\ SlotsFit' /\ VersionsAreUnique'
    BY NextTypeOK, NextSlotsFit, NextVersions DEF IInv
  <2>2. ASSUME NEW p \in Pages
        PROVE  PageFits(p)' /\ SaveIsReviewed(p)' /\ TextsTell(p)'
    <3>1. PageFits(p) /\ SaveIsReviewed(p) /\ TextsTell(p)
      BY DEF IInv, PagesFit, SavesAreReviewed, TextsTellTheirObject
    <3>2. TypeOK /\ SlotsFit /\ PagesFit
      BY DEF IInv
    <3>3. CASE LeftAlone(p)
      BY <3>1, <3>3, AloneKeeps
    <3>4. CASE Use(p)
      BY <3>1, <3>2, <3>4, UseKeeps
    <3>5. CASE Deliver(<<p, "save">>)
      BY <3>1, <3>2, <3>5, AnswerKeeps
    <3> QED
      BY <3>2, <3>3, <3>4, <3>5, PagesMove
  <2> QED
    BY <2>1, <2>2 DEF IInv, PagesFit, SavesAreReviewed, TextsTellTheirObject
<1> QED
  BY <1>1, <1>2, PTL DEF Spec

-----------------------------------------------------------------------------
(* The step in which a request changes the object is its own accepted      *)
(* write, of what somebody else has not touched since it was read.         *)
LEMMA LandingIsAccepted ==
  ASSUME IInv, [Next]_vars, NEW s \in Slots, Lands(s)
  PROVE  /\ call[s] \in Request /\ call[s].at = "read"
         /\ Accepts(call[s]) /\ ~call[s].dry
         /\ obj' = Stored(call[s]) /\ obj = call[s].seen
         /\ call[s].seen # None => obj'.uid = obj.uid
<1>1. TypeOK /\ SlotsFit /\ PagesFit /\ VersionsAreUnique
  BY DEF IInv
<1>2. call[s] # None /\ call[s].at = "read" /\ call'[s] # call[s] /\ obj' # obj
  BY DEF Lands
<1>3. Put(s)
  <2>1. ASSUME NEW t \in Slots, Put(t) PROVE t = s
    BY <1>1, <1>2, <2>1, HandlersMoveTheirSlot DEF Same
  <2>2. PICK t \in Slots : Put(t)
    BY <1>2 DEF Next, Use, Serve, Load, Type, Reset, handleDryRun, handleSubmit,
                handleConfirmDiff, CancelDiff, handleBack, Fail, Get, Deliver,
                Ask, Create, Delete, Elsewhere, vars
  <2> QED
    BY <2>1, <2>2
<1>4. /\ Accepts(call[s]) /\ ~call[s].dry /\ obj' = Stored(call[s])
      /\ call[s].seen # None => obj'.uid = obj.uid
  BY <1>1, <1>2, <1>3, PutStores
<1>5. call[s] \in Request
  BY <1>1, <1>2 DEF TypeOK, Request
<1>6. obj = call[s].seen
  <2>1. CASE call[s].seen = None
    BY <1>4, <2>1 DEF Accepts
  <2>2. CASE call[s].seen # None
    <3> DEFINE seen == call[s].seen
    <3>1. seen \in Objects /\ call[s].text \in Texts
      BY <1>5, <2>2 DEF Request
    <3>2. seen.rv \in Versions
      BY <3>1 DEF Objects
    <3>3. Written(call[s]).rv = seen.rv
      <4>1. CASE call[s].op = "set"
        BY <3>1, <4>1 DEF Written, SetFields, Objects
      <4>2. CASE call[s].op # "set"
        BY <2>2, <3>1, <4>2 DEF Written, Adopt, Texts
      <4> QED
        BY <4>1, <4>2
    <3>4. obj # None /\ seen.rv \in {None, obj.rv}
      BY <1>4, <2>2, <3>3 DEF Accepts
    <3>5. obj # None /\ seen.rv = obj.rv
      BY <3>2, <3>4, NothingIsNoValue
    <3> QED
      BY <1>1, <1>2, <2>2, <3>5 DEF VersionsAreUnique
  <2> QED
    BY <2>1, <2>2
<1> QED
  BY <1>2, <1>4, <1>5, <1>6

(* What a saving changes the object to is its text, with the data decoded, *)
(* an update does not name another object, and a text with a version is    *)
(* not created.                                                            *)
LEMMA SavingIsStored ==
  ASSUME IInv, [Next]_vars, NEW p \in Pages, Lands(<<p, "save">>)
  PROVE  LET c == call[<<p, "save">>]
         IN  /\ c.text \in Texts
             /\ obj'.meta = c.text.meta /\ obj'.extra = c.text.extra
             /\ ~kind.base64 => obj'.data = c.text.data
             /\ c.text.rv # None => obj # None
             /\ c.text.uid # None /\ obj # None => obj'.uid = c.text.uid
<1> DEFINE s == <<p, "save">>
           c == call[s]
           text == [c.text EXCEPT !.data = Decoded(c)]
           new == Written(c)
<1>1. s \in Slots /\ s[2] = "save"
  BY SlotShape
<1>2. /\ c \in Request /\ c # None /\ Accepts(c) /\ obj' = Stored(c)
      /\ obj = c.seen
      /\ c.seen # None => obj'.uid = obj.uid
  BY <1>1, LandingIsAccepted DEF Lands
<1>3. c.op = "apply"
  BY <1>1, <1>2 DEF IInv, SlotsFit
<1>4. c.text \in Texts /\ c.seen \in Objects \cup {None}
  BY <1>2 DEF Request
<1>5. ~kind.base64 => Decoded(c) = c.text.data
  BY DEF Decoded
<1> HIDE DEF c
<1>6. /\ text = [meta |-> c.text.meta, data |-> Decoded(c), extra |-> c.text.extra,
                 uid |-> c.text.uid, rv |-> c.text.rv]
  BY <1>4 DEF Texts
<1>7. new = IF c.seen = None THEN text ELSE [text EXCEPT !.rv = c.seen.rv]
  BY <1>3 DEF Written, Adopt
<1> HIDE DEF text
<1>8. /\ new.meta = c.text.meta /\ new.data = Decoded(c) /\ new.extra = c.text.extra
      /\ new.uid = c.text.uid
      /\ c.seen = None => new.rv = c.text.rv
      /\ \E r : new = [meta |-> c.text.meta, data |-> Decoded(c), extra |-> c.text.extra,
                       uid |-> c.text.uid, rv |-> r]
  <2> DEFINE m == c.text.meta
             d == Decoded(c)
             e == c.text.extra
             u == c.text.uid
             v == c.text.rv
  <2>1. text = [meta |-> m, data |-> d, extra |-> e, uid |-> u, rv |-> v]
    BY <1>6
  <2> HIDE DEF m, d, e, u, v
  <2>2. CASE c.seen = None
    <3>1. new = [meta |-> m, data |-> d, extra |-> e, uid |-> u, rv |-> v]
      BY <1>7, <2>1, <2>2
    <3>2. new.meta = m /\ new.data = d /\ new.extra = e /\ new.uid = u /\ new.rv = v
      BY <3>1
    <3> QED
      BY <2>2, <3>1, <3>2 DEF m, d, e, u, v
  <2>3. CASE c.seen # None
    <3>1. new = [meta |-> m, data |-> d, extra |-> e, uid |-> u, rv |-> c.seen.rv]
      BY <1>7, <2>1, <2>3
    <3>2. new.meta = m /\ new.data = d /\ new.extra = e /\ new.uid = u
      BY <3>1
    <3> QED
      BY <2>3, <3>1, <3>2 DEF m, d, e, u, v
  <2> QED
    BY <2>2, <2>3
<1>9. obj' = [new EXCEPT !.rv = version + 1,
                         !.uid = IF c.seen = None THEN version + 1 ELSE obj.uid]
  BY <1>2 DEF Stored
<1>10. c.seen = None => obj = None /\ new.rv = None
  BY <1>2 DEF Accepts
<1>11. c.seen # None => obj # None /\ new.uid \in {None, obj.uid}
  BY <1>2 DEF Accepts
<1> HIDE DEF new
<1>12. obj'.meta = new.meta /\ obj'.data = new.data /\ obj'.extra = new.extra
  BY <1>8, <1>9
<1>13. /\ c.text.rv # None => obj # None
       /\ c.text.uid # None /\ obj # None => obj'.uid = c.text.uid
  BY <1>2, <1>8, <1>10, <1>11
<1> QED
  BY <1>4, <1>5, <1>8, <1>12, <1>13 DEF c

(* All values are in their ranges: no page ever sends a text it has not,   *)
(* and no handler stores what is no object.                                *)
THEOREM ResourceTypeCorrect == Spec => []TypeOK
<1>1. IInv => TypeOK
  BY DEF IInv
<1> QED
  BY <1>1, Invariance, PTL

(* What a handler replaces is what it has read: applyYAML, the update      *)
(* handlers and the scalings overwrite nothing that somebody else wrote    *)
(* between their two calls.                                                *)
THEOREM ReadsAreNotOverwritten == Spec => ReadIsNotOverwritten
<1>1. IInv /\ [Next]_vars => [\A s \in Slots : Lands(s) => obj = call[s].seen]_vars
  BY LandingIsAccepted
<1>2. Spec => [][\A s \in Slots : Lands(s) => obj = call[s].seen]_vars
  BY <1>1, Invariance, PTL DEF Spec
<1> QED
  BY <1>2 DEF ReadIsNotOverwritten

(* A page changes the object with nothing but the answer to "confirm       *)
(* update", and with the text of the diff that was shown; on the page of a *)
(* workload the user may have typed on.                                    *)
THEOREM ReviewedIsWritten == Spec => WrittenWasReviewed
<1> DEFINE A == \A p \in Pages, what \in {"check", "save"} :
                  Lands(<<p, what>>) =>
                      /\ what = "save" /\ ~call[<<p, what>>].dry
                      /\ \/ call[<<p, what>>].text = page[p].pending
                         \/ kind.page = "workload" /\ moved[p]
<1>1. IInv /\ [Next]_vars => A
  <2> SUFFICES ASSUME IInv, [Next]_vars, NEW p \in Pages, NEW what \in {"check", "save"},
                      Lands(<<p, what>>)
               PROVE  /\ what = "save" /\ ~call[<<p, what>>].dry
                      /\ \/ call[<<p, what>>].text = page[p].pending
                         \/ kind.page = "workload" /\ moved[p]
    OBVIOUS
  <2>1. <<p, what>> \in Slots /\ <<p, what>>[2] = what
    BY SlotShape
  <2>2. call[<<p, what>>] # None /\ ~call[<<p, what>>].dry
    BY <2>1, LandingIsAccepted DEF Lands
  <2>3. what = "save"
    BY <2>1, <2>2 DEF IInv, SlotsFit
  <2>4. SaveIsReviewed(p)
    BY DEF IInv, SavesAreReviewed
  <2> QED
    BY <2>2, <2>3, <2>4 DEF SaveIsReviewed, Idle
<1>2. IInv /\ [Next]_vars => [A]_vars
  BY <1>1
<1>3. Spec => [][A]_vars
  BY <1>2, Invariance, PTL DEF Spec
<1> QED
  BY <1>3 DEF WrittenWasReviewed

(* Saving a page changes only what its user changed, if nobody has changed *)
(* the object since the page was loaded; where the page rebuilds the text, *)
(* if YAML 1.1 reads what YAML 1.2 wrote.                                  *)
THEOREM EditsChangeNothingElse == Spec => OnlyEditedChanges
<1> DEFINE A == \A p \in Pages :
                  /\ Legible(p, "meta") => Survives(p, "meta")
                  /\ ~kind.base64 /\ Legible(p, "data") => Survives(p, "data")
                  /\ kind.page # "rebuilds" => Survives(p, "extra")
<1>1. IInv /\ [Next]_vars => A
  <2> SUFFICES ASSUME IInv, [Next]_vars, NEW p \in Pages
               PROVE  /\ Legible(p, "meta") => Survives(p, "meta")
                      /\ ~kind.base64 /\ Legible(p, "data") => Survives(p, "data")
                      /\ kind.page # "rebuilds" => Survives(p, "extra")
    OBVIOUS
  <2>1. base[p] # None => base[p] \in Objects
    BY DEF IInv, TypeOK
  <2>2. base[p] # None =>
          /\ Legible(p, "meta") => PageText(kind, base[p]).meta = base[p].meta
          /\ ~kind.base64 /\ Legible(p, "data") => PageText(kind, base[p]).data = base[p].data
          /\ kind.page # "rebuilds" => PageText(kind, base[p]) = base[p]
    BY <2>1, PageTextIsText DEF Legible
  <2>3. Legible(p, "meta") => Survives(p, "meta")
    BY <2>2, SavingIsStored DEF Survives, Untouched
  <2>4. ~kind.base64 /\ Legible(p, "data") => Survives(p, "data")
    BY <2>2, SavingIsStored DEF Survives, Untouched
  <2>5. kind.page # "rebuilds" => Survives(p, "extra")
    BY <2>2, SavingIsStored DEF Survives, Untouched
  <2> QED
    BY <2>3, <2>4, <2>5
<1>2. IInv /\ [Next]_vars => [A]_vars
  BY <1>1
<1>3. Spec => [][A]_vars
  BY <1>2, Invariance, PTL DEF Spec
<1> QED
  BY <1>3 DEF OnlyEditedChanges

(* A text with an identity replaces no other object made anew under the    *)
(* name, and a text with a version brings no deleted object back.          *)
THEOREM SavesStayWithTheirObject == Spec => SaveStaysWithItsObject
<1> DEFINE A == \A p \in Pages : Lands(<<p, "save">>) =>
                  LET text == call[<<p, "save">>].text
                  IN  /\ text.rv # None => obj # None
                      /\ text.uid # None /\ obj # None => obj'.uid = base[p].uid
<1>1. IInv /\ [Next]_vars => A
  <2> SUFFICES ASSUME IInv, [Next]_vars, NEW p \in Pages, Lands(<<p, "save">>)
               PROVE  LET text == call[<<p, "save">>].text
                      IN  /\ text.rv # None => obj # None
                          /\ text.uid # None /\ obj # None => obj'.uid = base[p].uid
    OBVIOUS
  <2>1. TextsTell(p) /\ ~Idle(p)
    BY DEF IInv, TextsTellTheirObject, Lands, Idle
  <2>2. Tells(call[<<p, "save">>].text, base[p])
    BY <2>1 DEF TextsTell
  <2> QED
    BY <2>2, SavingIsStored DEF Tells
<1>2. IInv /\ [Next]_vars => [A]_vars
  BY <1>1
<1>3. Spec => [][A]_vars
  BY <1>2, Invariance, PTL DEF Spec
<1> QED
  BY <1>3 DEF SaveStaysWithItsObject

==============================================================================
