--------------------------- MODULE AttachmentsProofs ---------------------------
(***************************************************************************)
(* Theorems of Attachments, for any number of goroutines, associations,    *)
(* calls, attachables and failing seam calls, and of the two uses of it in *)
(* MCRegister.                                                             *)
(***************************************************************************)
EXTENDS MCRegister, FiniteSetTheorems, SequenceTheorems, TLAPS

-----------------------------------------------------------------------------
(* Types.                                                                   *)

\* The calls outside Attach that upload.
Givers == {"create", "blob.Upload"}

\* While an attachable is being attached there is one, and only a purge is ever
\* at a step of a purge.
ArgsOK == \A p \in Procs :
    /\ pc[p] \in {"blobFor", "InsertAttachment"} => op[p] \in Attachers /\ args[p] # <<>>
    /\ pc[p] \in {"InsertBlob", "Upload"} =>
         op[p] \in Givers \/ (op[p] \in Attachers /\ args[p] # <<>>)
    /\ pc[p] = "FindAttachments" /\ op[p] = "one.Attach" => args[p] # <<>>
    /\ pc[p] = "FindAttachments" => op[p] \notin {"create", "many.Attach", "blob.Upload", "blob.Purge"}
    /\ pc[p] \in {"Blob", "Delete", "DeleteBlob"} => op[p] \in Purgers \union {"blob.Purge"}

TypeInv == TypeOK /\ ArgsOK

Args == Seq([kind : Kinds, blob : Nat])

LEMMA InitType == Init => TypeInv
  <1> SUFFICES ASSUME Init PROVE TypeInv
    OBVIOUS
  <1> USE DEF Init, NewMemStore
  <1>1. StoreTypeOK
    BY DEF StoreTypeOK
  <1>2. ServiceTypeOK
    BY DEF ServiceTypeOK
  <1>3. PlaceTypeOK
    BY DEF PlaceTypeOK, Labels, Ops
  <1>4. LocalTypeOK
    BY DEF LocalTypeOK
  <1>5. CountTypeOK
    BY BoundsAssumption DEF CountTypeOK
  <1>6. ArgsOK
    BY DEF ArgsOK
  <1> QED BY <1>1, <1>2, <1>3, <1>4, <1>5, <1>6 DEF TypeInv, TypeOK

\* A call starts with locals of their types, at a label whose arguments it has.
LEMMA BeginType ==
  ASSUME TypeInv, NEW p \in Procs, NEW o \in Ops, NEW s \in Slots, NEW items \in Args,
         NEW b \in Nat, NEW rows \in SUBSET Row, NEW l \in Labels,
         Begin(p, o, s, items, b, rows, l), released' \subseteq Nat,
         l \in {"blobFor", "InsertAttachment"} => o \in Attachers /\ items # <<>>,
         l \in {"InsertBlob", "Upload"} => o \in Givers,
         l = "FindAttachments" => o \in Detachers \union Purgers,
         l \in {"Blob", "Delete", "DeleteBlob"} => o \in Purgers \union {"blob.Purge"}
  PROVE  TypeInv'
  <1> USE DEF TypeInv, TypeOK, Begin, storeVars
  <1>1. StoreTypeOK'
    BY DEF StoreTypeOK
  <1>2. ServiceTypeOK'
    BY DEF ServiceTypeOK
  <1>3. PlaceTypeOK'
    BY DEF PlaceTypeOK
  <1>4. LocalTypeOK'
    BY DEF LocalTypeOK, Args
  <1>5. CountTypeOK'
    BY BoundsAssumption DEF CountTypeOK
  <1>6. ArgsOK'
    <2> SUFFICES ASSUME NEW q \in Procs
                 PROVE  /\ pc'[q] \in {"blobFor", "InsertAttachment"} =>
                             op'[q] \in Attachers /\ args'[q] # <<>>
                        /\ pc'[q] \in {"InsertBlob", "Upload"} =>
                             op'[q] \in Givers \/ (op'[q] \in Attachers /\ args'[q] # <<>>)
                        /\ pc'[q] = "FindAttachments" =>
                             /\ op'[q] = "one.Attach" => args'[q] # <<>>
                             /\ op'[q] \notin {"create", "many.Attach", "blob.Upload", "blob.Purge"}
                        /\ pc'[q] \in {"Blob", "Delete", "DeleteBlob"} =>
                             op'[q] \in Purgers \union {"blob.Purge"}
      BY DEF ArgsOK
    <2>1. CASE q = p
      <3>1. pc'[q] = l /\ op'[q] = o /\ args'[q] = items
        BY <2>1 DEF PlaceTypeOK, LocalTypeOK
      <3> QED BY <3>1 DEF Detachers, Purgers
    <2>2. CASE q # p
      BY <2>2 DEF ArgsOK, PlaceTypeOK, LocalTypeOK
    <2> QED BY <2>1, <2>2
  <1> QED BY <1>1, <1>2, <1>3, <1>4, <1>5, <1>6

LEMMA FunctionIsSeq ==
  ASSUME NEW S, NEW n \in Nat, NEW f \in [1 .. n -> S]
  PROVE  f \in Seq(S)
  <1>1. [1 .. n -> S] \in {[1 .. m -> S] : m \in Nat}
    OBVIOUS
  <1> QED BY <1>1, SeqDef

LEMMA ValuesType ==
  ASSUME TypeInv
  PROVE  Values \subseteq [kind : Kinds, blob : Nat]
  <1>1. Held \subseteq Nat
    BY DEF TypeInv, TypeOK, StoreTypeOK, Held
  <1>2. Attachables \subseteq Kinds
    BY KindsAssumption
  <1> SUFFICES ASSUME NEW a \in Values PROVE a \in [kind : Kinds, blob : Nat]
    OBVIOUS
  <1>3. CASE a \in [kind : Attachables \intersect {"blob", "signed"}, blob : Held]
    BY <1>1, <1>2, <1>3
  <1>4. CASE a \in [kind : Attachables \ {"blob", "signed"}, blob : {0}]
    BY <1>2, <1>4
  <1> QED BY <1>3, <1>4 DEF Values

LEMMA BeginCallType ==
  ASSUME TypeInv, NEW p \in Procs, BeginCall(p)
  PROVE  TypeInv'
  <1> USE DEF TypeInv, TypeOK
  <1>0. /\ slot[p] \in Slots /\ <<>> \in Args
        /\ {} \in SUBSET Row /\ released \subseteq Nat
        /\ Held \subseteq Nat /\ attachments \union dismissed \union replaced \subseteq Row
    BY DEF PlaceTypeOK, ServiceTypeOK, StoreTypeOK, Args, CountTypeOK, Held
  <1>1. CASE BeginCreate(p)
    BY <1>0, <1>1, BeginType DEF BeginCreate, Ops, Labels, Givers
  <1>2. CASE BeginAttach(p)
    <2>1. PICK o \in Attachers, s \in Slots : \E n \in BatchSizes(o) :
            \E items \in [1 .. n -> Values] : Begin(p, o, s, items, 0, {}, "blobFor")
      BY <1>2 DEF BeginAttach
    <2>2. PICK n \in BatchSizes(o) : \E items \in [1 .. n -> Values] :
            Begin(p, o, s, items, 0, {}, "blobFor")
      BY <2>1
    <2>3. PICK items \in [1 .. n -> Values] : Begin(p, o, s, items, 0, {}, "blobFor")
      BY <2>2
    <2>4. n \in Nat \ {0}
      BY BoundsAssumption DEF BatchSizes
    <2>5. items \in Args /\ items # <<>>
      <3>1. items \in [1 .. n -> [kind : Kinds, blob : Nat]]
        BY ValuesType
      <3>2. items \in Args
        BY <2>4, <3>1, FunctionIsSeq DEF Args
      <3>3. Len(items) = n
        BY <2>4, <3>1
      <3>4. Len(<<>>) = 0
        OBVIOUS
      <3> QED BY <2>4, <3>2, <3>3, <3>4
    <2>6. o \in Ops /\ "blobFor" \in Labels
      BY DEF Attachers, Ops, Labels
    <2> QED BY <1>0, <1>2, <2>3, <2>5, <2>6, BeginType DEF BeginAttach
  <1>3. CASE BeginRemove(p)
    <2>1. PICK o \in (Detachers \union Purgers) \ {"att.Purge"}, s \in Slots :
            Begin(p, o, s, <<>>, 0, {}, "FindAttachments")
      BY <1>3 DEF BeginRemove
    <2>2. o \in Ops
      BY DEF Ops, Detachers, Purgers
    <2> QED BY <1>0, <1>3, <2>1, <2>2, BeginType DEF BeginRemove, Labels
  <1>4. CASE BeginRowPurge(p)
    BY <1>0, <1>4, BeginType DEF BeginRowPurge, FirstStep, Ops, Labels, Purgers, Row
  <1>5. CASE BeginBlobPurge(p)
    BY <1>0, <1>5, BeginType DEF BeginBlobPurge, Ops, Labels
  <1>6. CASE BeginBlobUpload(p)
    BY <1>0, <1>6, BeginType DEF BeginBlobUpload, Ops, Labels, Givers
  <1> QED BY <1>1, <1>2, <1>3, <1>4, <1>5, <1>6 DEF BeginCall

\* What a step of p has to show of its new label.
LEMMA ArgsStep ==
  ASSUME TypeInv, NEW p \in Procs, NEW l \in Labels,
         pc' = [pc EXCEPT ![p] = l], op' = op,
         \A q \in Procs \ {p} : args'[q] = args[q],
         l \in {"blobFor", "InsertAttachment"} => op[p] \in Attachers /\ args'[p] # <<>>,
         l \in {"InsertBlob", "Upload"} =>
           op[p] \in Givers \/ (op[p] \in Attachers /\ args'[p] # <<>>),
         l = "FindAttachments" =>
           /\ op[p] = "one.Attach" => args'[p] # <<>>
           /\ op[p] \notin {"create", "many.Attach", "blob.Upload", "blob.Purge"},
         l \in {"Blob", "Delete", "DeleteBlob"} => op[p] \in Purgers \union {"blob.Purge"}
  PROVE  ArgsOK'
  <1> SUFFICES ASSUME NEW q \in Procs
               PROVE  /\ pc'[q] \in {"blobFor", "InsertAttachment"} =>
                           op'[q] \in Attachers /\ args'[q] # <<>>
                      /\ pc'[q] \in {"InsertBlob", "Upload"} =>
                           op'[q] \in Givers \/ (op'[q] \in Attachers /\ args'[q] # <<>>)
                      /\ pc'[q] = "FindAttachments" =>
                           /\ op'[q] = "one.Attach" => args'[q] # <<>>
                           /\ op'[q] \notin {"create", "many.Attach", "blob.Upload", "blob.Purge"}
                      /\ pc'[q] \in {"Blob", "Delete", "DeleteBlob"} =>
                           op'[q] \in Purgers \union {"blob.Purge"}
    BY DEF ArgsOK
  <1>0. pc \in [Procs -> Labels]
    BY DEF TypeInv, TypeOK, PlaceTypeOK
  <1>1. CASE q = p
    <2>1. pc'[q] = l /\ op'[q] = op[p] /\ args'[q] = args'[p]
      BY <1>0, <1>1
    <2> QED BY <2>1
  <1>2. CASE q # p
    <2>1. pc'[q] = pc[q] /\ op'[q] = op[q] /\ args'[q] = args[q]
      BY <1>0, <1>2
    <2> QED BY <2>1 DEF TypeInv, ArgsOK
  <1> QED BY <1>1, <1>2

\* The steps that end a call without a change.
LEMMA QuietType ==
  ASSUME TypeInv, NEW p \in Procs, Fault(p) \/ NotFound(p)
  PROVE  TypeInv'
  <1> USE DEF TypeInv, TypeOK, Fault, CountFault, NotFound, Return, storeVars, locals, histories
  <1>1. StoreTypeOK'
    BY DEF StoreTypeOK
  <1>2. ServiceTypeOK'
    BY DEF ServiceTypeOK
  <1>3. PlaceTypeOK'
    BY DEF PlaceTypeOK, Labels
  <1>4. LocalTypeOK'
    BY DEF LocalTypeOK
  <1>5. CountTypeOK'
    BY BoundsAssumption DEF CountTypeOK
  <1>6. ArgsOK'
    BY ArgsStep DEF Labels
  <1> QED BY <1>1, <1>2, <1>3, <1>4, <1>5, <1>6

LEMMA BlobForType ==
  ASSUME TypeInv, NEW p \in Procs, BlobFor(p)
  PROVE  TypeInv'
  <1> DEFINE a == Head(args[p])
  <1>0. /\ op[p] \in Attachers /\ args[p] # <<>> /\ args[p] \in Args
        /\ AfterBlobFor(op[p]) \in {"FindAttachments", "InsertAttachment"}
        /\ AfterBlobFor(op[p]) = "FindAttachments" => op[p] = "one.Attach"
    BY DEF BlobFor, TypeInv, TypeOK, LocalTypeOK, Args, ArgsOK, AfterBlobFor
  <1>a. a.blob \in Nat
    <2>1. a \in [kind : Kinds, blob : Nat]
      BY <1>0, HeadTailProperties DEF Args
    <2> QED BY <2>1
  <1>1. CASE /\ blob' = [blob EXCEPT ![p] = a.blob]
             /\ Goto(p, AfterBlobFor(op[p]))
             /\ UNCHANGED <<storeVars, objects, known, op, slot, args, listed,
                            pending, calls, faults, histories>>
    <2> USE <1>0, <1>a, <1>1 DEF TypeInv, TypeOK, Goto, storeVars, histories
    <2>1. StoreTypeOK'
      BY DEF StoreTypeOK
    <2>2. ServiceTypeOK'
      BY DEF ServiceTypeOK
    <2>3. PlaceTypeOK'
      BY DEF PlaceTypeOK, Labels
    <2>4. LocalTypeOK'
      BY DEF LocalTypeOK
    <2>5. CountTypeOK'
      BY DEF CountTypeOK
    <2>6. ArgsOK'
      BY ArgsStep DEF Labels
    <2> QED BY <2>1, <2>2, <2>3, <2>4, <2>5, <2>6
  <1>2. CASE /\ Goto(p, "InsertBlob")
             /\ UNCHANGED <<storeVars, objects, known, locals, calls, faults, histories>>
    <2> USE <1>0, <1>2 DEF TypeInv, TypeOK, Goto, storeVars, locals, histories
    <2>1. StoreTypeOK'
      BY DEF StoreTypeOK
    <2>2. ServiceTypeOK'
      BY DEF ServiceTypeOK
    <2>3. PlaceTypeOK'
      BY DEF PlaceTypeOK, Labels
    <2>4. LocalTypeOK'
      BY DEF LocalTypeOK
    <2>5. CountTypeOK'
      BY DEF CountTypeOK
    <2>6. ArgsOK'
      BY ArgsStep DEF Labels
    <2> QED BY <2>1, <2>2, <2>3, <2>4, <2>5, <2>6
  <1>3. CASE NotFound(p) \/ Fault(p)
    BY <1>3, QuietType
  <1> QED BY <1>1, <1>2, <1>3 DEF BlobFor

LEMMA CreateRowType ==
  ASSUME TypeInv, NEW p \in Procs, CreateRow(p)
  PROVE  TypeInv'
  <1>1. CASE /\ pc[p] = "InsertBlob"
             /\ InsertBlob
             /\ blob' = [blob EXCEPT ![p] = nextBlobID']
             /\ Goto(p, "Upload")
             /\ UNCHANGED <<objects, known, op, slot, args, listed, pending,
                            calls, faults, histories>>
    <2> USE <1>1 DEF TypeInv, TypeOK, storeVars, histories, locals, Goto, Return, InsertBlob
    <2>1. StoreTypeOK'
      BY DEF StoreTypeOK
    <2>2. ServiceTypeOK'
      BY DEF ServiceTypeOK
    <2>3. PlaceTypeOK'
      BY DEF PlaceTypeOK, Labels
    <2>4. LocalTypeOK'
      <3>1. nextBlobID' \in Nat
        BY DEF StoreTypeOK
      <3> HIDE DEF InsertBlob
      <3> QED BY <3>1 DEF LocalTypeOK
    <2>5. CountTypeOK'
      BY DEF CountTypeOK
    <2>6. ArgsOK'
      BY ArgsStep DEF ArgsOK, Labels
    <2> QED BY <2>1, <2>2, <2>3, <2>4, <2>5, <2>6
  <1>2. CASE Fault(p)
    BY <1>2, QuietType
  <1> QED BY <1>1, <1>2 DEF CreateRow

LEMMA UploadBytesType ==
  ASSUME TypeInv, NEW p \in Procs, UploadBytes(p)
  PROVE  TypeInv'
  <1>0. /\ pc[p] = "Upload"
        /\ op[p] \in Givers \/ (op[p] \in Attachers /\ args[p] # <<>>)
        /\ AfterBlobFor(op[p]) \in {"FindAttachments", "InsertAttachment"}
        /\ AfterBlobFor(op[p]) = "FindAttachments" => op[p] = "one.Attach"
    BY DEF UploadBytes, TypeInv, ArgsOK, AfterBlobFor
  <1>a. ASSUME Stored(blob[p])
        PROVE  objects' \subseteq Nat /\ revived' \subseteq Nat
    <2>1. blob[p] \in Nat /\ objects \subseteq Nat /\ revived \subseteq Nat
      BY DEF TypeInv, TypeOK, ServiceTypeOK, LocalTypeOK
    <2> QED BY <1>a, <2>1 DEF Stored
  <1>1. CASE UploadDone(p)
    <2> USE <1>0, <1>1 DEF TypeInv, TypeOK, UploadDone, storeVars, histories, locals, Goto, Return
    <2>1. StoreTypeOK'
      BY DEF StoreTypeOK
    <2>2. ServiceTypeOK'
      BY <1>a DEF ServiceTypeOK, LocalTypeOK
    <2>3. PlaceTypeOK'
      BY DEF PlaceTypeOK, Labels
    <2>4. LocalTypeOK'
      BY DEF LocalTypeOK
    <2>5. CountTypeOK'
      BY DEF CountTypeOK
    <2>6. ArgsOK'
      <3>1. CASE op[p] \in Attachers
        <4>1. pc' = [pc EXCEPT ![p] = AfterBlobFor(op[p])]
          BY <3>1
        <4>2. args[p] # <<>>
          BY <3>1 DEF Attachers, Givers
        <4> QED BY <3>1, <4>1, <4>2, ArgsStep DEF Labels
      <3>2. CASE op[p] \notin Attachers
        <4>1. pc' = [pc EXCEPT ![p] = "idle"]
          BY <3>2
        <4> QED BY <4>1, ArgsStep DEF Labels
      <3> QED BY <3>1, <3>2
    <2> QED BY <2>1, <2>2, <2>3, <2>4, <2>5, <2>6
  <1>2. CASE /\ NotStored(blob[p])
             /\ Return(p, "err")
             /\ UNCHANGED <<storeVars, known, locals, calls, dismissed, replaced, released>>
    <2> USE <1>0, <1>2 DEF TypeInv, TypeOK, storeVars, locals, Return, NotStored, CountFault
    <2>1. StoreTypeOK'
      BY DEF StoreTypeOK
    <2>2. ServiceTypeOK'
      BY <1>a DEF ServiceTypeOK, LocalTypeOK
    <2>3. PlaceTypeOK'
      BY DEF PlaceTypeOK, Labels
    <2>4. LocalTypeOK'
      BY DEF LocalTypeOK
    <2>5. CountTypeOK'
      BY BoundsAssumption DEF CountTypeOK
    <2>6. ArgsOK'
      BY ArgsStep DEF Labels
    <2> QED BY <2>1, <2>2, <2>3, <2>4, <2>5, <2>6
  <1> QED BY <1>1, <1>2 DEF UploadBytes, UploadDone, NotStored

LEMMA ReadRowsType ==
  ASSUME TypeInv, NEW p \in Procs, ReadRows(p)
  PROVE  TypeInv'
  <1>0. Lookup(p) \subseteq attachments
    BY DEF Lookup, FindAttachments, Newest
  <1>1. CASE /\ pc[p] = "FindAttachments"
             /\ listed' = [listed EXCEPT ![p] = Lookup(p)]
             /\ pending' = [pending EXCEPT ![p] = Lookup(p)]
             /\ IF op[p] = "one.Attach" THEN Goto(p, "InsertAttachment") ELSE NextRow(p)
             /\ UNCHANGED <<storeVars, objects, known, op, slot, args, blob,
                            calls, faults, histories>>
    <2> USE <1>0, <1>1 DEF TypeInv, TypeOK, storeVars, histories, locals, Goto, Return, NextRow, FirstStep
    <2>1. StoreTypeOK'
      BY DEF StoreTypeOK
    <2>2. ServiceTypeOK'
      BY DEF ServiceTypeOK
    <2>3. PlaceTypeOK'
      BY DEF PlaceTypeOK, Labels
    <2>4. LocalTypeOK'
      BY DEF LocalTypeOK, StoreTypeOK
    <2>5. CountTypeOK'
      BY DEF CountTypeOK
    <2>6. ArgsOK'
      BY ArgsStep DEF ArgsOK, Attachers, Labels
    <2> QED BY <2>1, <2>2, <2>3, <2>4, <2>5, <2>6
  <1>2. CASE Fault(p)
    BY <1>2, QuietType
  <1> QED BY <1>1, <1>2 DEF ReadRows

LEMMA InsertRowType ==
  ASSUME TypeInv, NEW p \in Procs, InsertRow(p)
  PROVE  TypeInv'
  <1>0. /\ op[p] \in Attachers /\ args[p] # <<>> /\ args[p] \in Args
        /\ slot[p] \in Slots /\ blob[p] \in Nat
    BY DEF InsertRow, TypeInv, TypeOK, LocalTypeOK, PlaceTypeOK, Args, ArgsOK
  <1>a. Tail(args[p]) \in Args
    BY <1>0, HeadTailProperties DEF Args
  <1>1. CASE /\ InsertAttachment(slot[p], blob[p])
             /\ args' = [args EXCEPT ![p] = Tail(@)]
             /\ AfterInsert(p)
             /\ UNCHANGED <<objects, known, op, slot, blob, listed, pending,
                            calls, faults, histories>>
    <2> USE <1>0, <1>a, <1>1 DEF TypeInv, TypeOK, storeVars, histories, locals, Goto, Return, AfterInsert
    <2>1. StoreTypeOK'
      BY DEF StoreTypeOK, InsertAttachment, Row
    <2>2. ServiceTypeOK'
      BY DEF ServiceTypeOK, InsertAttachment
    <2>3. PlaceTypeOK'
      BY DEF PlaceTypeOK, Labels
    <2>4. LocalTypeOK'
      BY DEF LocalTypeOK, Args, InsertAttachment
    <2>5. CountTypeOK'
      BY DEF CountTypeOK
    <2>6. ArgsOK'
      BY ArgsStep DEF LocalTypeOK, Labels
    <2> QED BY <2>1, <2>2, <2>3, <2>4, <2>5, <2>6
  <1>2. CASE Fault(p)
    BY <1>2, QuietType
  <1> QED BY <1>1, <1>2 DEF InsertRow

LEMMA LoadBlobType ==
  ASSUME TypeInv, NEW p \in Procs, LoadBlob(p)
  PROVE  TypeInv'
  <1>1. CASE /\ Goto(p, "DeleteAttachment")
             /\ UNCHANGED <<storeVars, objects, known, locals, calls, faults, histories>>
    <2> USE <1>1 DEF TypeInv, TypeOK, storeVars, histories, locals, Goto, Return
    <2>1. StoreTypeOK'
      BY DEF StoreTypeOK
    <2>2. ServiceTypeOK'
      BY DEF ServiceTypeOK
    <2>3. PlaceTypeOK'
      BY DEF PlaceTypeOK, Labels
    <2>4. LocalTypeOK'
      BY DEF LocalTypeOK
    <2>5. CountTypeOK'
      BY DEF CountTypeOK
    <2>6. ArgsOK'
      BY ArgsStep DEF Labels
    <2> QED BY <2>1, <2>2, <2>3, <2>4, <2>5, <2>6
  <1>2. CASE NotFound(p) \/ Fault(p)
    BY <1>2, QuietType
  <1> QED BY <1>1, <1>2 DEF LoadBlob

LEMMA DeleteRowType ==
  ASSUME TypeInv, NEW p \in Procs, DeleteRow(p)
  PROVE  TypeInv'
  <1>1. ASSUME NEW r \in Doomed(p),
               DeleteAttachment(r.id), AfterDelete(p, r),
               IF op[p] = "one.Attach"
               THEN replaced' = replaced \union RowsWithID(r.id) /\ UNCHANGED dismissed
               ELSE dismissed' = dismissed \union RowsWithID(r.id) /\ UNCHANGED replaced,
               UNCHANGED <<objects, known, op, slot, args, listed, calls, faults,
                               released, failed, revived>>
        PROVE  TypeInv'
    <2>0. r \in pending[p] /\ r.blob \in Nat /\ RowsWithID(r.id) \subseteq attachments
      BY DEF Doomed, First, TypeInv, TypeOK, LocalTypeOK, Row, RowsWithID
    <2> USE <1>1, <2>0 DEF TypeInv, TypeOK, storeVars, histories, locals, Goto, Return, DeleteAttachment
    <2>1. StoreTypeOK'
      BY DEF StoreTypeOK
    <2>2. ServiceTypeOK'
      BY DEF ServiceTypeOK
    <2>3. PlaceTypeOK'
      BY DEF PlaceTypeOK, Labels, AfterDelete, NextRow, FirstStep
    <2>4. LocalTypeOK'
      BY DEF LocalTypeOK, AfterDelete
    <2>5. CountTypeOK'
      BY DEF CountTypeOK, StoreTypeOK
    <2>6. ArgsOK'
      BY ArgsStep DEF Labels, AfterDelete, NextRow, FirstStep
    <2> QED BY <2>1, <2>2, <2>3, <2>4, <2>5, <2>6
  <1>2. CASE NotFound(p) \/ Fault(p)
    BY <1>2, QuietType
  <1> QED BY <1>1, <1>2 DEF DeleteRow

LEMMA DeleteObjectType ==
  ASSUME TypeInv, NEW p \in Procs, DeleteObject(p)
  PROVE  TypeInv'
  <1>1. CASE /\ pc[p] = "Delete"
             /\ objects' = objects \ {blob[p]}
             /\ Goto(p, "DeleteBlob")
             /\ UNCHANGED <<storeVars, known, locals, calls, faults, histories>>
    <2> USE <1>1 DEF TypeInv, TypeOK, storeVars, histories, locals, Goto, Return
    <2>1. StoreTypeOK'
      BY DEF StoreTypeOK
    <2>2. ServiceTypeOK'
      BY DEF ServiceTypeOK
    <2>3. PlaceTypeOK'
      BY DEF PlaceTypeOK, Labels
    <2>4. LocalTypeOK'
      BY DEF LocalTypeOK
    <2>5. CountTypeOK'
      BY DEF CountTypeOK
    <2>6. ArgsOK'
      BY ArgsStep DEF ArgsOK, Labels
    <2> QED BY <2>1, <2>2, <2>3, <2>4, <2>5, <2>6
  <1>2. CASE Fault(p)
    BY <1>2, QuietType
  <1> QED BY <1>1, <1>2 DEF DeleteObject

LEMMA DeleteBlobRowType ==
  ASSUME TypeInv, NEW p \in Procs, DeleteBlobRow(p)
  PROVE  TypeInv'
  <1>1. CASE /\ DeleteBlob(blob[p])
             /\ pending' = [pending EXCEPT ![p] = @ \ First(@)]
             /\ NextRow(p)
             /\ UNCHANGED <<objects, known, op, slot, args, blob, listed,
                            calls, faults, histories>>
    <2> USE <1>1 DEF TypeInv, TypeOK, storeVars, histories, locals, Goto, Return, DeleteBlob, NextRow, FirstStep
    <2>1. StoreTypeOK'
      BY DEF StoreTypeOK
    <2>2. ServiceTypeOK'
      BY DEF ServiceTypeOK
    <2>3. PlaceTypeOK'
      BY DEF PlaceTypeOK, Labels
    <2>4. LocalTypeOK'
      BY DEF LocalTypeOK
    <2>5. CountTypeOK'
      BY DEF CountTypeOK
    <2>6. ArgsOK'
      BY ArgsStep DEF Labels
    <2> QED BY <2>1, <2>2, <2>3, <2>4, <2>5, <2>6
  <1>2. CASE NotFound(p) \/ Fault(p)
    BY <1>2, QuietType
  <1> QED BY <1>1, <1>2 DEF DeleteBlobRow

\* Where a step leaves every variable alone.
LEMMA StutterType == TypeInv /\ UNCHANGED vars => TypeInv'
  BY DEF TypeInv, TypeOK, StoreTypeOK, ServiceTypeOK, PlaceTypeOK, LocalTypeOK,
         CountTypeOK, ArgsOK, vars, storeVars, locals, histories

LEMMA NextType == TypeInv /\ [Next]_vars => TypeInv'
  <1> SUFFICES ASSUME TypeInv, [Next]_vars PROVE TypeInv'
    OBVIOUS
  <1>1. ASSUME NEW p \in Procs, BeginCall(p) PROVE TypeInv'
    BY <1>1, BeginCallType
  <1>2. ASSUME NEW p \in Procs, Step(p) PROVE TypeInv'
    BY <1>2, BlobForType, CreateRowType, UploadBytesType, ReadRowsType, InsertRowType,
       LoadBlobType, DeleteRowType, DeleteObjectType, DeleteBlobRowType DEF Step
  <1> QED BY <1>1, <1>2, StutterType DEF Next

\* Whatever the callers do and whichever seam call fails, every variable keeps
\* its type, and an Attach that is under way has an attachable left.
THEOREM TypeCorrect == Spec => []TypeOK
  <1>1. Spec => []TypeInv
    BY InitType, NextType, PTL DEF Spec
  <1> QED BY <1>1, PTL DEF TypeInv

-----------------------------------------------------------------------------
(* The attachment rows: an id names one row for good, and no attachment is  *)
(* lost by replacing it.                                                    *)
(*                                                                          *)
(* Refs, the rows that are or ever were in the table, only grows, and each  *)
(* row that is added has the highest id so far.  So the rows a call has     *)
(* listed stay the only rows of their ids, and the row OneAttached.Attach   *)
(* has inserted stays newer than the one it is about to delete.             *)

RefsBelow == \A r \in Refs : r.id \in 1 .. nextAttID

UniqueIds == \A r, q \in Refs : r.id = q.id => r = q

ListedOK == \A p \in Procs : pending[p] \subseteq listed[p] /\ listed[p] \subseteq Refs

IdInv == TypeInv /\ RefsBelow /\ UniqueIds /\ ListedOK

-----------------------------------------------------------------------------
(* What a step does to the rows and to the locals.                          *)

NewRow(p) == [id |-> nextAttID + 1, slot |-> slot[p], blob |-> blob[p]]

RowsKept == UNCHANGED <<attachments, nextAttID, dismissed, replaced>>

RowInserted(p) ==
    /\ pc[p] = "InsertAttachment"
    /\ nextAttID' = nextAttID + 1
    /\ attachments' = attachments \union {NewRow(p)}
    /\ UNCHANGED <<dismissed, replaced>>

RowRemoved(p) == \E r \in pending[p] \intersect attachments :
    /\ pc[p] = "DeleteAttachment"
    /\ nextAttID' = nextAttID
    /\ attachments' = attachments \ {r}
    /\ IF op[p] = "one.Attach"
       THEN replaced' = replaced \union {r} /\ UNCHANGED dismissed
       ELSE dismissed' = dismissed \union {r} /\ UNCHANGED replaced

LEMMA RowEffect ==
  ASSUME IdInv, NEW p \in Procs, BeginCall(p) \/ Step(p)
  PROVE  RowsKept \/ RowInserted(p) \/ RowRemoved(p)
  <1> USE DEF storeVars, histories
  <1>1. CASE BeginCall(p)
    BY <1>1 DEF BeginCall, BeginCreate, BeginAttach, BeginRemove, BeginRowPurge,
                BeginBlobUpload, BeginBlobPurge, Begin, RowsKept
  <1>2. CASE Fault(p) \/ NotFound(p)
    BY <1>2 DEF Fault, NotFound, RowsKept
  <1>3. CASE BlobFor(p)
    BY <1>2, <1>3 DEF BlobFor, RowsKept
  <1>4. CASE CreateRow(p)
    BY <1>2, <1>4 DEF CreateRow, InsertBlob, RowsKept
  <1>5. CASE UploadBytes(p)
    BY <1>5 DEF UploadBytes, UploadDone, NotStored, RowsKept
  <1>6. CASE ReadRows(p)
    BY <1>2, <1>6 DEF ReadRows, RowsKept
  <1>7. CASE InsertRow(p)
    <2>1. {r \in attachments : r.id # nextAttID + 1} = attachments
      BY DEF IdInv, RefsBelow, Refs, TypeInv, TypeOK, StoreTypeOK
    <2> QED BY <1>2, <1>7, <2>1 DEF InsertRow, InsertAttachment, RowInserted, NewRow
  <1>8. CASE LoadBlob(p)
    BY <1>2, <1>8 DEF LoadBlob, RowsKept
  <1>9. CASE DeleteRow(p)
    <2>1. SUFFICES ASSUME ~ Fault(p), ~ NotFound(p) PROVE RowRemoved(p)
      BY <1>2
    <2>2. PICK r \in Doomed(p) :
            /\ DeleteAttachment(r.id)
            /\ IF op[p] = "one.Attach"
               THEN replaced' = replaced \union RowsWithID(r.id) /\ UNCHANGED dismissed
               ELSE dismissed' = dismissed \union RowsWithID(r.id) /\ UNCHANGED replaced
      BY <1>9, <2>1 DEF DeleteRow
    <2>3. r \in pending[p] /\ r \in Refs
      BY DEF Doomed, First, IdInv, ListedOK
    <2>4. RowsWithID(r.id) = {r} /\ r \in attachments
      BY <2>2, <2>3 DEF DeleteAttachment, RowsWithID, IdInv, UniqueIds, Refs
    <2> QED BY <1>9, <2>2, <2>3, <2>4 DEF RowRemoved, DeleteRow, DeleteAttachment
  <1>10. CASE DeleteObject(p)
    BY <1>2, <1>10 DEF DeleteObject, RowsKept
  <1>11. CASE DeleteBlobRow(p)
    BY <1>2, <1>11 DEF DeleteBlobRow, DeleteBlob, RowsKept
  <1> QED BY <1>1, <1>3, <1>4, <1>5, <1>6, <1>7, <1>8, <1>9, <1>10, <1>11 DEF Step

\* A step of p leaves the locals of the other processes alone.
LEMMA OthersKept ==
  ASSUME TypeInv, NEW p \in Procs, BeginCall(p) \/ Step(p), NEW q \in Procs, q # p
  PROVE  /\ pc'[q] = pc[q] /\ op'[q] = op[q] /\ slot'[q] = slot[q]
         /\ listed'[q] = listed[q] /\ pending'[q] = pending[q]
  <1> USE DEF TypeInv, TypeOK, PlaceTypeOK, LocalTypeOK, locals, Goto, Return
  <1>1. CASE BeginCall(p)
    BY <1>1 DEF BeginCall, BeginCreate, BeginAttach, BeginRemove, BeginRowPurge,
                BeginBlobUpload, BeginBlobPurge, Begin
  <1>2. CASE Fault(p) \/ NotFound(p)
    BY <1>2 DEF Fault, NotFound
  <1>3. CASE BlobFor(p)
    BY <1>2, <1>3 DEF BlobFor
  <1>4. CASE CreateRow(p)
    BY <1>2, <1>4 DEF CreateRow
  <1>5. CASE UploadBytes(p)
    BY <1>5 DEF UploadBytes, UploadDone, NotStored
  <1>6. CASE ReadRows(p)
    BY <1>2, <1>6 DEF ReadRows, NextRow
  <1>7. CASE InsertRow(p)
    BY <1>2, <1>7 DEF InsertRow, AfterInsert
  <1>8. CASE LoadBlob(p)
    BY <1>2, <1>8 DEF LoadBlob
  <1>9. CASE DeleteRow(p)
    BY <1>2, <1>9 DEF DeleteRow, AfterDelete, NextRow
  <1>10. CASE DeleteObject(p)
    BY <1>2, <1>10 DEF DeleteObject
  <1>11. CASE DeleteBlobRow(p)
    BY <1>2, <1>11 DEF DeleteBlobRow, NextRow
  <1> QED BY <1>1, <1>3, <1>4, <1>5, <1>6, <1>7, <1>8, <1>9, <1>10, <1>11 DEF Step

\* How a step of p changes its own list of rows: a new call starts with rows
\* that are or were there, a lookup lists rows of the association, and every
\* other step at most takes rows off the list.
ListStarted(p) ==
    /\ pending'[p] = listed'[p] /\ listed'[p] \subseteq Refs
    /\ pc'[p] = "DeleteAttachment" => op'[p] # "one.Attach"
    /\ op'[p] = "one.Attach" => listed'[p] = {}

ListRead(p) ==
    /\ pending'[p] = listed'[p]
    /\ listed'[p] \subseteq FindAttachments(slot[p])
    /\ op'[p] = op[p] /\ slot'[p] = slot[p]
    /\ pc'[p] = "DeleteAttachment" => op'[p] # "one.Attach"

ListShortened(p) ==
    /\ pending'[p] \subseteq pending[p] /\ listed'[p] = listed[p]
    /\ op'[p] = op[p] /\ slot'[p] = slot[p]
    /\ pc'[p] = "DeleteAttachment" /\ op[p] = "one.Attach" =>
         pc[p] = "DeleteAttachment" \/ RowInserted(p)

\* The locals a call starts with.
LEMMA BeginLocals ==
  ASSUME TypeInv, NEW p \in Procs, NEW o, NEW s, NEW items, NEW b, NEW rows, NEW l,
         Begin(p, o, s, items, b, rows, l)
  PROVE  pc'[p] = l /\ op'[p] = o /\ listed'[p] = rows /\ pending'[p] = rows
  BY DEF Begin, TypeInv, TypeOK, PlaceTypeOK, LocalTypeOK

LEMMA BeginStartsList ==
  ASSUME IdInv, NEW p \in Procs, BeginCall(p)
  PROVE  ListStarted(p)
  <1> USE DEF IdInv
  <1>1. CASE BeginCreate(p)
    BY <1>1, BeginLocals DEF BeginCreate, ListStarted
  <1>2. CASE BeginAttach(p)
    <2>1. PICK o \in Attachers, s \in Slots : \E n \in BatchSizes(o) :
            \E items \in [1 .. n -> Values] : Begin(p, o, s, items, 0, {}, "blobFor")
      BY <1>2 DEF BeginAttach
    <2>2. PICK n \in BatchSizes(o) : \E items \in [1 .. n -> Values] :
            Begin(p, o, s, items, 0, {}, "blobFor")
      BY <2>1
    <2>3. PICK items \in [1 .. n -> Values] : Begin(p, o, s, items, 0, {}, "blobFor")
      BY <2>2
    <2> QED BY <2>3, BeginLocals DEF ListStarted
  <1>3. CASE BeginRemove(p)
    <2>1. PICK o \in (Detachers \union Purgers) \ {"att.Purge"}, s \in Slots :
            Begin(p, o, s, <<>>, 0, {}, "FindAttachments")
      BY <1>3 DEF BeginRemove
    <2> QED BY <2>1, BeginLocals DEF ListStarted
  <1>4. CASE BeginRowPurge(p)
    <2>1. PICK r \in attachments \union dismissed \union replaced :
            Begin(p, "att.Purge", r.slot, <<>>, 0, {r}, FirstStep("att.Purge"))
      BY <1>4 DEF BeginRowPurge
    <2> QED BY <2>1, BeginLocals DEF ListStarted, Refs
  <1>5. CASE BeginBlobPurge(p)
    <2>1. PICK b \in Held : Begin(p, "blob.Purge", slot[p], <<>>, b, {}, "Delete")
      BY <1>5 DEF BeginBlobPurge
    <2> QED BY <2>1, BeginLocals DEF ListStarted
  <1>6. CASE BeginBlobUpload(p)
    <2>1. PICK b \in Held : Begin(p, "blob.Upload", slot[p], <<>>, b, {}, "Upload")
      BY <1>6 DEF BeginBlobUpload
    <2> QED BY <2>1, BeginLocals DEF ListStarted
  <1> QED BY <1>1, <1>2, <1>3, <1>4, <1>5, <1>6 DEF BeginCall

LEMMA ListEffect ==
  ASSUME IdInv, NEW p \in Procs, BeginCall(p) \/ Step(p)
  PROVE  ListStarted(p) \/ ListRead(p) \/ ListShortened(p)
  <1> USE DEF IdInv, TypeInv, TypeOK, PlaceTypeOK, LocalTypeOK, locals, Goto, Return
  <1>1. CASE BeginCall(p)
    BY <1>1, BeginStartsList
  <1>2. CASE Fault(p) \/ NotFound(p)
    BY <1>2 DEF Fault, NotFound, ListShortened
  <1>3. CASE BlobFor(p)
    BY <1>2, <1>3 DEF BlobFor, ListShortened, AfterBlobFor
  <1>4. CASE CreateRow(p)
    BY <1>2, <1>4 DEF CreateRow, ListShortened
  <1>5. CASE UploadBytes(p)
    BY <1>5 DEF UploadBytes, UploadDone, NotStored, ListShortened, AfterBlobFor
  <1>6. CASE ReadRows(p)
    <2>1. Lookup(p) \subseteq FindAttachments(slot[p])
      BY DEF Lookup, Newest
    <2> QED BY <1>2, <1>6, <2>1 DEF ReadRows, NextRow, ListRead
  <1>7. CASE InsertRow(p)
    <2>1. CASE Fault(p)
      BY <1>2, <2>1
    <2>2. CASE ~ Fault(p)
      <3>1. RowInserted(p)
        <4>1. {r \in attachments : r.id # nextAttID + 1} = attachments
          BY DEF RefsBelow, Refs, StoreTypeOK
        <4> QED BY <1>7, <2>2, <4>1 DEF InsertRow, InsertAttachment, RowInserted, NewRow,
                                        histories
      <3> QED BY <1>7, <2>2, <3>1 DEF InsertRow, AfterInsert, ListShortened
    <2> QED BY <2>1, <2>2
  <1>8. CASE LoadBlob(p)
    BY <1>2, <1>8 DEF LoadBlob, ListShortened, ArgsOK, Purgers
  <1>9. CASE DeleteRow(p)
    BY <1>2, <1>9 DEF DeleteRow, AfterDelete, NextRow, ListShortened
  <1>10. CASE DeleteObject(p)
    BY <1>2, <1>10 DEF DeleteObject, ListShortened
  <1>11. CASE DeleteBlobRow(p)
    BY <1>2, <1>11 DEF DeleteBlobRow, NextRow, ListShortened, ArgsOK, Purgers
  <1> QED BY <1>1, <1>3, <1>4, <1>5, <1>6, <1>7, <1>8, <1>9, <1>10, <1>11 DEF Step

-----------------------------------------------------------------------------
(* An id names one row for good.                                            *)

LEMMA IdInit == Init => IdInv
  BY InitType DEF Init, NewMemStore, IdInv, RefsBelow, UniqueIds, ListedOK, Refs

\* The table of rows only grows by rows with a higher id.
LEMMA RefsGrow ==
  ASSUME IdInv, NEW p \in Procs, BeginCall(p) \/ Step(p)
  PROVE  \/ Refs' = Refs /\ nextAttID' = nextAttID
         \/ Refs' = Refs \union {NewRow(p)} /\ nextAttID' = nextAttID + 1
  <1>1. CASE RowsKept
    BY <1>1 DEF RowsKept, Refs
  <1>2. CASE RowInserted(p)
    BY <1>2 DEF RowInserted, Refs
  <1>3. CASE RowRemoved(p)
    BY <1>3 DEF RowRemoved, Refs
  <1> QED BY <1>1, <1>2, <1>3, RowEffect

LEMMA IdStep ==
  ASSUME IdInv, NEW p \in Procs, BeginCall(p) \/ Step(p)
  PROVE  IdInv'
  <1> USE DEF IdInv
  <1>1. TypeInv'
    BY NextType DEF Next
  <1>2. nextAttID \in Nat
    BY DEF TypeInv, TypeOK, StoreTypeOK
  <1>3. NewRow(p).id = nextAttID + 1
    BY DEF NewRow
  <1>4. RefsBelow'
    BY <1>2, <1>3, RefsGrow DEF RefsBelow
  <1>5. UniqueIds'
    BY <1>2, <1>3, RefsGrow DEF RefsBelow, UniqueIds
  <1>6. ListedOK'
    <2> SUFFICES ASSUME NEW q \in Procs
                 PROVE  pending'[q] \subseteq listed'[q] /\ listed'[q] \subseteq Refs'
      BY DEF ListedOK
    <2>1. Refs \subseteq Refs'
      BY RefsGrow
    <2>2. CASE q # p
      BY <2>1, <2>2, OthersKept DEF ListedOK
    <2>3. CASE q = p
      <3>1. CASE ListStarted(p)
        BY <2>1, <2>3, <3>1 DEF ListStarted
      <3>2. CASE ListRead(p)
        BY <2>1, <2>3, <3>2 DEF ListRead, FindAttachments, Refs
      <3>3. CASE ListShortened(p)
        BY <2>1, <2>3, <3>3 DEF ListShortened, ListedOK
      <3> QED BY <3>1, <3>2, <3>3, ListEffect
    <2> QED BY <2>2, <2>3
  <1> QED BY <1>1, <1>4, <1>5, <1>6

LEMMA IdNext == IdInv /\ [Next]_vars => IdInv'
  <1>1. ASSUME IdInv, Next PROVE IdInv'
    BY <1>1, IdStep DEF Next
  <1>2. ASSUME IdInv, UNCHANGED vars PROVE IdInv'
    <2>1. TypeInv'
      BY <1>2, NextType DEF IdInv
    <2> QED BY <1>2, <2>1 DEF IdInv, RefsBelow, UniqueIds, ListedOK, Refs, vars, storeVars,
                             locals, histories
  <1> QED BY <1>1, <1>2

LEMMA IdInvariant == Spec => []IdInv
  BY IdInit, IdNext, PTL DEF Spec

\* An attachment id names one row for good: a call that deletes by an id it read
\* earlier (attachment.go:64, 160, 177, 261) never removes another row.
THEOREM IdsAreStable == Spec => []IdsNameOneRow
  <1>1. IdInv => IdsNameOneRow
    BY DEF IdInv, UniqueIds, ListedOK, IdsNameOneRow, Stale
  <1> QED BY <1>1, IdInvariant, PTL

-----------------------------------------------------------------------------
(* Replacing an attachment never loses it.                                  *)

\* A row OneAttached is about to replace belongs to its association.
SlotOK == \A p \in Procs : op[p] = "one.Attach" =>
    \A r \in pending[p] : r.slot = slot[p]

\* By the time it deletes that row, the newer one it inserted is there, or was
\* removed since.
Newer(r) == \E m \in Refs : m.slot = r.slot /\ m.id > r.id

NewerThere == \A p \in Procs : op[p] = "one.Attach" /\ pc[p] = "DeleteAttachment" =>
    \A r \in pending[p] : Newer(r)

LostInv == IdInv /\ SlotOK /\ NewerThere /\ NothingLost

LEMMA LostInit == Init => LostInv
  BY IdInit DEF Init, NewMemStore, LostInv, SlotOK, NewerThere, NothingLost

LEMMA SlotStep ==
  ASSUME LostInv, NEW p \in Procs, BeginCall(p) \/ Step(p)
  PROVE  SlotOK'
  <1> USE DEF LostInv, IdInv
  <1> SUFFICES ASSUME NEW q \in Procs, op'[q] = "one.Attach", NEW r \in pending'[q]
               PROVE  r.slot = slot'[q]
    BY DEF SlotOK
  <1>1. CASE q # p
    BY <1>1, OthersKept DEF SlotOK
  <1>2. CASE q = p
    <2>1. CASE ListStarted(p)
      BY <1>2, <2>1 DEF ListStarted
    <2>2. CASE ListRead(p)
      BY <1>2, <2>2 DEF ListRead, FindAttachments
    <2>3. CASE ListShortened(p)
      BY <1>2, <2>3 DEF ListShortened, SlotOK
    <2> QED BY <2>1, <2>2, <2>3, ListEffect
  <1> QED BY <1>1, <1>2

LEMMA NewerStep ==
  ASSUME LostInv, NEW p \in Procs, BeginCall(p) \/ Step(p)
  PROVE  NewerThere'
  <1> USE DEF LostInv, IdInv
  <1> SUFFICES ASSUME NEW q \in Procs, op'[q] = "one.Attach",
                      pc'[q] = "DeleteAttachment", NEW r \in pending'[q]
               PROVE  Newer(r)'
    BY DEF NewerThere
  <1>1. ASSUME Newer(r) PROVE Newer(r)'
    BY <1>1, RefsGrow DEF Newer
  <1>2. CASE q # p
    BY <1>1, <1>2, OthersKept DEF NewerThere
  <1>3. CASE q = p
    <2>1. ListShortened(p)
      BY <1>3, ListEffect DEF ListStarted, ListRead
    <2>2. op[p] = "one.Attach" /\ r \in pending[p]
      BY <1>3, <2>1 DEF ListShortened
    <2>3. CASE pc[p] = "DeleteAttachment"
      BY <1>1, <2>2, <2>3 DEF NewerThere
    <2>4. CASE RowInserted(p)
      <3>1. r \in Refs /\ r.slot = slot[p]
        BY <2>2 DEF ListedOK, SlotOK
      <3>2. r.id \in 1 .. nextAttID /\ nextAttID \in Nat
        BY <3>1 DEF RefsBelow, TypeInv, TypeOK, StoreTypeOK
      <3>3. NewRow(p).slot = r.slot /\ NewRow(p).id > r.id
        BY <3>1, <3>2 DEF NewRow
      <3>4. NewRow(p) \in Refs'
        BY <2>4 DEF RowInserted, Refs
      <3> QED BY <3>3, <3>4 DEF Newer
    <2> QED BY <1>3, <2>1, <2>2, <2>3, <2>4 DEF ListShortened
  <1> QED BY <1>2, <1>3

LEMMA NothingLostStep ==
  ASSUME LostInv, NEW p \in Procs, BeginCall(p) \/ Step(p)
  PROVE  NothingLost'
  <1> USE DEF LostInv, IdInv
  <1>1. CASE RowsKept
    BY <1>1 DEF RowsKept, NothingLost
  <1>2. CASE RowInserted(p)
    BY <1>2 DEF RowInserted, NothingLost
  <1>3. CASE RowRemoved(p) /\ op[p] # "one.Attach"
    <2>1. replaced' = replaced /\ attachments \union dismissed \subseteq (attachments \union dismissed)'
      BY <1>3 DEF RowRemoved
    <2> QED BY <2>1 DEF NothingLost
  <1>4. CASE RowRemoved(p) /\ op[p] = "one.Attach"
    <2>1. PICK r \in pending[p] \intersect attachments :
            /\ pc[p] = "DeleteAttachment"
            /\ attachments' = attachments \ {r}
            /\ replaced' = replaced \union {r} /\ dismissed' = dismissed
      BY <1>4 DEF RowRemoved
    <2>2. \A m \in Refs : m.id \in Nat
      BY DEF RefsBelow
    <2>3. PICK n \in Refs : n.slot = r.slot /\ n.id > r.id
      BY <1>4, <2>1 DEF NewerThere, Newer
    <2>4. PICK w \in attachments \union dismissed : w.slot = r.slot /\ w.id > r.id
      <3>1. CASE n \in replaced
        <4>1. PICK w \in attachments \union dismissed : w.slot = n.slot /\ w.id > n.id
          BY <3>1 DEF NothingLost
        <4> QED BY <2>2, <2>3, <4>1 DEF Refs
      <3>2. CASE n \in attachments \union dismissed
        BY <2>3, <3>2
      <3> QED BY <3>1, <3>2 DEF Refs
    <2>5. w # r
      BY <2>2, <2>4 DEF Refs
    <2>6. SUFFICES ASSUME NEW x \in replaced \union {r}
                   PROVE  \E m \in (attachments \ {r}) \union dismissed :
                            m.slot = x.slot /\ m.id > x.id
      BY <2>1 DEF NothingLost
    <2>7. CASE x = r
      BY <2>4, <2>5, <2>7
    <2>8. CASE x \in replaced
      <3>1. PICK m \in attachments \union dismissed : m.slot = x.slot /\ m.id > x.id
        BY <2>8 DEF NothingLost
      <3>2. CASE m = r
        BY <2>2, <2>4, <2>5, <2>8, <3>1, <3>2 DEF Refs
      <3> QED BY <3>1, <3>2
    <2> QED BY <2>7, <2>8
  <1> QED BY <1>1, <1>2, <1>3, <1>4, RowEffect

LEMMA LostNext == LostInv /\ [Next]_vars => LostInv'
  <1>1. ASSUME LostInv, Next PROVE LostInv'
    <2>1. PICK p \in Procs : BeginCall(p) \/ Step(p)
      BY <1>1 DEF Next
    <2>2. IdInv'
      BY <1>1, <2>1, IdStep DEF LostInv
    <2> QED BY <1>1, <2>1, <2>2, SlotStep, NewerStep, NothingLostStep DEF LostInv
  <1>2. ASSUME LostInv, UNCHANGED vars PROVE LostInv'
    <2>1. IdInv'
      BY <1>2, IdNext DEF LostInv
    <2> QED BY <1>2, <2>1 DEF LostInv, SlotOK, NewerThere, Newer, NothingLost, Refs, vars,
                              storeVars, locals, histories
  <1> QED BY <1>1, <1>2

\* Whatever calls interleave and wherever they fail, a row OneAttached.Attach
\* removed has a newer row of its association, in the table or dismissed by a
\* Detach or a Purge (attachment.go:151-163).
THEOREM AttachLosesNothing == Spec => []NothingLost
  <1>1. LostInv => NothingLost
    BY DEF LostInv
  <1> QED BY <1>1, LostInit, LostNext, PTL DEF Spec

-----------------------------------------------------------------------------
(***************************************************************************)
(* The blobs behind the attachment rows, their bytes, and what the calls   *)
(* promise when they return.                                               *)
(*                                                                         *)
(* A caller may hold any blob that ever had a row, also one whose bytes    *)
(* are still being uploaded, so an upload may meet a purge.  A blob id is   *)
(* never given out again, so a blob whose row is gone is gone for good, and *)
(* bytes stored for it later are stored by an upload that came after the    *)
(* purge.                                                                   *)
(***************************************************************************)

\* What a caller or a row can name: a blob that had a row once, or the id 0 of a
\* blob that never had one.
Nameable == 0 .. nextBlobID

ArgsNamed == \A p \in Procs : \A i \in 1 .. Len(args[p]) : args[p][i].blob \in Nameable

BlobNamed == \A p \in Procs : blob[p] \in Nameable

NamedOK ==
    /\ \A r \in Refs : r.blob \in Nameable
    /\ ArgsNamed /\ BlobNamed

\* Between the two deletes of a purge the object is gone, or stored anew.
GoneOK == \A p \in Procs : pc[p] = "DeleteBlob" /\ blob[p] \in objects => blob[p] \in revived

NameInv == IdInv /\ NamedOK /\ GoneOK

-----------------------------------------------------------------------------
(* What a step does to the blobs.                                           *)

BlobsKept(p) ==
    /\ UNCHANGED <<blobs, nextBlobID, objects, known, failed, revived>>
    /\ pc[p] # "Upload" /\ pc'[p] # "DeleteBlob"
    /\ pc'[p] = "Upload" => blob'[p] \in Held
    /\ pc[p] = "DeleteBlob" => faults' = faults + 1 \/ blob[p] \notin blobs

BlobCreated(p) ==
    /\ pc[p] = "InsertBlob" /\ pc'[p] = "Upload"
    /\ nextBlobID' = nextBlobID + 1 /\ blob'[p] = nextBlobID'
    /\ blobs' = blobs \union {nextBlobID'}
    /\ UNCHANGED <<objects, known, failed, revived>>

BytesStored(p) ==
    /\ pc[p] = "Upload" /\ pc'[p] \notin {"Upload", "Delete", "DeleteBlob"}
    /\ Stored(blob[p]) /\ known' = known \union {blob[p]} /\ blob' = blob
    /\ UNCHANGED <<blobs, nextBlobID, failed>>

BytesFailed(p) ==
    /\ pc[p] = "Upload" /\ pc'[p] = "idle" /\ faults' = faults + 1
    /\ \/ Stored(blob[p])
       \/ objects' \in {objects, objects \ {blob[p]}} /\ UNCHANGED revived
    /\ failed' = failed \union {blob[p]}
    /\ UNCHANGED <<blobs, nextBlobID, known>>

BytesDeleted(p) ==
    /\ pc[p] = "Delete" /\ pc'[p] = "DeleteBlob" /\ blob'[p] = blob[p]
    /\ objects' = objects \ {blob[p]}
    /\ UNCHANGED <<blobs, nextBlobID, known, failed, revived>>

BlobGone(p) ==
    /\ pc[p] = "DeleteBlob" /\ pc'[p] \notin {"Upload", "Delete", "DeleteBlob"}
    /\ blobs' = blobs \ {blob[p]} /\ blob' = blob
    /\ UNCHANGED <<nextBlobID, objects, known, failed, revived>>

LEMMA BlobEffect ==
  ASSUME TypeInv, NEW p \in Procs, BeginCall(p) \/ Step(p)
  PROVE  \/ BlobsKept(p) \/ BlobCreated(p) \/ BytesStored(p) \/ BytesFailed(p)
         \/ BytesDeleted(p) \/ BlobGone(p)
  <1> USE DEF storeVars, histories, locals, TypeInv, TypeOK, PlaceTypeOK, LocalTypeOK, Goto, Return
  <1>1. CASE BeginCall(p)
    BY <1>1 DEF BeginCall, BeginCreate, BeginAttach, BeginRemove, BeginRowPurge,
                BeginBlobUpload, BeginBlobPurge, Begin, BlobsKept, FirstStep
  <1>2. CASE pc[p] # "Upload" /\ Fault(p)
    BY <1>2 DEF Fault, CountFault, BlobsKept
  <1>3. CASE pc[p] \notin {"Upload", "DeleteBlob"} /\ NotFound(p)
    BY <1>3 DEF NotFound, BlobsKept
  <1>4. CASE BlobFor(p)
    BY <1>2, <1>3, <1>4 DEF BlobFor, BlobsKept, AfterBlobFor
  <1>5. CASE CreateRow(p)
    BY <1>2, <1>5 DEF CreateRow, InsertBlob, BlobCreated
  <1>6. CASE UploadBytes(p)
    <2>1. CASE UploadDone(p)
      BY <1>6, <2>1 DEF UploadBytes, UploadDone, AfterBlobFor, BytesStored
    <2>2. CASE NotStored(blob[p]) /\ Return(p, "err") /\ UNCHANGED <<storeVars, known>>
      BY <1>6, <2>2 DEF UploadBytes, NotStored, CountFault, BytesFailed
    <2> QED BY <1>6, <2>1, <2>2 DEF UploadBytes
  <1>7. CASE ReadRows(p)
    BY <1>2, <1>7 DEF ReadRows, NextRow, FirstStep, BlobsKept
  <1>8. CASE InsertRow(p)
    BY <1>2, <1>8 DEF InsertRow, InsertAttachment, AfterInsert, BlobsKept
  <1>9. CASE LoadBlob(p)
    BY <1>2, <1>3, <1>9 DEF LoadBlob, BlobsKept
  <1>10. CASE DeleteRow(p)
    BY <1>2, <1>3, <1>10 DEF DeleteRow, DeleteAttachment, AfterDelete, NextRow, FirstStep, BlobsKept
  <1>11. CASE DeleteObject(p)
    BY <1>2, <1>11 DEF DeleteObject, BytesDeleted
  <1>12. CASE DeleteBlobRow(p)
    <2>1. CASE ~ FindBlob(blob[p]) /\ NotFound(p)
      BY <1>12, <2>1 DEF DeleteBlobRow, NotFound, FindBlob, BlobsKept
    <2> QED BY <1>2, <1>12, <2>1 DEF DeleteBlobRow, DeleteBlob, NextRow, FirstStep, BlobGone
  <1> QED BY <1>1, <1>4, <1>5, <1>6, <1>7, <1>8, <1>9, <1>10, <1>11, <1>12 DEF Step

\* A step of p leaves the remaining locals of the other processes alone.
LEMMA OthersKeepBlobs ==
  ASSUME TypeInv, NEW p \in Procs, BeginCall(p) \/ Step(p), NEW q \in Procs, q # p
  PROVE  blob'[q] = blob[q] /\ args'[q] = args[q] /\ result'[q] = result[q]
  <1> USE DEF TypeInv, TypeOK, PlaceTypeOK, LocalTypeOK, locals, Goto, Return
  <1>1. CASE BeginCall(p)
    BY <1>1 DEF BeginCall, BeginCreate, BeginAttach, BeginRemove, BeginRowPurge,
                BeginBlobUpload, BeginBlobPurge, Begin
  <1>2. CASE Fault(p) \/ NotFound(p)
    BY <1>2 DEF Fault, NotFound
  <1>3. CASE BlobFor(p)
    BY <1>2, <1>3 DEF BlobFor
  <1>4. CASE CreateRow(p)
    BY <1>2, <1>4 DEF CreateRow
  <1>5. CASE UploadBytes(p)
    BY <1>5 DEF UploadBytes, UploadDone, NotStored
  <1>6. CASE ReadRows(p)
    BY <1>2, <1>6 DEF ReadRows, NextRow
  <1>7. CASE InsertRow(p)
    BY <1>2, <1>7 DEF InsertRow, AfterInsert
  <1>8. CASE LoadBlob(p)
    BY <1>2, <1>8 DEF LoadBlob
  <1>9. CASE DeleteRow(p)
    BY <1>2, <1>9 DEF DeleteRow, AfterDelete, NextRow
  <1>10. CASE DeleteObject(p)
    BY <1>2, <1>10 DEF DeleteObject
  <1>11. CASE DeleteBlobRow(p)
    BY <1>2, <1>11 DEF DeleteBlobRow, NextRow
  <1> QED BY <1>1, <1>3, <1>4, <1>5, <1>6, <1>7, <1>8, <1>9, <1>10, <1>11 DEF Step

-----------------------------------------------------------------------------
(* Names.                                                                   *)

LEMMA NameInit == Init => NameInv
  <1> SUFFICES ASSUME Init PROVE NameInv
    OBVIOUS
  <1>1. /\ Refs = {} /\ nextBlobID = 0
        /\ \A p \in Procs : pc[p] = "idle" /\ args[p] = <<>> /\ blob[p] = 0
    BY DEF Init, NewMemStore, Refs
  <1>2. IdInv
    BY IdInit
  <1> QED BY <1>1, <1>2 DEF NameInv, NamedOK, ArgsNamed, BlobNamed, GoneOK, Nameable

LEMMA NameableGrows ==
  ASSUME NameInv, NEW p \in Procs, BeginCall(p) \/ Step(p)
  PROVE  /\ nextBlobID \in Nat /\ nextBlobID' \in Nat
         /\ nextBlobID' = nextBlobID \/ (BlobCreated(p) /\ nextBlobID' = nextBlobID + 1)
         /\ Nameable \subseteq Nameable'
  <1>1. TypeInv /\ nextBlobID \in Nat
    BY DEF NameInv, IdInv, TypeInv, TypeOK, StoreTypeOK
  <1>2. nextBlobID' = nextBlobID \/ (BlobCreated(p) /\ nextBlobID' = nextBlobID + 1)
    BY <1>1, BlobEffect DEF BlobsKept, BlobCreated, BytesStored, BytesFailed, BytesDeleted, BlobGone
  <1> QED BY <1>1, <1>2 DEF Nameable

\* What a call starts with.
LEMMA BeginNames ==
  ASSUME NameInv, NEW p \in Procs, NEW o, NEW s, NEW items, NEW b, NEW rows, NEW l,
         Begin(p, o, s, items, b, rows, l)
  PROVE  args'[p] = items /\ blob'[p] = b /\ pc'[p] = l /\ op'[p] = o /\ result'[p] = "none"
  BY DEF Begin, NameInv, IdInv, TypeInv, TypeOK, PlaceTypeOK, LocalTypeOK

LEMMA BeginNamed ==
  ASSUME NameInv, NEW p \in Procs, BeginCall(p)
  PROVE  /\ \A i \in 1 .. Len(args'[p]) : args'[p][i].blob \in Nameable
         /\ blob'[p] \in Nameable /\ result'[p] = "none"
  <1>0. nextBlobID \in Nat /\ 0 \in Nameable /\ Held \subseteq Nameable
    BY NameableGrows DEF Nameable, Held
  <1>a. \A i \in 1 .. Len(<<>>) : <<>>[i].blob \in Nameable
    OBVIOUS
  <1>1. CASE BeginCreate(p)
    BY <1>0, <1>a, <1>1, BeginNames DEF BeginCreate
  <1>2. CASE BeginAttach(p)
    <2>1. PICK o \in Attachers, s \in Slots : \E n \in BatchSizes(o) :
            \E items \in [1 .. n -> Values] : Begin(p, o, s, items, 0, {}, "blobFor")
      BY <1>2 DEF BeginAttach
    <2>2. PICK n \in BatchSizes(o) : \E items \in [1 .. n -> Values] :
            Begin(p, o, s, items, 0, {}, "blobFor")
      BY <2>1
    <2>3. PICK items \in [1 .. n -> Values] : Begin(p, o, s, items, 0, {}, "blobFor")
      BY <2>2
    <2>4. \A a \in Values : a.blob \in Nameable
      BY <1>0 DEF Values
    <2>5. n \in Nat /\ Len(items) = n
      BY BoundsAssumption DEF BatchSizes
    <2>6. \A i \in 1 .. Len(items) : items[i].blob \in Nameable
      BY <2>4, <2>5
    <2>7. args'[p] = items /\ blob'[p] = 0 /\ result'[p] = "none"
      BY <2>3, BeginNames
    <2> QED BY <1>0, <2>6, <2>7
  <1>3. CASE BeginRemove(p)
    <2>1. PICK o \in (Detachers \union Purgers) \ {"att.Purge"}, s \in Slots :
            Begin(p, o, s, <<>>, 0, {}, "FindAttachments")
      BY <1>3 DEF BeginRemove
    <2> QED BY <1>0, <1>a, <2>1, BeginNames
  <1>4. CASE BeginRowPurge(p)
    <2>1. PICK r \in attachments \union dismissed \union replaced :
            Begin(p, "att.Purge", r.slot, <<>>, 0, {r}, FirstStep("att.Purge"))
      BY <1>4 DEF BeginRowPurge
    <2> QED BY <1>0, <1>a, <2>1, BeginNames
  <1>5. CASE BeginBlobPurge(p)
    <2>1. PICK b \in Held : Begin(p, "blob.Purge", slot[p], <<>>, b, {}, "Delete")
      BY <1>5 DEF BeginBlobPurge
    <2> QED BY <1>0, <1>a, <2>1, BeginNames
  <1>6. CASE BeginBlobUpload(p)
    <2>1. PICK b \in Held : Begin(p, "blob.Upload", slot[p], <<>>, b, {}, "Upload")
      BY <1>6 DEF BeginBlobUpload
    <2> QED BY <1>0, <1>a, <2>1, BeginNames
  <1> QED BY <1>1, <1>2, <1>3, <1>4, <1>5, <1>6 DEF BeginCall

\* The attachables of p stay named: a step at most takes the first one off.
LEMMA StepArgs ==
  ASSUME NameInv, NEW p \in Procs, Step(p)
  PROVE  args'[p] = args[p] \/ (args[p] # <<>> /\ args'[p] = Tail(args[p]))
  <1> USE DEF NameInv, IdInv, TypeInv, TypeOK, LocalTypeOK, locals
  <1>1. CASE Fault(p) \/ NotFound(p)
    BY <1>1 DEF Fault, NotFound
  <1>2. CASE InsertRow(p)
    BY <1>1, <1>2 DEF InsertRow, ArgsOK
  <1>3. CASE UploadBytes(p)
    BY <1>3 DEF UploadBytes, UploadDone
  <1> QED BY <1>1, <1>2, <1>3 DEF Step, BlobFor, CreateRow, ReadRows, LoadBlob, DeleteRow,
                                  DeleteObject, DeleteBlobRow

\* So is the blob p works on.
LEMMA StepBlob ==
  ASSUME NameInv, NEW p \in Procs, Step(p)
  PROVE  blob'[p] \in Nameable'
  <1> USE DEF NameInv, IdInv, TypeInv, TypeOK, LocalTypeOK, PlaceTypeOK, locals
  <1>0. Nameable \subseteq Nameable'
    BY NameableGrows
  <1>1. CASE blob'[p] = blob[p]
    BY <1>0, <1>1 DEF NamedOK, BlobNamed
  <1>2. CASE Fault(p) \/ NotFound(p)
    BY <1>1, <1>2 DEF Fault, NotFound
  <1>3. CASE BlobFor(p)
    <2>1. Head(args[p]).blob \in Nameable
      <3>1. args[p] \in Seq([kind : Kinds, blob : Nat]) /\ args[p] # <<>>
        BY <1>3 DEF BlobFor, ArgsOK
      <3>2. 1 \in 1 .. Len(args[p]) /\ Head(args[p]) = args[p][1]
        BY <3>1
      <3> QED BY <3>2 DEF NamedOK, ArgsNamed
    <2> QED BY <1>0, <1>1, <1>2, <1>3, <2>1 DEF BlobFor
  <1>4. CASE CreateRow(p)
    <2>1. CASE InsertBlob /\ blob' = [blob EXCEPT ![p] = nextBlobID']
      <3>1. nextBlobID' \in Nat /\ blob'[p] = nextBlobID'
        BY <2>1, NameableGrows
      <3> QED BY <3>1 DEF Nameable
    <2> QED BY <1>2, <1>4, <2>1 DEF CreateRow
  <1>5. CASE UploadBytes(p)
    BY <1>1, <1>5 DEF UploadBytes, UploadDone
  <1>6. CASE DeleteRow(p)
    <2>1. \A r \in Doomed(p) : r.blob \in Nameable
      BY DEF Doomed, First, ListedOK, NamedOK
    <2> QED BY <1>0, <1>1, <1>2, <1>6, <2>1 DEF DeleteRow, AfterDelete
  <1> QED BY <1>1, <1>2, <1>3, <1>4, <1>5, <1>6 DEF Step, ReadRows, InsertRow, LoadBlob,
                                                    DeleteObject, DeleteBlobRow

LEMMA NamedStep ==
  ASSUME NameInv, NEW p \in Procs, BeginCall(p) \/ Step(p)
  PROVE  NamedOK'
  <1> USE DEF NameInv
  <1>0. TypeInv /\ Nameable \subseteq Nameable'
    BY NameableGrows DEF IdInv
  <1>2. ASSUME NEW r \in Refs' PROVE r.blob \in Nameable'
    <2>1. CASE r \in Refs
      BY <1>0, <2>1 DEF NamedOK
    <2>2. CASE RowInserted(p) /\ r = NewRow(p)
      BY <1>0, <2>2 DEF RowInserted, NewRow, NamedOK, BlobNamed
    <2> QED BY <2>1, <2>2, RowEffect DEF RowsKept, RowInserted, RowRemoved, Refs
  <1>3. ArgsNamed'
    <2> SUFFICES ASSUME NEW q \in Procs, NEW i \in 1 .. Len(args'[q])
                 PROVE  args'[q][i].blob \in Nameable'
      BY DEF ArgsNamed
    <2>1. CASE args'[q] = args[q]
      BY <1>0, <2>1 DEF NamedOK, ArgsNamed
    <2>2. CASE args[q] # <<>> /\ args'[q] = Tail(args[q])
      <3>1. args[q] \in Seq([kind : Kinds, blob : Nat])
        BY <1>0 DEF TypeInv, TypeOK, LocalTypeOK
      <3>2. i + 1 \in 1 .. Len(args[q]) /\ args'[q][i] = args[q][i + 1]
        BY <2>2, <3>1
      <3> QED BY <1>0, <3>2 DEF NamedOK, ArgsNamed
    <2> QED BY <1>0, <2>1, <2>2, BeginNamed, StepArgs, OthersKeepBlobs
  <1>4. BlobNamed'
    <2> SUFFICES ASSUME NEW q \in Procs PROVE blob'[q] \in Nameable'
      BY DEF BlobNamed
    <2>1. CASE q # p
      BY <1>0, <2>1, OthersKept, OthersKeepBlobs DEF NamedOK, BlobNamed
    <2>2. CASE q = p
      BY <1>0, <2>2, BeginNamed, StepBlob
    <2> QED BY <2>1, <2>2
  <1> QED BY <1>2, <1>3, <1>4 DEF NamedOK

\* What is stored when it can be found no more is revived; what was stays so.
LEMMA RevivedStep ==
  ASSUME TypeInv, NEW p \in Procs, BeginCall(p) \/ Step(p)
  PROVE  /\ revived \subseteq revived'
         /\ \A b \in objects' \ objects : Purged(b) => b \in revived'
  <1>1. ASSUME NEW b, Stored(b)
        PROVE  /\ revived \subseteq revived'
               /\ \A c \in objects' \ objects : Purged(c) => c \in revived'
    BY <1>1 DEF Stored
  <1> QED BY <1>1, BlobEffect DEF BlobsKept, BlobCreated, BytesStored, BytesFailed, BytesDeleted,
                                  BlobGone

LEMMA GoneStep ==
  ASSUME NameInv, NEW p \in Procs, BeginCall(p) \/ Step(p)
  PROVE  GoneOK'
  <1> USE DEF NameInv
  <1> SUFFICES ASSUME NEW q \in Procs, pc'[q] = "DeleteBlob", blob'[q] \in objects'
               PROVE  blob'[q] \in revived'
    BY DEF GoneOK
  <1>0. TypeInv
    BY DEF IdInv
  <1>1. CASE q # p
    <2>1. pc[q] = "DeleteBlob" /\ blob'[q] = blob[q]
      BY <1>0, <1>1, OthersKept, OthersKeepBlobs
    <2>2. CASE blob[q] \in objects
      BY <1>0, <2>1, <2>2, RevivedStep DEF GoneOK
    <2>3. CASE blob[q] \notin objects
      <3>1. Purged(blob[q])
        BY <2>1 DEF Purged
      <3> QED BY <1>0, <2>1, <2>3, <3>1, RevivedStep
    <2> QED BY <2>2, <2>3
  <1>2. CASE q = p
    BY <1>0, <1>2, BlobEffect DEF BlobsKept, BlobCreated, BytesStored, BytesFailed, BytesDeleted,
                                  BlobGone
  <1> QED BY <1>1, <1>2

LEMMA NameStep ==
  ASSUME NameInv, NEW p \in Procs, BeginCall(p) \/ Step(p)
  PROVE  NameInv'
  BY IdStep, NamedStep, GoneStep DEF NameInv

LEMMA NameStutter == NameInv /\ UNCHANGED vars => NameInv'
  <1> SUFFICES ASSUME NameInv, UNCHANGED vars PROVE NameInv'
    OBVIOUS
  <1>1. IdInv'
    BY IdNext DEF NameInv
  <1> QED BY <1>1 DEF NameInv, NamedOK, ArgsNamed, BlobNamed, GoneOK, Nameable, Refs,
                      vars, storeVars, locals, histories

LEMMA NameInvariant == Spec => []NameInv
  <1>1. NameInv /\ [Next]_vars => NameInv'
    BY NameStep, NameStutter DEF Next
  <1> QED BY <1>1, NameInit, PTL DEF Spec

LEMMA FaultsGrow ==
  ASSUME TypeInv, NEW p \in Procs, BeginCall(p) \/ Step(p)
  PROVE  faults' = faults \/ faults' = faults + 1
  BY DEF BeginCall, BeginCreate, BeginAttach, BeginRemove, BeginRowPurge, BeginBlobUpload, BeginBlobPurge, Begin,
     Step, BlobFor, CreateRow, UploadBytes, UploadDone, NotStored, ReadRows, InsertRow, LoadBlob,
     DeleteRow, DeleteObject, DeleteBlobRow, Fault, CountFault, NotFound

\* An object no row knows of was stored by an upload when a purge had deleted it: no
\* purge and no creation that stops half way leaves one, wherever a call fails and
\* whoever holds the blob (blob.go:168, 413).
THEOREM NoOrphans == Spec => []NoOrphanObjects
  <1> DEFINE Inv == NameInv /\ NoOrphanObjects
  <1>1. Init => Inv
    BY NameInit DEF Init, NewMemStore, NoOrphanObjects
  <1>2. Inv /\ [Next]_vars => Inv'
    <2> SUFFICES ASSUME Inv, [Next]_vars PROVE NoOrphanObjects'
      BY NameStep, NameStutter DEF Next
    <2>1. ASSUME NEW p \in Procs, BeginCall(p) \/ Step(p) PROVE NoOrphanObjects'
      <3>1. TypeInv
        BY DEF NameInv, IdInv
      <3>2. SUFFICES ASSUME NEW b \in objects', b \notin blobs' PROVE b \in revived'
        BY DEF NoOrphanObjects
      <3>3. CASE b \in objects /\ b \notin blobs
        BY <2>1, <3>1, <3>3, RevivedStep DEF NoOrphanObjects
      <3>4. CASE b \in objects /\ b \in blobs
        <4>1. BlobGone(p) /\ b = blob[p]
          BY <2>1, <3>1, <3>2, <3>4, BlobEffect DEF BlobsKept, BlobCreated, BytesStored,
             BytesFailed, BytesDeleted, BlobGone
        <4> QED BY <3>4, <4>1 DEF BlobGone, NameInv, GoneOK
      <3>5. CASE b \notin objects
        <4>1. b \notin blobs
          BY <2>1, <3>1, <3>2, <3>5, BlobEffect DEF BlobsKept, BlobCreated, BytesStored,
             BytesFailed, BytesDeleted, BlobGone
        <4> QED BY <2>1, <3>1, <3>2, <3>5, <4>1, RevivedStep DEF Purged
      <3> QED BY <3>3, <3>4, <3>5
    <2>2. CASE UNCHANGED vars
      BY <2>2 DEF NoOrphanObjects, vars, storeVars, histories
    <2> QED BY <2>1, <2>2 DEF Next
  <1> QED BY <1>1, <1>2, PTL DEF Spec

\* Without a failing seam a row without bytes is being uploaded or purged by someone,
\* whatever interleaves.
THEOREM BrokenOnlyAfterFault == Spec => []BrokenOnlyByFault
  <1> DEFINE Inv == NameInv /\ BrokenOnlyByFault
  <1>1. Init => Inv
    BY NameInit DEF Init, NewMemStore, BrokenOnlyByFault
  <1>2. Inv /\ [Next]_vars => Inv'
    <2> SUFFICES ASSUME Inv, [Next]_vars PROVE BrokenOnlyByFault'
      BY NameStep, NameStutter DEF Next
    <2>1. ASSUME NEW p \in Procs, BeginCall(p) \/ Step(p) PROVE BrokenOnlyByFault'
      <3>1. TypeInv
        BY DEF NameInv, IdInv
      <3>2. SUFFICES ASSUME faults' = 0, NEW b \in blobs' \ objects'
                     PROVE  \E q \in Procs : blob'[q] = b /\ pc'[q] \in {"Upload", "DeleteBlob"}
        BY DEF BrokenOnlyByFault
      <3>3. faults = 0
        <4>1. faults \in Nat /\ (faults' = faults \/ faults' = faults + 1)
          BY <2>1, <3>1, FaultsGrow DEF TypeInv, TypeOK, CountTypeOK
        <4> QED BY <3>2, <4>1
      <3>4. ASSUME NEW q \in Procs, blob[q] = b, pc[q] \in {"Upload", "DeleteBlob"}, q # p
            PROVE  blob'[q] = b /\ pc'[q] \in {"Upload", "DeleteBlob"}
        BY <2>1, <3>1, <3>4, OthersKept, OthersKeepBlobs
      <3>5. CASE BlobsKept(p)
        <4>1. pc[p] # "Upload"
          BY <3>5 DEF BlobsKept
        <4>2. pc[p] = "DeleteBlob" => blob[p] \notin blobs
          BY <3>2, <3>3, <3>5 DEF BlobsKept
        <4> QED BY <3>2, <3>3, <3>4, <3>5, <4>1, <4>2 DEF BlobsKept, BrokenOnlyByFault
      <3>6. CASE BlobCreated(p)
        BY <3>2, <3>3, <3>4, <3>6 DEF BlobCreated, BrokenOnlyByFault
      <3>7. CASE BytesStored(p)
        BY <3>2, <3>3, <3>4, <3>7 DEF BytesStored, Stored, BrokenOnlyByFault
      <3>8. CASE BytesFailed(p)
        BY <3>2, <3>3, <3>8 DEF BytesFailed
      <3>9. CASE BytesDeleted(p)
        BY <3>2, <3>3, <3>4, <3>9 DEF BytesDeleted, BrokenOnlyByFault
      <3>10. CASE BlobGone(p)
        BY <3>2, <3>3, <3>4, <3>10 DEF BlobGone, BrokenOnlyByFault
      <3> QED BY <2>1, <3>1, <3>5, <3>6, <3>7, <3>8, <3>9, <3>10, BlobEffect
    <2>2. CASE UNCHANGED vars
      BY <2>2 DEF BrokenOnlyByFault, vars, storeVars, locals
    <2> QED BY <2>1, <2>2 DEF Next
  <1> QED BY <1>1, <1>2, PTL DEF Spec

-----------------------------------------------------------------------------
(* What was uploaded stays until it is given up.                            *)

GivenUp(b) == b = 0 \/ b \in released \/ \E r \in dismissed : r.blob = b

\* A purge is of a blob a caller gave up.
PurgedOK == \A p \in Procs : pc[p] \in {"Delete", "DeleteBlob"} => GivenUp(blob[p])

\* So is a row that is gone, and who uploads a blob has its number.
MissingOK == \A b \in Held \ blobs : GivenUp(b)

HeldOK ==
    /\ known \subseteq Held
    /\ \A p \in Procs : pc[p] = "Upload" => blob[p] \in Held

KeptInv == NameInv /\ PurgedOK /\ MissingOK /\ HeldOK /\ HandedOutIsStored

LEMMA HistoryGrows ==
  ASSUME IdInv, NEW p \in Procs, BeginCall(p) \/ Step(p)
  PROVE  released \subseteq released' /\ dismissed \subseteq dismissed'
  <1>1. dismissed \subseteq dismissed'
    BY RowEffect DEF RowsKept, RowInserted, RowRemoved
  <1>2. released \subseteq released'
    BY DEF BeginCall, BeginCreate, BeginAttach, BeginRemove, BeginRowPurge, BeginBlobUpload,
       BeginBlobPurge, Step, UploadDone, BlobFor, CreateRow, UploadBytes, ReadRows, InsertRow, LoadBlob, DeleteRow, DeleteObject,
       DeleteBlobRow, Fault, NotFound, histories
  <1> QED BY <1>1, <1>2

LEMMA PurgedStep ==
  ASSUME NameInv, PurgedOK, NEW p \in Procs, BeginCall(p) \/ Step(p)
  PROVE  PurgedOK'
  <1> DEFINE After(b) == b = 0 \/ b \in released' \/ \E r \in dismissed' : r.blob = b
  <1> SUFFICES ASSUME NEW q \in Procs, pc'[q] \in {"Delete", "DeleteBlob"}
               PROVE  After(blob'[q])
    BY DEF PurgedOK, GivenUp
  <1>0. IdInv /\ TypeInv
    BY DEF NameInv, IdInv
  <1>1. ASSUME NEW b, GivenUp(b) PROVE After(b)
    BY <1>0, <1>1, HistoryGrows DEF GivenUp
  <1>2. CASE pc[q] \in {"Delete", "DeleteBlob"} /\ blob'[q] = blob[q]
    BY <1>1, <1>2 DEF PurgedOK
  <1>3. CASE q # p
    BY <1>0, <1>2, <1>3, OthersKept, OthersKeepBlobs
  <1>4. CASE q = p
    <2> USE <1>0, <1>4 DEF TypeInv, TypeOK, PlaceTypeOK, LocalTypeOK, Goto, Return, locals
    <2>1. CASE BeginCall(p)
      <3>1. CASE BeginBlobPurge(p)
        <4>1. PICK b \in Held : /\ Begin(p, "blob.Purge", slot[p], <<>>, b, {}, "Delete")
                                /\ released' = released \union {b}
          BY <3>1 DEF BeginBlobPurge
        <4>2. blob'[p] = b
          BY <4>1, BeginNames
        <4> QED BY <4>1, <4>2
      <3>2. CASE ~ BeginBlobPurge(p)
        BY <2>1, <3>2 DEF BeginCall, BeginCreate, BeginAttach, BeginRemove, BeginRowPurge,
                          BeginBlobUpload, Begin, FirstStep
      <3> QED BY <3>1, <3>2
    <2>2. CASE DeleteRow(p)
      <3>1. ~ Fault(p) /\ ~ NotFound(p)
        BY DEF Fault, NotFound
      <3>2. PICK r \in Doomed(p) :
              /\ DeleteAttachment(r.id) /\ AfterDelete(p, r)
              /\ IF op[p] = "one.Attach" THEN TRUE
                 ELSE dismissed' = dismissed \union RowsWithID(r.id)
        BY <2>2, <3>1 DEF DeleteRow
      <3>3. op[p] \in Purgers /\ blob'[p] = r.blob
        BY <3>2 DEF AfterDelete, NextRow, FirstStep
      <3>4. r \in RowsWithID(r.id)
        <4>1. r \in Refs
          BY DEF Doomed, First, IdInv, ListedOK
        <4> QED BY <3>2, <4>1 DEF DeleteAttachment, RowsWithID, IdInv, UniqueIds, Refs
      <3> QED BY <3>2, <3>3, <3>4 DEF Purgers
    <2>3. CASE DeleteObject(p)
      BY <1>2, <2>3 DEF DeleteObject, Fault
    <2> QED BY <2>1, <2>2, <2>3
            DEF Step, BlobFor, CreateRow, UploadBytes, UploadDone, NotStored, ReadRows, InsertRow,
                LoadBlob, DeleteBlobRow, Fault, NotFound, NextRow, FirstStep, AfterBlobFor,
                AfterInsert
  <1> QED BY <1>3, <1>4

LEMMA MissingStep ==
  ASSUME NameInv, PurgedOK, MissingOK, NEW p \in Procs, BeginCall(p) \/ Step(p)
  PROVE  MissingOK'
  <1> DEFINE After(b) == b = 0 \/ b \in released' \/ \E r \in dismissed' : r.blob = b
  <1> SUFFICES ASSUME NEW b \in Held', b \notin blobs' PROVE After(b)
    BY DEF MissingOK, GivenUp
  <1>0. IdInv /\ TypeInv
    BY DEF NameInv, IdInv
  <1>1. CASE GivenUp(b)
    BY <1>0, <1>1, HistoryGrows DEF GivenUp
  <1>2. CASE b \in Held /\ b \notin blobs
    BY <1>1, <1>2 DEF MissingOK
  <1>3. CASE b \in Held /\ b \in blobs
    <2>1. BlobGone(p) /\ b = blob[p]
      BY <1>0, <1>3, BlobEffect DEF BlobsKept, BlobCreated, BytesStored, BytesFailed, BytesDeleted,
                                    BlobGone
    <2> QED BY <1>1, <2>1 DEF BlobGone, PurgedOK
  <1>4. CASE b \notin Held
    <2>1. nextBlobID \in Nat /\ BlobCreated(p) /\ b = nextBlobID'
      BY <1>4, NameableGrows DEF Held
    <2> QED BY <2>1 DEF BlobCreated
  <1> QED BY <1>2, <1>3, <1>4

LEMMA HeldStep ==
  ASSUME NameInv, HeldOK, NEW p \in Procs, BeginCall(p) \/ Step(p)
  PROVE  HeldOK'
  <1>0. TypeInv /\ Held \subseteq Held'
    BY NameableGrows DEF NameInv, IdInv, Held
  <1>1. known' \subseteq Held'
    BY <1>0, BlobEffect DEF HeldOK, BlobsKept, BlobCreated, BytesStored, BytesFailed, BytesDeleted,
                            BlobGone
  <1>2. ASSUME NEW q \in Procs, pc'[q] = "Upload" PROVE blob'[q] \in Held'
    <2>1. CASE q # p
      BY <1>0, <1>2, <2>1, OthersKept, OthersKeepBlobs DEF HeldOK
    <2>2. CASE q = p
      <3>1. CASE BlobsKept(p)
        BY <1>0, <1>2, <2>2, <3>1 DEF BlobsKept
      <3>2. CASE BlobCreated(p)
        <4>1. nextBlobID' \in Held'
          BY <3>2, NameableGrows DEF Held, BlobCreated
        <4> QED BY <2>2, <3>2, <4>1 DEF BlobCreated
      <3> QED BY <1>0, <1>2, <2>2, <3>1, <3>2, BlobEffect
              DEF BytesStored, BytesFailed, BytesDeleted, BlobGone
    <2> QED BY <2>1, <2>2
  <1> QED BY <1>1, <1>2 DEF HeldOK

LEMMA HandedOutStep ==
  ASSUME KeptInv, NEW p \in Procs, BeginCall(p) \/ Step(p)
  PROVE  HandedOutIsStored'
  <1> USE DEF KeptInv, NameInv
  <1> DEFINE After(b) == b = 0 \/ b \in released' \/ \E r \in dismissed' : r.blob = b
  <1>a. 0 \notin known'
    BY HeldStep DEF HeldOK, Held
  <1> SUFFICES ASSUME NEW b \in known'
               PROVE  (b \in blobs' /\ b \in objects' \union failed') \/ After(b)
    BY <1>a DEF HandedOutIsStored
  <1>0. IdInv /\ TypeInv
    BY DEF IdInv
  <1>1. CASE GivenUp(b)
    BY <1>0, <1>1, HistoryGrows DEF GivenUp
  <1>2. CASE BytesStored(p) /\ b = blob[p]
    <2>1. b \in Held
      BY <1>2 DEF BytesStored, HeldOK
    <2>2. CASE b \notin blobs
      BY <1>1, <2>1, <2>2 DEF MissingOK
    <2>3. CASE b \in blobs
      BY <1>2, <2>3 DEF BytesStored, Stored
    <2> QED BY <2>2, <2>3
  <1>3. CASE b \in known /\ b \in blobs /\ b \in objects \union failed
    <2>1. pc[p] \in {"Delete", "DeleteBlob"} /\ blob[p] = b => GivenUp(b)
      BY DEF PurgedOK
    <2>2. CASE BytesStored(p) \/ BytesFailed(p)
      BY <1>3, <2>2 DEF BytesStored, BytesFailed, Stored
    <2> QED BY <1>0, <1>1, <1>3, <2>1, <2>2, BlobEffect DEF BlobsKept, BlobCreated, BytesDeleted,
                                                            BlobGone
  <1>4. b \in known => GivenUp(b) \/ (b \in blobs /\ b \in objects \union failed)
    BY DEF HandedOutIsStored, GivenUp
  <1>5. known' = known \/ BytesStored(p)
    BY <1>0, BlobEffect DEF BlobsKept, BlobCreated, BytesFailed, BytesDeleted, BlobGone
  <1> QED BY <1>1, <1>2, <1>3, <1>4, <1>5 DEF BytesStored

\* A blob that was uploaded keeps its row until a caller purges it or dismisses one of
\* its rows, and its bytes unless another upload of it fails; replacing it with
\* OneAttached.Attach does not count.
THEOREM HandedOutStays == Spec => []HandedOutIsStored
  <1>1. Init => KeptInv
    BY NameInit DEF Init, NewMemStore, KeptInv, PurgedOK, MissingOK, HeldOK, Held, HandedOutIsStored
  <1>2. KeptInv /\ [Next]_vars => KeptInv'
    <2>1. ASSUME KeptInv, UNCHANGED vars PROVE KeptInv'
      <3>1. NameInv'
        BY <2>1, NameStutter DEF KeptInv
      <3> QED BY <2>1, <3>1 DEF KeptInv, PurgedOK, MissingOK, HeldOK, Held, GivenUp,
                                HandedOutIsStored, vars, storeVars, locals, histories
    <2>2. ASSUME KeptInv, NEW p \in Procs, BeginCall(p) \/ Step(p) PROVE KeptInv'
      BY <2>2, NameStep, PurgedStep, MissingStep, HeldStep, HandedOutStep DEF KeptInv
    <2> QED BY <2>1, <2>2 DEF Next
  <1>3. KeptInv => HandedOutIsStored
    BY DEF KeptInv
  <1> QED BY <1>1, <1>2, <1>3, PTL DEF Spec

-----------------------------------------------------------------------------
(* What a call has done when it returns.                                    *)

\* The rows a call has taken off its list are gone, and for a purge their blobs.
Gone(p, r) ==
    /\ r \notin attachments
    /\ op[p] \in Purgers => GoneForGood(r.blob)

DoneOK == \A p \in Procs : \A r \in listed[p] \ pending[p] : Gone(p, r)

\* The first row left is the one whose blob a purge is deleting, and it is gone.
HeadOK == \A p \in Procs : pc[p] \in {"Delete", "DeleteBlob"} /\ op[p] \in Purgers =>
    /\ First(pending[p]) # {}
    /\ \A r \in First(pending[p]) : r \notin attachments /\ r.blob = blob[p]

\* A call has no result while it runs, and nothing left to do when it returns nil.
EndOK == \A p \in Procs :
    /\ pc[p] # "idle" => result[p] = "none"
    /\ pc[p] = "idle" /\ result[p] = "ok" => pending[p] = {}

\* OneAttached.Attach has one attachable, and resolves it before it lists any row.
ListlessOK == \A p \in Procs :
    /\ op[p] \in {"create", "many.Attach", "blob.Upload", "blob.Purge"} => listed[p] = {}
    /\ op[p] = "one.Attach" => args[p] = <<>> \/ Tail(args[p]) = <<>>
    /\ pc[p] \in {"blobFor", "InsertBlob", "Upload"} => listed[p] = {}

CacheOK == CachesBlob => \A p \in Procs : pc[p] # "Blob"

\* What Blob.Purge, called by itself, has taken away.
TakenOK == \A p \in Procs :
    pc[p] = "idle" /\ result[p] = "ok" /\ op[p] = "blob.Purge" => GoneForGood(blob[p])

DoneInv == NameInv /\ DoneOK /\ HeadOK /\ EndOK /\ ListlessOK /\ CacheOK /\ TakenOK

\* What is gone does not come back: ids are new, and bytes stored later are revived.
LEMMA RowStaysGone ==
  ASSUME NameInv, NEW p \in Procs, BeginCall(p) \/ Step(p), NEW r \in Refs, r \notin attachments
  PROVE  r \notin attachments'
  <1>1. nextAttID \in Nat
    BY DEF NameInv, IdInv, TypeInv, TypeOK, StoreTypeOK
  <1>2. r # NewRow(p)
    BY <1>1 DEF NewRow, NameInv, IdInv, RefsBelow
  <1>3. attachments' \subseteq attachments \union {NewRow(p)}
    BY RowEffect DEF NameInv, RowsKept, RowInserted, RowRemoved
  <1> QED BY <1>2, <1>3

LEMMA BlobStaysGone ==
  ASSUME NameInv, NEW p \in Procs, BeginCall(p) \/ Step(p), NEW b \in Nameable, GoneForGood(b)
  PROVE  b \notin blobs' /\ (b \in objects' => b \in revived')
  <1>1. TypeInv /\ b # nextBlobID + 1
    BY NameableGrows DEF NameInv, IdInv, Nameable
  <1>2. b \notin blobs'
    BY <1>1, NameableGrows, BlobEffect
       DEF GoneForGood, BlobsKept, BlobCreated, BytesStored, BytesFailed, BytesDeleted, BlobGone
  <1>3. Purged(b)
    BY DEF GoneForGood, Purged
  <1> QED BY <1>1, <1>2, <1>3, RevivedStep DEF GoneForGood

\* How a row comes off the list.
LEMMA TakenOff ==
  ASSUME NameInv, NEW p \in Procs, Step(p), NEW r \in pending[p], r \notin pending'[p],
         listed'[p] # pending'[p]
  PROVE  \/ pc[p] = "DeleteAttachment" /\ op[p] \notin Purgers /\ r \notin attachments'
         \/ pc[p] = "DeleteBlob" /\ r \in First(pending[p]) /\ BlobGone(p)
  <1>0. TypeInv /\ r \in Refs
    BY DEF NameInv, IdInv, ListedOK
  <1>00. faults \in Nat
    BY <1>0 DEF TypeInv, TypeOK, CountTypeOK
  <1>01. pc[p] = "DeleteBlob" /\ blob[p] \in blobs /\ faults' = faults => BlobGone(p)
    BY <1>0, <1>00, BlobEffect DEF BlobsKept, BlobCreated, BytesStored, BytesFailed, BytesDeleted
  <1> USE <1>0 DEF TypeInv, TypeOK, PlaceTypeOK, LocalTypeOK, locals
  <1>1. ~ Fault(p) /\ ~ NotFound(p)
    BY DEF Fault, NotFound
  <1>2. CASE DeleteRow(p)
    BY <1>1, <1>2 DEF DeleteRow, AfterDelete, DeleteAttachment, RowsWithID
  <1>3. CASE ReadRows(p)
    BY <1>1, <1>3 DEF ReadRows
  <1>4. CASE DeleteBlobRow(p)
    <2>1. pc[p] = "DeleteBlob" /\ r \in First(pending[p])
      BY <1>1, <1>4 DEF DeleteBlobRow
    <2>2. blob[p] \in blobs /\ faults' = faults
      BY <1>1, <1>4 DEF DeleteBlobRow, DeleteBlob, FindBlob
    <2> QED BY <1>01, <2>1, <2>2
  <1>5. CASE UploadBytes(p)
    BY <1>5 DEF UploadBytes, UploadDone
  <1> QED BY <1>1, <1>2, <1>3, <1>4, <1>5 DEF Step, BlobFor, CreateRow, InsertRow, LoadBlob,
                                              DeleteObject

LEMMA DoneStep ==
  ASSUME DoneInv, NEW p \in Procs, BeginCall(p) \/ Step(p)
  PROVE  DoneOK'
  <1> USE DEF DoneInv
  <1>0. IdInv /\ TypeInv /\ IdInv'
    BY NameStep DEF NameInv, IdInv
  <1> SUFFICES ASSUME NEW q \in Procs, NEW r \in listed'[q] \ pending'[q]
               PROVE  /\ r \notin attachments'
                      /\ op'[q] \in Purgers =>
                           r.blob \notin blobs' /\ (r.blob \in objects' => r.blob \in revived')
    BY DEF DoneOK, Gone, GoneForGood
  <1>1. CASE r \in listed[q] \ pending[q] /\ op'[q] = op[q]
    <2>1. r \in Refs
      BY <1>0, <1>1 DEF IdInv, ListedOK
    <2>2. r.blob \in Nameable
      BY <2>1 DEF NameInv, NamedOK
    <2> QED BY <1>1, <2>1, <2>2, RowStaysGone, BlobStaysGone DEF DoneOK, Gone
  <1>2. CASE q # p
    BY <1>0, <1>1, <1>2, OthersKept
  <1>3. CASE q = p
    <2>1. op'[p] = op[p] /\ listed'[p] = listed[p] /\ Step(p)
      <3>1. ~ ListStarted(p) /\ ~ ListRead(p)
        BY <1>3 DEF ListStarted, ListRead
      <3>2. ListShortened(p) /\ ~ BeginCall(p)
        BY <1>0, <3>1, ListEffect, BeginStartsList
      <3> QED BY <3>2 DEF ListShortened
    <2>2. CASE r \notin pending[p]
      BY <1>1, <1>3, <2>1, <2>2
    <2>3. CASE r \in pending[p]
      <3>1. CASE pc[p] = "DeleteAttachment" /\ op[p] \notin Purgers /\ r \notin attachments'
        BY <1>3, <2>1, <3>1
      <3>2. CASE pc[p] = "DeleteBlob" /\ r \in First(pending[p]) /\ BlobGone(p)
        <4>1. r \in Refs
          BY <1>0, <2>3 DEF IdInv, ListedOK
        <4>2. op[p] \in Purgers
          <5>1. op[p] = "blob.Purge" => listed[p] = {}
            BY DEF ListlessOK
          <5> QED BY <1>0, <2>3, <3>2, <5>1 DEF TypeInv, ArgsOK, IdInv, ListedOK
        <4>3. r \notin attachments /\ r.blob = blob[p]
          BY <3>2, <4>2 DEF HeadOK
        <4>4. r.blob \in objects => r.blob \in revived
          BY <3>2, <4>3 DEF NameInv, GoneOK
        <4> QED BY <3>2, <4>1, <4>3, <4>4, RowStaysGone DEF BlobGone
      <3> QED BY <1>3, <2>1, <2>3, <3>1, <3>2, TakenOff
    <2> QED BY <2>2, <2>3
  <1> QED BY <1>2, <1>3


LEMMA DoneInit == Init => DoneInv
  BY NameInit DEF Init, DoneInv, DoneOK, HeadOK, EndOK, ListlessOK, CacheOK, TakenOK

\* No two rows a call may have listed have the same id.
LEMMA FirstUnique ==
  ASSUME IdInv, NEW S \in SUBSET Refs, NEW r \in First(S), NEW m \in First(S)
  PROVE  m = r
  <1>1. m \in Refs /\ r \in Refs /\ m.id <= r.id /\ r.id <= m.id
    BY DEF First
  <1>2. m.id \in Nat /\ r.id \in Nat
    BY <1>1 DEF IdInv, RefsBelow
  <1>3. m.id = r.id
    BY <1>1, <1>2
  <1> QED BY <1>1, <1>3 DEF IdInv, UniqueIds

\* At the deletes of a purge, one step after the other.
LEMMA HeadStep ==
  ASSUME DoneInv, NEW p \in Procs, BeginCall(p) \/ Step(p)
  PROVE  HeadOK'
  <1> USE DEF DoneInv
  <1>0. IdInv /\ TypeInv
    BY DEF NameInv, IdInv
  <1> SUFFICES ASSUME NEW q \in Procs, pc'[q] \in {"Delete", "DeleteBlob"}, op'[q] \in Purgers
               PROVE  /\ First(pending'[q]) # {}
                      /\ \A r \in First(pending'[q]) : r \notin attachments' /\ r.blob = blob'[q]
    BY DEF HeadOK, First
  <1>1. CASE /\ pc[q] \in {"Delete", "DeleteBlob"} /\ op'[q] = op[q]
             /\ pending'[q] = pending[q] /\ blob'[q] = blob[q]
    <2>1. First(pending[q]) \subseteq Refs
      BY <1>0 DEF First, IdInv, ListedOK
    <2> QED BY <1>1, <2>1, RowStaysGone DEF HeadOK
  <1>2. CASE q # p
    BY <1>0, <1>1, <1>2, OthersKept, OthersKeepBlobs
  <1>3. CASE q = p
    <2> USE <1>0, <1>3 DEF TypeInv, TypeOK, PlaceTypeOK, LocalTypeOK, Goto, Return, locals
    <2>1. CASE BeginCall(p)
      <3>1. BeginBlobPurge(p)
        BY <2>1 DEF BeginCall, BeginCreate, BeginAttach, BeginRemove, BeginRowPurge,
                    BeginBlobUpload, Begin, FirstStep
      <3> QED BY <3>1 DEF BeginBlobPurge, Begin, Purgers
    <2>2. CASE DeleteRow(p)
      <3>1. ~ Fault(p) /\ ~ NotFound(p)
        BY DEF Fault, NotFound
      <3>2. PICK r \in Doomed(p) : DeleteAttachment(r.id) /\ AfterDelete(p, r)
        BY <2>2, <3>1 DEF DeleteRow
      <3>3. /\ blob'[p] = r.blob /\ pending'[p] = pending[p]
            /\ attachments' = attachments \ RowsWithID(r.id)
        BY <3>2 DEF AfterDelete, NextRow, FirstStep, DeleteAttachment
      <3>4. r \in First(pending[p]) /\ First(pending[p]) \subseteq Refs
        BY DEF Doomed, First, IdInv, ListedOK
      <3>5. pending[p] \in SUBSET Refs
        BY DEF IdInv, ListedOK
      <3>6. \A m \in First(pending[p]) : m = r
        BY <3>4, <3>5, FirstUnique
      <3>7. r \notin attachments'
        BY <3>3 DEF RowsWithID
      <3> QED BY <3>3, <3>4, <3>6, <3>7
    <2>3. CASE DeleteObject(p)
      BY <1>1, <2>3 DEF DeleteObject, Fault
    <2> QED BY <2>1, <2>2, <2>3
            DEF Step, BlobFor, CreateRow, UploadBytes, UploadDone, NotStored, ReadRows, InsertRow,
                LoadBlob, DeleteBlobRow, Fault, NotFound, NextRow, FirstStep, AfterBlobFor,
                AfterInsert
  <1> QED BY <1>2, <1>3

LEMMA EndStep ==
  ASSUME DoneInv, NEW p \in Procs, BeginCall(p) \/ Step(p)
  PROVE  EndOK'
  <1> USE DEF DoneInv
  <1>0. IdInv /\ TypeInv
    BY DEF NameInv, IdInv
  <1> SUFFICES ASSUME NEW q \in Procs
               PROVE  /\ pc'[q] # "idle" => result'[q] = "none"
                      /\ pc'[q] = "idle" /\ result'[q] = "ok" => pending'[q] = {}
    BY DEF EndOK
  <1>2. CASE q # p
    BY <1>0, <1>2, OthersKept, OthersKeepBlobs DEF EndOK
  <1>3. CASE q = p
    <2> USE <1>0, <1>3 DEF TypeInv, TypeOK, PlaceTypeOK, LocalTypeOK, Goto, Return, locals
    <2>1. CASE BeginCall(p)
      BY <2>1 DEF BeginCall, BeginCreate, BeginAttach, BeginRemove, BeginRowPurge, BeginBlobUpload,
                  BeginBlobPurge, Begin, FirstStep
    <2>2. CASE Step(p)
      <3>1. result[p] = "none"
        BY <2>2 DEF EndOK, Step, BlobFor, CreateRow, UploadBytes, ReadRows, InsertRow, LoadBlob,
                    DeleteRow, DeleteObject, DeleteBlobRow
      <3>2. CASE Fault(p) \/ NotFound(p)
        BY <3>1, <3>2 DEF Fault, NotFound
      <3>3. CASE UploadBytes(p)
        <4>1. op[p] \in Givers => pending[p] = {}
          BY DEF ListlessOK, IdInv, ListedOK, Givers
        <4>2. op[p] \in Givers \/ op[p] \in Attachers
          BY <3>3 DEF UploadBytes, ArgsOK
        <4> QED BY <3>1, <3>3, <4>1, <4>2 DEF UploadBytes, UploadDone, NotStored, AfterBlobFor
      <3>4. CASE InsertRow(p)
        BY <3>1, <3>2, <3>4 DEF InsertRow, AfterInsert
      <3>5. CASE ReadRows(p) \/ DeleteRow(p) \/ DeleteBlobRow(p)
        BY <3>1, <3>2, <3>5 DEF ReadRows, DeleteRow, DeleteBlobRow, AfterDelete, NextRow, FirstStep
      <3> QED BY <2>2, <3>1, <3>2, <3>3, <3>4, <3>5
              DEF Step, BlobFor, CreateRow, LoadBlob, DeleteObject, AfterBlobFor
    <2> QED BY <2>1, <2>2
  <1> QED BY <1>2, <1>3

LEMMA ListlessStep ==
  ASSUME DoneInv, NEW p \in Procs, BeginCall(p) \/ Step(p)
  PROVE  ListlessOK'
  <1> USE DEF DoneInv
  <1>0. IdInv /\ TypeInv
    BY DEF NameInv, IdInv
  <1> SUFFICES ASSUME NEW q \in Procs
               PROVE  /\ op'[q] \in {"create", "many.Attach", "blob.Upload", "blob.Purge"} => listed'[q] = {}
                      /\ op'[q] = "one.Attach" => args'[q] = <<>> \/ Tail(args'[q]) = <<>>
                      /\ pc'[q] \in {"blobFor", "InsertBlob", "Upload"} => listed'[q] = {}
    BY DEF ListlessOK
  <1>1. CASE q # p
    BY <1>0, <1>1, OthersKept, OthersKeepBlobs DEF ListlessOK
  <1>2. CASE q = p /\ BeginCall(p)
    <2> USE <1>2
    <2>1. CASE BeginCreate(p)
      BY <1>0, <2>1, BeginLocals, BeginNames DEF BeginCreate
    <2>2. CASE BeginAttach(p)
      <3>1. PICK o \in Attachers, s \in Slots : \E n \in BatchSizes(o) :
              \E items \in [1 .. n -> Values] : Begin(p, o, s, items, 0, {}, "blobFor")
        BY <2>2 DEF BeginAttach
      <3>2. PICK n \in BatchSizes(o) : \E items \in [1 .. n -> Values] :
              Begin(p, o, s, items, 0, {}, "blobFor")
        BY <3>1
      <3>3. PICK items \in [1 .. n -> Values] : Begin(p, o, s, items, 0, {}, "blobFor")
        BY <3>2
      <3>4. pc'[p] = "blobFor" /\ op'[p] = o /\ listed'[p] = {} /\ args'[p] = items
        BY <1>0, <3>3, BeginLocals, BeginNames
      <3>5. ASSUME o = "one.Attach" PROVE Tail(items) = <<>>
        <4>1. n = 1 /\ n \in Nat
          BY <3>2, <3>5 DEF BatchSizes
        <4>2. items \in Seq(Values)
          BY <3>3, <4>1, FunctionIsSeq
        <4>3. Len(items) = 1
          BY <3>3, <4>1
        <4>4. items # <<>>
          <5>1. Len(<<>>) = 0 /\ 0 # 1
            OBVIOUS
          <5> QED BY <4>3, <5>1, Zenon
        <4>5. Tail(items) \in Seq(Values) /\ Len(Tail(items)) = Len(items) - 1
          BY <4>2, <4>4, HeadTailProperties
        <4>6. Len(Tail(items)) = 0
          <5>1. 1 - 1 = 0
            OBVIOUS
          <5> QED BY <4>3, <4>5, <5>1, Zenon
        <4> QED BY <4>5, <4>6, EmptySeq
      <3> QED BY <3>4, <3>5
    <2>3. CASE BeginRemove(p)
      <3>1. PICK o \in (Detachers \union Purgers) \ {"att.Purge"}, s \in Slots :
              Begin(p, o, s, <<>>, 0, {}, "FindAttachments")
        BY <2>3 DEF BeginRemove
      <3> QED BY <1>0, <3>1, BeginLocals DEF Detachers, Purgers
    <2>4. CASE BeginRowPurge(p)
      <3>1. PICK r \in attachments \union dismissed \union replaced :
              Begin(p, "att.Purge", r.slot, <<>>, 0, {r}, FirstStep("att.Purge"))
        BY <2>4 DEF BeginRowPurge
      <3> QED BY <1>0, <3>1, BeginLocals DEF FirstStep
    <2>5. CASE BeginBlobPurge(p)
      <3>1. PICK b \in Held : Begin(p, "blob.Purge", slot[p], <<>>, b, {}, "Delete")
        BY <2>5 DEF BeginBlobPurge
      <3> QED BY <1>0, <3>1, BeginLocals
    <2>6. CASE BeginBlobUpload(p)
      <3>1. PICK b \in Held : Begin(p, "blob.Upload", slot[p], <<>>, b, {}, "Upload")
        BY <2>6 DEF BeginBlobUpload
      <3> QED BY <1>0, <3>1, BeginLocals
    <2> QED BY <2>1, <2>2, <2>3, <2>4, <2>5, <2>6 DEF BeginCall
  <1>3. CASE q = p /\ Step(p)
    <2> USE <1>0, <1>3 DEF TypeInv, TypeOK, PlaceTypeOK, LocalTypeOK, Goto, Return, locals
    <2>1. /\ op'[p] = op[p]
          /\ args'[p] = args[p] \/ (args[p] # <<>> /\ args'[p] = Tail(args[p]))
      BY StepArgs DEF Step, BlobFor, CreateRow, UploadBytes, UploadDone, ReadRows, InsertRow, LoadBlob,
         DeleteRow, DeleteObject, DeleteBlobRow, Fault, NotFound
    <2>2. CASE Fault(p) \/ NotFound(p)
      BY <2>1, <2>2 DEF ListlessOK, Fault, NotFound
    <2>3. CASE ReadRows(p)
      BY <2>1, <2>2, <2>3 DEF ListlessOK, ReadRows, NextRow, FirstStep, ArgsOK
    <2>4. CASE InsertRow(p)
      <3>1. pc'[p] = "blobFor" /\ ~ Fault(p) => args'[p] = Tail(args[p]) /\ args'[p] # <<>>
        BY <2>4 DEF InsertRow, AfterInsert
      <3>2. op[p] \in Attachers /\ args[p] # <<>>
        BY <2>4 DEF InsertRow, ArgsOK
      <3> QED BY <2>1, <2>2, <2>4, <3>1, <3>2 DEF ListlessOK, InsertRow, AfterInsert, Attachers
    <2>5. CASE BlobFor(p) \/ CreateRow(p) \/ UploadBytes(p)
      BY <2>1, <2>2, <2>5 DEF ListlessOK, BlobFor, CreateRow, UploadBytes, UploadDone, AfterBlobFor
    <2> QED BY <2>1, <2>2, <2>3, <2>4, <2>5
            DEF ListlessOK, Step, LoadBlob, DeleteRow, DeleteObject, DeleteBlobRow, AfterDelete,
                NextRow, FirstStep
  <1> QED BY <1>1, <1>2, <1>3

LEMMA CacheStep ==
  ASSUME DoneInv, NEW p \in Procs, BeginCall(p) \/ Step(p)
  PROVE  CacheOK'
  <1> USE DEF DoneInv
  <1>0. IdInv /\ TypeInv
    BY DEF NameInv, IdInv
  <1> SUFFICES ASSUME CachesBlob, NEW q \in Procs PROVE pc'[q] # "Blob"
    BY DEF CacheOK
  <1>1. CASE q # p
    BY <1>0, <1>1, OthersKept DEF CacheOK
  <1>2. CASE q = p
    BY <1>0, <1>2 DEF TypeInv, TypeOK, PlaceTypeOK, Goto, Return, CacheOK, BeginCall, BeginCreate,
       BeginAttach, BeginRemove, BeginRowPurge, BeginBlobUpload, BeginBlobPurge, Begin, FirstStep, Step, BlobFor,
       CreateRow, UploadBytes, UploadDone, ReadRows, InsertRow, LoadBlob, DeleteRow, DeleteObject, DeleteBlobRow,
       Fault, NotFound, NextRow, AfterDelete, AfterInsert, AfterBlobFor
  <1> QED BY <1>1, <1>2

LEMMA TakenStep ==
  ASSUME DoneInv, NEW p \in Procs, BeginCall(p) \/ Step(p)
  PROVE  TakenOK'
  <1> USE DEF DoneInv
  <1>0. IdInv /\ TypeInv
    BY DEF NameInv, IdInv
  <1> SUFFICES ASSUME NEW q \in Procs, pc'[q] = "idle", result'[q] = "ok", op'[q] = "blob.Purge",
                      NEW b, b = blob'[q]
               PROVE  b \notin blobs' /\ (b \in objects' => b \in revived')
    BY DEF TakenOK, GoneForGood
  <1>1. CASE q # p
    <2>1. GoneForGood(b) /\ b \in Nameable
      BY <1>0, <1>1, OthersKept, OthersKeepBlobs DEF TakenOK, NameInv, NamedOK, BlobNamed
    <2> QED BY <2>1, BlobStaysGone
  <1>2. CASE q = p
    <2>1. Step(p)
      BY <1>2, BeginNamed
    <2> USE <1>0, <1>2 DEF TypeInv, TypeOK, PlaceTypeOK, LocalTypeOK, Goto, Return, locals
    <2>2. ~ Fault(p) /\ ~ NotFound(p) /\ ~ Return(p, "err")
      BY DEF Fault, NotFound
    <2>3. op[p] = "blob.Purge"
      BY <2>1, <2>2 DEF Step, BlobFor, CreateRow, UploadBytes, UploadDone, ReadRows, InsertRow,
         LoadBlob, DeleteRow, DeleteObject, DeleteBlobRow
    <2>4. First(pending[p]) = {}
      BY <2>3 DEF ListlessOK, IdInv, ListedOK, First
    <2>5. DeleteBlobRow(p)
      BY <2>1, <2>2, <2>3, <2>4
         DEF ArgsOK, Attachers, Detachers, Purgers, Givers, Step, BlobFor, CreateRow, UploadBytes,
             ReadRows, InsertRow, LoadBlob, DeleteRow, Doomed, DeleteObject
    <2>6. pc[p] = "DeleteBlob" /\ b = blob[p] /\ blobs' = blobs \ {b} /\ UNCHANGED <<objects, revived>>
      BY <2>2, <2>5 DEF DeleteBlobRow, DeleteBlob, histories
    <2> QED BY <2>6 DEF NameInv, GoneOK
  <1> QED BY <1>1, <1>2

LEMMA DoneNext == DoneInv /\ [Next]_vars => DoneInv'
  <1>1. ASSUME DoneInv, UNCHANGED vars PROVE DoneInv'
    <2>1. NameInv'
      BY <1>1, NameStutter DEF DoneInv
    <2> QED BY <1>1, <2>1 DEF DoneInv, DoneOK, Gone, GoneForGood, HeadOK, First, EndOK, ListlessOK,
                              CacheOK, TakenOK, vars, storeVars, locals, histories
  <1>2. ASSUME DoneInv, NEW p \in Procs, BeginCall(p) \/ Step(p) PROVE DoneInv'
    <2>1. NameInv'
      BY <1>2, NameStep DEF DoneInv
    <2> QED BY <1>2, <2>1, DoneStep, HeadStep, EndStep, ListlessStep, CacheStep, TakenStep DEF DoneInv
  <1> QED BY <1>1, <1>2 DEF Next

LEMMA DoneInvariant == Spec => []DoneInv
  BY DoneInit, DoneNext, PTL DEF Spec

\* A Detach or Purge that returned nil has removed every row it read, a Purge also their
\* blobs and bytes, and none of them is ever back unless an upload stores the bytes
\* again, whoever else creates, attaches, uploads or purges meanwhile (attachment.go:169,
\* 181, 255, 269, blob.go:408).
THEOREM NilMeansDone == Spec => []OkMeansDone
  <1>1. DoneInv => OkMeansDone
    BY DEF DoneInv, EndOK, DoneOK, Gone, TakenOK, OkMeansDone
  <1> QED BY <1>1, DoneInvariant, PTL

\* How a call comes to return an error without a fault: a row it listed is not there.
LEMMA ErrStep ==
  ASSUME DoneInv, NEW p \in Procs, Step(p), CachesBlob, faults' = faults,
         result'[p] = "err", listed'[p] # {}
  PROVE  \E r \in listed'[p] : r \notin attachments'
  <1> USE DEF DoneInv
  <1>0. IdInv /\ TypeInv /\ faults \in Nat
    BY DEF NameInv, IdInv, TypeInv, TypeOK, CountTypeOK
  <1> USE <1>0 DEF TypeInv, TypeOK, PlaceTypeOK, LocalTypeOK, Goto, Return, locals, histories, storeVars
  <1>1. result[p] = "none" /\ ~ CountFault /\ ~ Fault(p)
    BY DEF EndOK, Step, BlobFor, CreateRow, UploadBytes, ReadRows, InsertRow, LoadBlob, DeleteRow,
           DeleteObject, DeleteBlobRow, CountFault, Fault
  <1>2. CASE NotFound(p)
    <2>1. listed'[p] = listed[p] /\ attachments' = attachments /\ pending[p] \subseteq listed[p]
      BY <1>2 DEF NotFound, IdInv, ListedOK
    <2>2. CASE BlobFor(p)
      BY <2>1, <2>2 DEF BlobFor, ListlessOK
    <2>3. CASE LoadBlob(p)
      BY <2>3 DEF LoadBlob, CacheOK
    <2>4. CASE DeleteRow(p)
      <3>0. PICK r \in Doomed(p) : DeleteAttachment(r.id) \/ RowsWithID(r.id) = {}
        BY <1>1, <2>4 DEF DeleteRow
      <3>1. RowsWithID(r.id) = {}
        BY <2>1, <3>0 DEF DeleteAttachment, RowsWithID
      <3>2. r \in pending[p] /\ r \notin attachments
        BY <3>1 DEF Doomed, First, RowsWithID
      <3> QED BY <2>1, <3>2
    <2>5. CASE DeleteBlobRow(p)
      <3>1. op[p] \in Purgers
        <4>1. op[p] = "blob.Purge" => listed[p] = {}
          BY DEF ListlessOK
        <4> QED BY <2>1, <2>5, <4>1 DEF DeleteBlobRow, ArgsOK
      <3>2. PICK r \in First(pending[p]) : r \notin attachments
        BY <2>5, <3>1 DEF DeleteBlobRow, HeadOK
      <3> QED BY <2>1, <3>2 DEF First
    <2>6. pc'[p] = "idle" /\ result'[p] = "err"
      BY <1>2 DEF NotFound
    <2>7. ~ CreateRow(p) /\ ~ DeleteObject(p)
      BY <1>1, <2>6 DEF CreateRow, DeleteObject
    <2>8. ~ UploadBytes(p)
      BY <1>1, <2>6 DEF UploadBytes, UploadDone, NotStored, CountFault
    <2>9. ~ ReadRows(p)
      BY <1>1, <2>6 DEF ReadRows, NextRow
    <2>10. ~ InsertRow(p)
      BY <1>1, <2>6 DEF InsertRow, AfterInsert
    <2> QED BY <2>2, <2>3, <2>4, <2>5, <2>7, <2>8, <2>9, <2>10 DEF Step
  <1>3. CASE ~ NotFound(p)
    BY <1>1, <1>3 DEF Step, BlobFor, CreateRow, UploadBytes, UploadDone, NotStored, ReadRows, InsertRow,
       LoadBlob, DeleteRow, DeleteObject, DeleteBlobRow, NextRow, AfterInsert, AfterDelete
  <1> QED BY <1>2, <1>3

\* A call that failed though no seam did has found a row gone that it listed, or taken
\* one away: calling it again starts from fewer rows.
THEOREM RetryGetsFurther == Spec => []RetryProgress
  <1> DEFINE Inv == DoneInv /\ RetryProgress
  <1>1. Init => Inv
    BY DoneInit DEF Init, RetryProgress
  <1>2. Inv /\ [Next]_vars => Inv'
    <2> SUFFICES ASSUME Inv, [Next]_vars PROVE RetryProgress'
      BY DoneNext
    <2>1. ASSUME NEW p \in Procs, BeginCall(p) \/ Step(p) PROVE RetryProgress'
      <3>1. NameInv /\ IdInv /\ TypeInv
        BY DEF DoneInv, NameInv, IdInv
      <3>2. SUFFICES ASSUME CachesBlob, faults' = 0, NEW q \in Procs,
                            result'[q] = "err", listed'[q] # {}
                     PROVE  \E r \in listed'[q] : r \notin attachments'
        BY DEF RetryProgress
      <3>3. faults = 0
        <4>1. faults \in Nat /\ (faults' = faults \/ faults' = faults + 1)
          BY <2>1, <3>1, FaultsGrow DEF TypeInv, TypeOK, CountTypeOK
        <4> QED BY <3>2, <4>1
      <3>4. CASE q # p
        <4>1. result[q] = "err" /\ listed'[q] = listed[q]
          BY <2>1, <3>1, <3>2, <3>4, OthersKept, OthersKeepBlobs
        <4>2. PICK r \in listed[q] : r \notin attachments
          BY <3>2, <3>3, <4>1 DEF RetryProgress
        <4>3. r \in Refs
          BY <3>1 DEF IdInv, ListedOK
        <4> QED BY <2>1, <3>1, <4>1, <4>2, <4>3, RowStaysGone
      <3>5. CASE q = p
        <4>1. ~ BeginCall(p)
          BY <3>1, <3>2, <3>5, BeginNamed
        <4> QED BY <2>1, <3>2, <3>3, <3>5, <4>1, ErrStep
      <3> QED BY <3>4, <3>5
    <2>2. CASE UNCHANGED vars
      BY <2>2 DEF RetryProgress, vars, storeVars, locals
    <2> QED BY <2>1, <2>2 DEF Next
  <1> QED BY <1>1, <1>2, PTL DEF Spec

-----------------------------------------------------------------------------
(* OneAttached as a register.                                               *)
(*                                                                         *)
(* has_one_attached keeps its promise when one caller at a time uses it,    *)
(* with no failing seam, and when concurrent callers only attach: Current   *)
(* implements the register of HasOne.  Moves says what a step of one        *)
(* goroutine does to its place in a call, to the rows of the call and to    *)
(* the table.  A lone caller then has at most two rows in an association,   *)
(* between the insert and the delete of OneAttached.Attach; callers that    *)
(* only attach remove a row only after a newer one of its association,      *)
(* which nobody dismisses.                                                  *)

(* One step of a call.                                                      *)

\* Calls of OneAttached take one attachable and handle one row, of their own
\* association.
OneAt(p) ==
    /\ op[p] \in OneCalls
    /\ pc[p] = "DeleteAttachment" => op[p] # "create"
    /\ pc[p] = "FindAttachments" => op[p] # "att.Purge"
    /\ args[p] # <<>> => Tail(args[p]) = <<>>
    /\ \A r, q \in pending[p] : r = q
    /\ \A r \in pending[p] : r.slot = slot[p]

OneInv == LostInv /\ \A p \in Procs : OneAt(p)

\* The call of p is about to remove the row it replaced.
Replacing(p) == pc[p] = "DeleteAttachment" /\ op[p] = "one.Attach"

\* The call of p is about to remove a row for good.
Taking(p) == pc[p] = "DeleteAttachment" /\ op[p] \in Detachers \union Purgers

SameCall(p) == op'[p] = op[p] /\ slot'[p] = slot[p]

Starts(p) ==
    /\ pc[p] = "idle" /\ pc'[p] \notin {"idle", "InsertAttachment"} /\ RowsKept
    /\ pc'[p] = "DeleteAttachment" => op'[p] = "att.Purge"
    /\ pc'[p] = "FindAttachments" => op'[p] # "att.Purge"
    /\ args'[p] # <<>> => Tail(args'[p]) = <<>>
    /\ \A r, q \in pending'[p] : r = q
    /\ \A r \in pending'[p] : r.slot = slot'[p]

Reads(p) ==
    /\ pc[p] = "FindAttachments" /\ RowsKept /\ SameCall(p) /\ args'[p] = args[p]
    /\ pending'[p] = Newest(FindAttachments(slot[p]))
    /\ pc'[p] = "InsertAttachment" => op[p] = "one.Attach"
    /\ pc'[p] = "DeleteAttachment" => Taking(p)'
    /\ pc'[p] # "FindAttachments"

Fails(p) ==
    /\ pc[p] # "idle" /\ pc'[p] = "idle" /\ RowsKept /\ SameCall(p) /\ args'[p] = args[p] /\ pending'[p] = pending[p]
    /\ pc[p] = "DeleteAttachment" =>
         faults' # faults \/ \E r \in pending[p] : RowsWithID(r.id) = {}

Inserts(p) ==
    /\ RowInserted(p) /\ op[p] = "one.Attach" /\ SameCall(p) /\ args'[p] = <<>>
    /\ pending'[p] = pending[p]
    /\ pc'[p] = IF pending[p] = {} THEN "idle" ELSE "DeleteAttachment"

Removes(p) ==
    /\ RowRemoved(p) /\ SameCall(p) /\ args'[p] = args[p] /\ pending'[p] \subseteq pending[p]
    /\ pc'[p] = IF op[p] \in Purgers THEN "Delete" ELSE "idle"

Walks(p) ==
    /\ pc[p] \notin {"idle", "FindAttachments", "InsertAttachment", "DeleteAttachment"}
    /\ RowsKept /\ SameCall(p) /\ args'[p] = args[p] /\ pending'[p] \subseteq pending[p]
    /\ pc'[p] # "InsertAttachment"
    /\ pc'[p] = "FindAttachments" => op[p] = "one.Attach"
    /\ pc'[p] = "DeleteAttachment" => Taking(p)'

Moves(p) == Starts(p) \/ Reads(p) \/ Fails(p) \/ Inserts(p) \/ Removes(p) \/ Walks(p)

\* A call starts with nothing, with one attachable, or with one row.
LEMMA BeginMoves ==
  ASSUME OneInv, NEW p \in Procs, NEW o, NEW s, NEW items, NEW b, NEW rows, NEW l,
         Begin(p, o, s, items, b, rows, l), l \notin {"idle", "InsertAttachment"},
         l = "DeleteAttachment" => o = "att.Purge", l = "FindAttachments" => o # "att.Purge",
         items # <<>> => Tail(items) = <<>>,
         \A r, q \in rows : r = q, \A r \in rows : r.slot = s
  PROVE  Starts(p)
  <1> USE DEF OneInv, LostInv, IdInv, TypeInv, TypeOK, PlaceTypeOK, LocalTypeOK
  <1>1. /\ pc'[p] = l /\ op'[p] = o /\ slot'[p] = s /\ args'[p] = items /\ pending'[p] = rows
        /\ pc[p] = "idle"
    BY DEF Begin
  <1>2. RowsKept
    BY DEF Begin, RowsKept, storeVars
  <1> QED BY <1>1, <1>2 DEF Starts

\* After the only attachable there is none.
LEMMA TailOfOne ==
  ASSUME NEW S, NEW f \in [1 .. 1 -> S]
  PROVE  Tail(f) = <<>>
  <1>1. f \in Seq(S) /\ DOMAIN f = 1 .. 1
    BY FunctionIsSeq
  <1>2. PICK n \in Nat : n = Len(f) /\ 1 .. n = 1 .. 1
    BY <1>1, LenProperties, Zenon
  <1>3. n = 1
    <2>1. 1 \in 1 .. n
      BY <1>2
    <2>2. n \in 1 .. n
      BY <2>1
    <2>3. n \in 1 .. 1
      BY <1>2, <2>2, Zenon
    <2> QED BY <2>3
  <1>4. f # <<>>
    BY <1>1, <1>2, <1>3, EmptySeq
  <1>5. Tail(f) \in Seq(S) /\ Len(Tail(f)) = n - 1
    BY <1>1, <1>2, <1>4, HeadTailProperties, Zenon
  <1> DEFINE t == Tail(f)
  <1>6. t \in Seq(S) /\ Len(t) = n - 1
    BY <1>5
  <1> HIDE DEF t
  <1>7. Len(t) = 0
    BY <1>3, <1>6
  <1>8. t # <<>> => Len(t) \in Nat \ {0}
    BY <1>6, EmptySeq, Zenon
  <1>9. t = <<>>
    BY <1>7, <1>8
  <1> QED BY <1>9 DEF t

LEMMA CallMoves ==
  ASSUME OneInv, NEW p \in Procs, BeginCall(p), op'[p] \in OneCalls
  PROVE  Starts(p)
  <1>1. CASE BeginCreate(p)
    BY <1>1, BeginMoves DEF BeginCreate
  <1>2. CASE BeginAttach(p)
    <2>1. PICK o \in Attachers, s \in Slots : \E n \in BatchSizes(o) :
            \E items \in [1 .. n -> Values] : Begin(p, o, s, items, 0, {}, "blobFor")
      BY <1>2 DEF BeginAttach
    <2>2. PICK n \in BatchSizes(o) : \E items \in [1 .. n -> Values] :
            Begin(p, o, s, items, 0, {}, "blobFor")
      BY <2>1
    <2>3. PICK items \in [1 .. n -> Values] : Begin(p, o, s, items, 0, {}, "blobFor")
      BY <2>2
    <2>4. op'[p] = o
      BY <2>3, BeginLocals DEF OneInv, LostInv, IdInv
    <2>5. n = 1
      BY <2>4 DEF Attachers, OneCalls, BatchSizes
    <2>6. Tail(items) = <<>>
      BY <2>5, TailOfOne
    <2> QED BY <2>3, <2>6, BeginMoves
  <1>3. CASE BeginRemove(p)
    <2>1. PICK o \in (Detachers \union Purgers) \ {"att.Purge"}, s \in Slots :
            Begin(p, o, s, <<>>, 0, {}, "FindAttachments")
      BY <1>3 DEF BeginRemove
    <2> QED BY <2>1, BeginMoves
  <1>4. CASE BeginRowPurge(p)
    <2>1. PICK r \in attachments \union dismissed \union replaced :
            Begin(p, "att.Purge", r.slot, <<>>, 0, {r}, FirstStep("att.Purge"))
      BY <1>4 DEF BeginRowPurge
    <2>2. FirstStep("att.Purge") \in {"Blob", "DeleteAttachment"}
      BY DEF FirstStep
    <2> QED BY <2>1, <2>2, BeginMoves
  <1>5. CASE BeginBlobPurge(p)
    <2>1. PICK b \in Held : Begin(p, "blob.Purge", slot[p], <<>>, b, {}, "Delete")
      BY <1>5 DEF BeginBlobPurge
    <2> QED BY <2>1, BeginMoves
  <1>6. CASE BeginBlobUpload(p)
    <2>1. PICK b \in Held : Begin(p, "blob.Upload", slot[p], <<>>, b, {}, "Upload")
      BY <1>6 DEF BeginBlobUpload
    <2>2. op'[p] = "blob.Upload"
      BY <2>1, BeginLocals DEF OneInv, LostInv, IdInv
    <2> QED BY <2>2 DEF OneCalls
  <1> QED BY <1>1, <1>2, <1>3, <1>4, <1>5, <1>6 DEF BeginCall

LEMMA StepMoves ==
  ASSUME OneInv, NEW p \in Procs, Step(p)
  PROVE  Moves(p)
  <1> USE DEF OneInv, LostInv, IdInv, TypeInv, TypeOK, PlaceTypeOK, LocalTypeOK, Goto, Return
  <1>0. /\ OneAt(p)
        /\ pc[p] \in {"blobFor", "InsertAttachment"} => op[p] = "one.Attach" /\ args[p] # <<>>
        /\ pc[p] \in {"InsertBlob", "Upload"} => op[p] \in {"create", "one.Attach"}
        /\ pc[p] = "FindAttachments" => op[p] \in {"one.Attach", "one.Detach", "one.Purge"}
        /\ pc[p] \in {"Blob", "Delete", "DeleteBlob"} => op[p] \in Purgers
    BY DEF OneAt, ArgsOK, Attachers, Givers, Purgers, OneCalls
  <1>01. pc[p] # "idle"
    BY DEF Step, BlobFor, CreateRow, UploadBytes, ReadRows, InsertRow, LoadBlob, DeleteRow, DeleteObject,
           DeleteBlobRow
  <1>1. ASSUME Fault(p) PROVE Fails(p)
    <2>1. faults' # faults
      BY <1>1, BoundsAssumption DEF Fault, CountFault, CountTypeOK
    <2> QED BY <1>01, <1>1, <2>1 DEF Fault, Fails, RowsKept, SameCall, storeVars, locals, histories
  <1>2. ASSUME NotFound(p), pc[p] = "DeleteAttachment" => \E r \in pending[p] : RowsWithID(r.id) = {}
        PROVE  Fails(p)
    BY <1>01, <1>2 DEF NotFound, Fails, RowsKept, SameCall, storeVars, locals, histories
  <1>3. CASE BlobFor(p)
    <2>1. CASE Fault(p) \/ NotFound(p)
      BY <1>1, <1>2, <1>3, <2>1 DEF BlobFor, Moves
    <2> QED BY <1>0, <1>3, <2>1 DEF BlobFor, AfterBlobFor, Walks, Moves, RowsKept, SameCall,
                                    storeVars, locals, histories
  <1>4. CASE CreateRow(p)
    <2>1. CASE Fault(p)
      BY <1>1, <2>1 DEF Moves
    <2> QED BY <1>4, <2>1 DEF CreateRow, InsertBlob, Walks, Moves, RowsKept, SameCall,
                              storeVars, locals, histories
  <1>5. CASE UploadBytes(p)
    <2>1. CASE UploadDone(p)
      <3>1. /\ pc[p] = "Upload" /\ RowsKept /\ SameCall(p) /\ UNCHANGED <<args, pending>>
            /\ pc'[p] = IF op[p] \in Attachers THEN AfterBlobFor(op[p]) ELSE "idle"
        BY <1>5, <2>1 DEF UploadBytes, UploadDone, RowsKept, SameCall, storeVars, locals
      <3>2. pc'[p] \in {"idle", "FindAttachments"} /\ (pc'[p] = "FindAttachments" => op[p] = "one.Attach")
        BY <1>0, <3>1 DEF Attachers, AfterBlobFor
      <3> QED BY <3>1, <3>2 DEF Walks, Moves
    <2>2. CASE Return(p, "err") /\ UNCHANGED <<storeVars, locals, dismissed, replaced>>
      <3>1. /\ pc[p] = "Upload" /\ pc'[p] = "idle" /\ RowsKept /\ SameCall(p)
            /\ UNCHANGED <<args, pending>>
        BY <1>5, <2>2 DEF UploadBytes, RowsKept, SameCall, storeVars, locals
      <3> QED BY <3>1 DEF Walks, Moves
    <2> QED BY <1>5, <2>1, <2>2 DEF UploadBytes
  <1>6. CASE ReadRows(p)
    <2>1. SUFFICES ASSUME ~ Fault(p) PROVE Moves(p)
      BY <1>1 DEF Moves
    <2>2. Lookup(p) = Newest(FindAttachments(slot[p]))
      BY <1>0, <1>6 DEF ReadRows, Lookup
    <2>3. pc[p] = "FindAttachments" /\ RowsKept /\ SameCall(p) /\ args'[p] = args[p]
      BY <1>6, <2>1 DEF ReadRows, RowsKept, SameCall, storeVars, histories
    <2>4. pending'[p] = Newest(FindAttachments(slot[p]))
      BY <1>6, <2>1, <2>2 DEF ReadRows
    <2>5. pc'[p] = IF op[p] = "one.Attach" THEN "InsertAttachment"
                   ELSE IF pending'[p] = {} THEN "idle" ELSE FirstStep(op[p])
      BY <1>6, <2>1 DEF ReadRows, NextRow
    <2>6. FirstStep(op[p]) \in {"Blob", "DeleteAttachment"}
      BY DEF FirstStep
    <2>7. op[p] = "one.Attach" \/ op[p] \in Detachers \union Purgers
      BY <1>0, <2>3 DEF Detachers, Purgers
    <2> QED BY <2>3, <2>4, <2>5, <2>6, <2>7 DEF Reads, Moves, Taking, SameCall
  <1>7. CASE InsertRow(p)
    <2>1. SUFFICES ASSUME ~ Fault(p) PROVE Moves(p)
      BY <1>1 DEF Moves
    <2>2. {r \in attachments : r.id # nextAttID + 1} = attachments
      BY DEF RefsBelow, Refs, StoreTypeOK
    <2>3. RowInserted(p)
      BY <1>7, <2>1, <2>2 DEF InsertRow, InsertAttachment, RowInserted, NewRow, histories
    <2>4. args'[p] = <<>>
      BY <1>0, <1>7, <2>1 DEF InsertRow, OneAt
    <2> QED BY <1>0, <1>7, <2>1, <2>3, <2>4 DEF InsertRow, AfterInsert, Inserts, Moves, SameCall
  <1>8. CASE LoadBlob(p)
    <2>1. CASE Fault(p) \/ NotFound(p)
      BY <1>1, <1>2, <1>8, <2>1 DEF LoadBlob, Moves
    <2> QED BY <1>0, <1>8, <2>1 DEF LoadBlob, Walks, Moves, Taking, RowsKept, SameCall,
                                    storeVars, locals, histories
  <1>9. CASE DeleteRow(p)
    <2>1. CASE Fault(p)
      BY <1>1, <2>1 DEF Moves
    <2>2. ASSUME NEW r \in Doomed(p), RowsWithID(r.id) = {}, NotFound(p)
          PROVE  Moves(p)
      BY <1>2, <2>2 DEF Doomed, First, Moves
    <2>3. ASSUME NEW r \in Doomed(p), DeleteAttachment(r.id), AfterDelete(p, r),
                 UNCHANGED <<objects, known, op, slot, args, listed, calls, faults,
                               released, failed, revived>>
          PROVE  Moves(p)
      <3>1. pc[p] = "DeleteAttachment" /\ attachments' # attachments
        BY <1>9, <2>3 DEF DeleteRow, DeleteAttachment, RowsWithID
      <3>2. RowRemoved(p)
        BY <1>9, <3>1, RowEffect DEF RowsKept, RowInserted, Step
      <3>3. pending[p] = {r}
        BY <1>0, <2>3 DEF OneAt, Doomed, First
      <3>4. /\ pending'[p] \subseteq pending[p]
            /\ pc'[p] = IF op[p] \in Purgers THEN "Delete" ELSE "idle"
        BY <2>3, <3>3 DEF AfterDelete, NextRow
      <3> QED BY <2>3, <3>2, <3>4 DEF Removes, Moves, SameCall
    <2> QED BY <1>9, <2>1, <2>2, <2>3 DEF DeleteRow
  <1>10. CASE DeleteObject(p)
    <2>1. CASE Fault(p)
      BY <1>1, <2>1 DEF Moves
    <2> QED BY <1>10, <2>1 DEF DeleteObject, Walks, Moves, RowsKept, SameCall,
                              storeVars, locals, histories
  <1>11. CASE DeleteBlobRow(p)
    <2>1. SUFFICES ASSUME ~ Fault(p), ~ NotFound(p) PROVE Moves(p)
      BY <1>1, <1>2, <1>11 DEF DeleteBlobRow, Moves
    <2>2. pending[p] \ First(pending[p]) = {}
      <3>1. ASSUME NEW r \in pending[p] PROVE r \in First(pending[p])
        <4>1. r.id \in Nat /\ \A q \in pending[p] : q = r
          BY <1>0, <3>1 DEF OneAt, Row
        <4> QED BY <3>1, <4>1 DEF First
      <3> QED BY <3>1
    <2>3. pc'[p] = "idle" /\ pending'[p] = {}
      BY <1>11, <2>1, <2>2 DEF DeleteBlobRow, NextRow
    <2>4. RowsKept /\ SameCall(p) /\ args'[p] = args[p] /\ pc[p] = "DeleteBlob"
      BY <1>11, <2>1 DEF DeleteBlobRow, DeleteBlob, RowsKept, SameCall, histories
    <2> QED BY <2>3, <2>4 DEF Walks, Moves
  <1> QED BY <1>3, <1>4, <1>5, <1>6, <1>7, <1>8, <1>9, <1>10, <1>11 DEF Step

\* A call is one of those its callers use.
LEMMA CallsUsed ==
  ASSUME TypeInv, NEW p \in Procs, BeginCall(p)
  PROVE  op'[p] \in Calls
  <1> USE DEF Begin, TypeInv, TypeOK, PlaceTypeOK
  <1>1. CASE BeginCreate(p) \/ BeginRowPurge(p) \/ BeginBlobPurge(p)
    BY <1>1 DEF BeginCreate, BeginRowPurge, BeginBlobPurge
  <1>2. CASE BeginAttach(p) \/ BeginRemove(p) \/ BeginBlobUpload(p)
    BY <1>2 DEF BeginAttach, BeginRemove, BeginBlobUpload
  <1> QED BY <1>1, <1>2 DEF BeginCall

LEMMA OneStep ==
  ASSUME Calls \subseteq OneCalls, OneInv, NEW p \in Procs, BeginCall(p) \/ Step(p)
  PROVE  Moves(p) /\ OneInv'
  <1> USE DEF OneInv
  <1>0. IdInv /\ TypeInv /\ LostInv' /\ IdInv'
    <2>1. LostInv'
      BY LostNext DEF Next
    <2> QED BY <2>1 DEF LostInv, IdInv
  <1>1. Moves(p) /\ op'[p] \in OneCalls
    <2>1. CASE BeginCall(p)
      BY <1>0, <2>1, CallsUsed, CallMoves DEF Moves
    <2>2. CASE Step(p)
      <3>1. Moves(p)
        BY <2>2, StepMoves
      <3>2. SameCall(p)
        BY <2>2, <3>1 DEF Moves, Starts, Reads, Fails, Inserts, Removes, Walks, Step, BlobFor,
              CreateRow, UploadBytes, ReadRows, InsertRow, LoadBlob, DeleteRow, DeleteObject, DeleteBlobRow
      <3> QED BY <3>1, <3>2 DEF SameCall, OneAt
    <2> QED BY <2>1, <2>2
  <1>2. ASSUME NEW q \in Procs, q # p PROVE OneAt(q)'
    BY <1>0, <1>2, OthersKept, OthersKeepBlobs DEF OneAt
  <1>3. OneAt(p)'
    <2>1. CASE Starts(p)
      BY <1>1, <2>1 DEF Starts, OneAt
    <2>2. CASE Reads(p)
      <3>1. \A r \in pending'[p] : r \in attachments /\ r.slot = slot[p] /\ \A q \in pending'[p] : q.id <= r.id
        BY <2>2 DEF Reads, Newest, FindAttachments
      <3>2. \A r, q \in pending'[p] : r.id \in Int /\ q.id \in Int /\ (r.id = q.id => r = q)
        BY <1>0, <3>1 DEF IdInv, UniqueIds, RefsBelow, Refs
      <3>3. \A r, q \in pending'[p] : r = q
        BY <3>1, <3>2
      <3> QED BY <1>1, <2>2, <3>1, <3>3 DEF Reads, OneAt, SameCall, Taking, Detachers, Purgers
    <2>3. CASE Fails(p)
      BY <1>1, <2>3 DEF Fails, OneAt, SameCall
    <2>4. CASE Inserts(p)
      BY <1>1, <2>4 DEF Inserts, OneAt, SameCall
    <2>5. CASE Removes(p)
      BY <1>1, <2>5 DEF Removes, OneAt, SameCall
    <2>6. CASE Walks(p)
      BY <1>1, <2>6 DEF Walks, OneAt, SameCall, Taking, Detachers, Purgers
    <2> QED BY <1>1, <2>1, <2>2, <2>3, <2>4, <2>5, <2>6 DEF Moves
  <1> QED BY <1>0, <1>1, <1>2, <1>3

-----------------------------------------------------------------------------
(* Rows and registers.                                                      *)

\* The register read off a set of rows.
RegOf(S) ==
    IF S = {} THEN [id |-> 0, blob |-> 0]
    ELSE LET r == CHOOSE r \in Newest(S) : TRUE
         IN [id |-> r.id, blob |-> r.blob]

LEMMA CurrentIs ==
  ASSUME NEW s
  PROVE  Current(s) = RegOf(FindAttachments(s)) /\ Current(s)' = RegOf(FindAttachments(s)')
  BY DEF Current, RegOf

\* A row newer than all others is what the register holds.
LEMMA NewestHeld ==
  ASSUME NEW S, \A q \in S : q.id \in Nat, NEW m \in S, \A q \in S \ {m} : q.id < m.id
  PROVE  RegOf(S) = [id |-> m.id, blob |-> m.blob]
  <1>1. Newest(S) = {m}
    BY DEF Newest
  <1> QED BY <1>1 DEF RegOf

\* The register does not change when a row goes that has a newer one.
LEMMA OlderGone ==
  ASSUME NEW S, \A q \in S : q.id \in Nat, NEW r \in S, NEW w \in S, w.id > r.id
  PROVE  RegOf(S \ {r}) = RegOf(S)
  <1>1. w \in S \ {r}
    OBVIOUS
  <1>2. Newest(S \ {r}) = Newest(S)
    <2>1. ASSUME NEW x \in Newest(S) PROVE x \in Newest(S \ {r})
      BY <2>1 DEF Newest
    <2>2. ASSUME NEW x \in Newest(S \ {r}) PROVE x \in Newest(S)
      BY <1>1, <2>2 DEF Newest
    <2> QED BY <2>1, <2>2
  <1> QED BY <1>1, <1>2 DEF RegOf

\* What a step does to the rows of an association.
LEMMA SlotRows ==
  ASSUME NEW p \in Procs, NEW s
  PROVE  /\ RowsKept => FindAttachments(s)' = FindAttachments(s)
         /\ RowInserted(p) /\ slot[p] = s => FindAttachments(s)' = FindAttachments(s) \union {NewRow(p)}
         /\ RowInserted(p) /\ slot[p] # s => FindAttachments(s)' = FindAttachments(s)
         /\ \A r : attachments' = attachments \ {r} => FindAttachments(s)' = FindAttachments(s) \ {r}
  <1>1. NewRow(p).slot = slot[p]
    BY DEF NewRow
  <1> QED BY <1>1 DEF RowsKept, RowInserted, FindAttachments

LEMMA RowIds ==
  ASSUME IdInv, NEW s
  PROVE  nextAttID \in Nat /\ \A q \in FindAttachments(s) : q.id \in Nat /\ q.id <= nextAttID
  BY DEF IdInv, TypeInv, TypeOK, StoreTypeOK, FindAttachments

-----------------------------------------------------------------------------
(* Callers that only attach.                                                *)

AttachOnly == use = "attach" =>
    dismissed = {} /\ \A p \in Procs : op[p] \in {"create", "one.Attach"}

\* The row that is about to be replaced has a newer one in the table.
LEMMA NewerHere ==
  ASSUME OneInv, AttachOnly, use = "attach", NEW p \in Procs, Replacing(p),
         NEW r \in pending[p] \intersect attachments
  PROVE  \E w \in FindAttachments(r.slot) : w.id > r.id
  <1> USE DEF OneInv, LostInv
  <1>1. PICK m \in Refs : m.slot = r.slot /\ m.id > r.id
    BY DEF NewerThere, Newer, Replacing
  <1>2. \A q \in Refs : q.id \in Nat
    BY DEF IdInv, RefsBelow
  <1>3. CASE m \in attachments
    BY <1>1, <1>3 DEF FindAttachments
  <1>4. CASE m \in replaced
    <2>1. PICK w \in attachments : w.slot = m.slot /\ w.id > m.id
      BY <1>4 DEF NothingLost, AttachOnly
    <2> QED BY <1>1, <1>2, <2>1 DEF FindAttachments, Refs
  <1> QED BY <1>1, <1>3, <1>4 DEF Refs, AttachOnly

LEMMA AttachStep ==
  ASSUME OneInv, AttachOnly, use = "attach", NEW p \in Procs, Moves(p),
         \A q \in Procs : op'[q] \in {"create", "one.Attach"}
  PROVE  AttachOnly'
  <1>1. dismissed' = {}
    <2>1. CASE Removes(p)
      <3>1. op[p] = "one.Attach"
        BY <2>1 DEF Removes, RowRemoved, OneInv, OneAt, AttachOnly
      <3> QED BY <2>1, <3>1 DEF Removes, RowRemoved, AttachOnly
    <2> QED BY <2>1 DEF Moves, Starts, Reads, Fails, Inserts, Walks, RowsKept, RowInserted, AttachOnly
  <1> QED BY <1>1 DEF AttachOnly

-----------------------------------------------------------------------------
(* A lone caller.                                                           *)

OneRow(s) == \A r, q \in FindAttachments(s) : r = q

\* Between the insert and the delete of an attach there are two rows.
TwoRows(p) == \E r, m : pending[p] = {r} /\ FindAttachments(slot[p]) = {r, m} /\ r.id < m.id

Alone == use = "alone" =>
    /\ faults = 0
    /\ \A p \in Procs \ {loner} : pc[p] = "idle"
    /\ \A p \in Procs :
         /\ pc[p] = "InsertAttachment" => pending[p] = FindAttachments(slot[p])
         /\ Replacing(p) => TwoRows(p)
    /\ \A s \in Slots : OneRow(s) \/ \E p \in Procs : Replacing(p) /\ slot[p] = s

\* The caller that moves is the only one inside a call.
LEMMA LoneMover ==
  ASSUME OneInv, Alone, use = "alone", NEW p \in Procs, Moves(p),
         \A q \in Procs \ {loner} : pc'[q] = "idle"
  PROVE  /\ \A q \in Procs \ {p} : pc[q] = "idle" /\ pc'[q] = "idle"
         /\ \A s \in Slots : OneRow(s) \/ (Replacing(p) /\ slot[p] = s)
  <1>1. p = loner
    BY DEF Alone, Moves, Starts, Reads, Fails, Inserts, Removes, Walks, RowInserted, RowRemoved
  <1> QED BY <1>1 DEF Alone, Replacing

LEMMA AloneStep ==
  ASSUME OneInv, Alone, use = "alone", use' = use, NEW p \in Procs, Moves(p), faults' = 0,
         \A q \in Procs \ {loner} : pc'[q] = "idle"
  PROVE  Alone'
  <1>0. /\ slot[p] \in Slots /\ IdInv
        /\ \A q \in Procs \ {p} : pc[q] = "idle" /\ pc'[q] = "idle"
        /\ \A s \in Slots : OneRow(s) \/ (Replacing(p) /\ slot[p] = s)
    BY LoneMover DEF OneInv, LostInv, IdInv, TypeInv, TypeOK, PlaceTypeOK
  <1> SUFFICES /\ pc'[p] = "InsertAttachment" => pending'[p] = FindAttachments(slot[p])'
               /\ Replacing(p)' => TwoRows(p)'
               /\ \A s \in Slots : OneRow(s)' \/ (Replacing(p)' /\ slot'[p] = s)
    BY <1>0 DEF Alone, Replacing
  <1>1. ASSUME RowsKept, ~ Replacing(p), ~ Replacing(p)',
               pc'[p] = "InsertAttachment" => slot'[p] = slot[p] /\ pending'[p] = FindAttachments(slot[p])
        PROVE  /\ pc'[p] = "InsertAttachment" => pending'[p] = FindAttachments(slot[p])'
               /\ Replacing(p)' => TwoRows(p)'
               /\ \A s \in Slots : OneRow(s)'
    <2>1. \A s : FindAttachments(s)' = FindAttachments(s)
      BY <1>1, SlotRows
    <2>2. pc'[p] = "InsertAttachment" => FindAttachments(slot[p])' = FindAttachments(slot[p])
      BY <1>1, SlotRows DEF FindAttachments, RowsKept
    <2> QED BY <1>0, <1>1, <2>1, <2>2 DEF OneRow
  <1>2. CASE Starts(p) \/ Walks(p)
    BY <1>1, <1>2 DEF Starts, Walks, Replacing, Taking, Detachers, Purgers
  <1>3. CASE Reads(p)
    <2>1. OneRow(slot[p])
      BY <1>0, <1>3 DEF Reads, Replacing
    <2>2. Newest(FindAttachments(slot[p])) = FindAttachments(slot[p])
      BY <1>0, <2>1, RowIds DEF OneRow, Newest
    <2> QED BY <1>1, <1>3, <2>2 DEF Reads, Replacing, SameCall, Taking, Detachers, Purgers
  <1>4. CASE Fails(p)
    <2>1. ~ Replacing(p)
      <3> SUFFICES ASSUME Replacing(p) PROVE FALSE
        OBVIOUS
      <3>1. PICK r \in pending[p] : RowsWithID(r.id) = {}
        BY <1>4 DEF Fails, Alone, Replacing
      <3>2. r \in attachments
        BY DEF Alone, TwoRows, FindAttachments
      <3> QED BY <3>1, <3>2 DEF RowsWithID
    <2> QED BY <1>1, <1>4, <2>1 DEF Fails, Replacing
  <1>5. CASE Inserts(p)
    <2>1. /\ slot'[p] = slot[p] /\ pc[p] = "InsertAttachment" /\ RowInserted(p)
          /\ pending'[p] = pending[p] /\ pending[p] = FindAttachments(slot[p])
          /\ pc'[p] = IF pending[p] = {} THEN "idle" ELSE "DeleteAttachment"
      BY <1>5 DEF Inserts, RowInserted, SameCall, Alone
    <2>2. \A s \in Slots : OneRow(s)
      BY <1>0, <2>1 DEF Replacing
    <2>3. \A s \in Slots \ {slot[p]} : OneRow(s)'
      BY <2>1, <2>2, SlotRows DEF OneRow
    <2>4. FindAttachments(slot[p])' = pending[p] \union {NewRow(p)}
      BY <2>1 DEF RowInserted, FindAttachments, NewRow
    <2>5. CASE pending[p] = {}
      <3>1. OneRow(slot[p])'
        BY <2>1, <2>4, <2>5 DEF OneRow, FindAttachments
      <3> QED BY <2>1, <2>3, <2>5, <3>1 DEF Replacing
    <2>6. CASE pending[p] # {}
      <3>1. PICK r : pending[p] = {r}
        BY <1>0, <2>1, <2>2, <2>6 DEF OneRow
      <3>2. r.id < NewRow(p).id
        <4>1. r \in FindAttachments(slot[p]) /\ nextAttID \in Nat
          BY <1>0, <2>1, <3>1, RowIds
        <4>2. r.id \in Nat /\ r.id <= nextAttID
          BY <1>0, <4>1, RowIds
        <4> QED BY <4>1, <4>2 DEF NewRow
      <3>3. TwoRows(p)'
        BY <2>1, <2>4, <3>1, <3>2 DEF TwoRows, FindAttachments
      <3>4. Replacing(p)'
        BY <1>5, <2>1, <2>6 DEF Replacing, Inserts, SameCall
      <3> QED BY <2>1, <2>3, <2>6, <3>3, <3>4
    <2> QED BY <2>5, <2>6
  <1>6. CASE Removes(p)
    <2>1. PICK r \in pending[p] : pc[p] = "DeleteAttachment" /\ attachments' = attachments \ {r}
      BY <1>6 DEF Removes, RowRemoved
    <2>2. pc'[p] \in {"idle", "Delete"}
      BY <1>6 DEF Removes
    <2>3. \A s : FindAttachments(s)' = FindAttachments(s) \ {r}
      BY <2>1, SlotRows
    <2>4. \A s \in Slots : OneRow(s) => OneRow(s)'
      BY <2>3 DEF OneRow
    <2>5. Replacing(p) => OneRow(slot[p])'
      <3> SUFFICES ASSUME Replacing(p) PROVE OneRow(slot[p])'
        OBVIOUS
      <3>1. PICK q, m : pending[p] = {q} /\ FindAttachments(slot[p]) = {q, m}
        BY DEF Alone, TwoRows
      <3>2. slot'[p] = slot[p]
        BY <1>6 DEF Removes, SameCall
      <3>3. FindAttachments(slot[p])' \subseteq {m}
        BY <2>1, <3>1, <3>2 DEF FindAttachments
      <3> QED BY <3>3 DEF OneRow
    <2> QED BY <1>0, <1>6, <2>2, <2>4, <2>5 DEF Replacing, Removes, SameCall
  <1> QED BY <1>2, <1>3, <1>4, <1>5, <1>6 DEF Moves

-----------------------------------------------------------------------------
(* Both ways of use.                                                        *)

RegisterInv == OneInv /\ AttachOnly /\ Alone

LEMMA RegisterInit == UseInit => RegisterInv
  <1> SUFFICES ASSUME UseInit PROVE RegisterInv
    OBVIOUS
  <1>1. OneInv
    BY LostInit DEF UseInit, Init, OneInv, OneAt, OneCalls
  <1>2. AttachOnly
    BY DEF UseInit, Init, AttachOnly
  <1>3. Alone
    BY DEF UseInit, Init, NewMemStore, Alone, Replacing, OneRow, FindAttachments
  <1> QED BY <1>1, <1>2, <1>3 DEF RegisterInv

LEMMA RegisterNext ==
  ASSUME Calls \subseteq OneCalls
  PROVE  RegisterInv /\ [UseNext]_<<vars, use>> => RegisterInv'
  <1>1. ASSUME RegisterInv, UseNext PROVE RegisterInv'
    <2>1. PICK p \in Procs : BeginCall(p) \/ Step(p)
      BY <1>1 DEF UseNext, Next
    <2>2. OneInv' /\ Moves(p)
      BY <1>1, <2>1, OneStep DEF RegisterInv
    <2>3. AttachOnly'
      BY <1>1, <2>2, AttachStep DEF RegisterInv, UseNext, Keeps, AttachOnly
    <2>4. Alone'
      BY <1>1, <2>2, AloneStep DEF RegisterInv, UseNext, Keeps, Alone
    <2> QED BY <2>2, <2>3, <2>4 DEF RegisterInv
  <1>2. ASSUME RegisterInv, UNCHANGED <<vars, use>> PROVE RegisterInv'
    <2>1. LostInv'
      BY <1>2, LostNext DEF RegisterInv, OneInv
    <2>2. OneInv'
      BY <1>2, <2>1 DEF RegisterInv, OneInv, OneAt, vars, locals
    <2>3. AttachOnly' /\ Alone'
      BY <1>2 DEF RegisterInv, AttachOnly, Alone, Replacing, TwoRows, OneRow, FindAttachments, vars,
                  storeVars, locals, histories
    <2> QED BY <2>2, <2>3 DEF RegisterInv
  <1> QED BY <1>1, <1>2

LEMMA RegisterInvariant ==
  ASSUME Calls \subseteq OneCalls
  PROVE  UseSpec => []RegisterInv
  <1>1. RegisterInv /\ [UseNext]_<<vars, use>> => RegisterInv'
    BY RegisterNext
  <1> QED BY <1>1, RegisterInit, PTL DEF UseSpec

\* Calls made one at a time, none of them failing, leave at most one row in any
\* association: Attach removes the row it found (attachment.go:151-163).
THEOREM AloneKeepsRow ==
  ASSUME Calls \subseteq OneCalls
  PROVE  UseSpec => []AloneKeepsOne
  <1>1. RegisterInv => AloneKeepsOne
    <2> SUFFICES ASSUME RegisterInv, use = "alone", \A p \in Procs : pc[p] = "idle", NEW s \in Slots
                 PROVE  Cardinality(FindAttachments(s)) <= 1
      BY DEF AloneKeepsOne, SingleAttachment
    <2>1. OneRow(s)
      BY DEF RegisterInv, Alone, Replacing
    <2>2. FindAttachments(s) = {} \/ \E r : FindAttachments(s) = {r}
      BY <2>1 DEF OneRow
    <2>3. CASE FindAttachments(s) = {}
      BY <2>3, FS_EmptySet
    <2>4. CASE \E r : FindAttachments(s) = {r}
      <3>1. PICK r : FindAttachments(s) = {r}
        BY <2>4
      <3>2. Cardinality({r}) = 1
        BY FS_Singleton
      <3> QED BY <3>1, <3>2
    <2> QED BY <2>2, <2>3, <2>4
  <1> QED BY <1>1, RegisterInvariant, PTL

-----------------------------------------------------------------------------
(* The refinement.                                                          *)

\* Steps of Register, by what they do to the registers one by one.
LEMMA IsAttach ==
  ASSUME NEW s \in Slots, NEW b \in Nat, nextAttID' = nextAttID + 1,
         Current(s)' = [id |-> nextAttID + 1, blob |-> b],
         \A t \in Slots \ {s} : Current(t)' = Current(t), Clearing' = Clearing
  PROVE  Register!Next
  <1> DEFINE v == [id |-> nextAttID + 1, blob |-> b]
  <1>1. v.blob = b /\ v = [id |-> nextAttID + 1, blob |-> v.blob]
    OBVIOUS
  <1>2. Current(s)' = v
    OBVIOUS
  <1> HIDE DEF v
  <1>3. Registers' = [Registers EXCEPT ![s] = v]
    BY <1>2 DEF Registers
  <1>4. Registers'[s] = v
    BY <1>2 DEF Registers
  <1> QED BY <1>1, <1>3, <1>4, Zenon DEF Register!Next, Register!Attach

LEMMA IsClear ==
  ASSUME NEW s \in Slots, s \in Clearing, Clearing' = Clearing \ {s}, nextAttID' = nextAttID,
         Current(s)' = [id |-> 0, blob |-> 0], \A t \in Slots \ {s} : Current(t)' = Current(t)
  PROVE  Register!Next
  <1>1. Registers' = [Registers EXCEPT ![s] = [id |-> 0, blob |-> 0]]
    BY DEF Registers
  <1> QED BY <1>1 DEF Register!Next, Register!Clear, Register!Nothing

LEMMA IsAskOrQuiet ==
  ASSUME NEW s \in Slots, \A t \in Slots : Current(t)' = Current(t), nextAttID' = nextAttID,
         Clearing' \in {Clearing, Clearing \union {s}, Clearing \ {s}}
  PROVE  [Register!Next]_<<Registers, nextAttID, Clearing>>
  <1>1. Registers' = Registers
    BY DEF Registers
  <1> QED BY <1>1 DEF Register!Next, Register!Ask, Register!GiveUp

\* The rows are kept, so the registers are.
LEMMA CurrentKept ==
  ASSUME RowsKept, NEW s
  PROVE  Current(s)' = Current(s)
  <1>1. FindAttachments(s)' = FindAttachments(s)
    BY DEF RowsKept, FindAttachments
  <1> QED BY <1>1, CurrentIs

\* An attach takes effect with the insert of its row.
LEMMA InsertAttaches ==
  ASSUME OneInv, NEW p \in Procs, RowInserted(p), Clearing' = Clearing
  PROVE  Register!Next
  <1>0. slot[p] \in Slots /\ blob[p] \in Nat /\ IdInv /\ nextAttID \in Nat
    BY DEF OneInv, LostInv, IdInv, TypeInv, TypeOK, PlaceTypeOK, LocalTypeOK, StoreTypeOK
  <1> DEFINE S == FindAttachments(slot[p]) \union {NewRow(p)}
  <1>1. NewRow(p).id = nextAttID + 1 /\ NewRow(p).blob = blob[p]
    BY DEF NewRow
  <1>2. \A q \in FindAttachments(slot[p]) : q.id \in Nat /\ q.id < nextAttID + 1
    BY <1>0, RowIds
  <1>3. RegOf(S) = [id |-> nextAttID + 1, blob |-> blob[p]]
    <2>1. \A q \in S : q.id \in Nat
      BY <1>0, <1>1, <1>2
    <2>2. \A q \in S \ {NewRow(p)} : q.id < NewRow(p).id
      BY <1>1, <1>2
    <2> HIDE DEF S
    <2>3. NewRow(p) \in S
      BY DEF S
    <2>4. RegOf(S) = [id |-> NewRow(p).id, blob |-> NewRow(p).blob]
      BY <2>1, <2>2, <2>3, NewestHeld
    <2> QED BY <1>1, <2>4
  <1>4. PICK s \in Slots : s = slot[p]
    BY <1>0
  <1>5. Current(s)' = RegOf(S)
    BY <1>4, CurrentIs, SlotRows
  <1>6. \A t \in Slots \ {s} : Current(t)' = Current(t)
    BY <1>4, CurrentIs, SlotRows
  <1> QED BY <1>0, <1>3, <1>5, <1>6, IsAttach DEF RowInserted

\* Taking a row away that has a newer one changes no register.
LEMMA OldRowGoes ==
  ASSUME IdInv, NEW r \in attachments, attachments' = attachments \ {r},
         NEW w \in FindAttachments(r.slot), w.id > r.id, NEW s
  PROVE  Current(s)' = Current(s)
  <1>1. FindAttachments(s)' = FindAttachments(s) \ {r}
    BY DEF FindAttachments
  <1>2. CASE r.slot = s
    <2>1. r \in FindAttachments(s) /\ w \in FindAttachments(s)
      BY <1>2 DEF FindAttachments
    <2>2. RegOf(FindAttachments(s) \ {r}) = RegOf(FindAttachments(s))
      BY <2>1, RowIds, OlderGone
    <2> QED BY <1>1, <2>2, CurrentIs
  <1>3. CASE r.slot # s
    <2>1. FindAttachments(s)' = FindAttachments(s)
      BY <1>1, <1>3 DEF FindAttachments
    <2> QED BY <2>1, CurrentIs
  <1> QED BY <1>2, <1>3

\* A row that was replaced goes, or nothing changes in the table.
LEMMA QuietStep ==
  ASSUME OneInv, NEW p \in Procs, Moves(p), ~ Inserts(p), NEW s \in Slots,
         Removes(p) => \A r \in pending[p] \intersect attachments :
                         \E w \in FindAttachments(r.slot) : w.id > r.id,
         Clearing' \in {Clearing, Clearing \union {s}, Clearing \ {s}}
  PROVE  [Register!Next]_<<Registers, nextAttID, Clearing>>
  <1>1. CASE Removes(p)
    <2>1. PICK r \in pending[p] \intersect attachments : attachments' = attachments \ {r} /\ nextAttID' = nextAttID
      BY <1>1 DEF Removes, RowRemoved
    <2>2. \A t \in Slots : Current(t)' = Current(t)
      BY <1>1, <2>1, OldRowGoes DEF OneInv, LostInv
    <2> QED BY <2>1, <2>2, IsAskOrQuiet
  <1>2. CASE RowsKept
    <2>1. \A t \in Slots : Current(t)' = Current(t)
      BY <1>2, CurrentKept
    <2> QED BY <1>2, <2>1, IsAskOrQuiet DEF RowsKept
  <1> QED BY <1>1, <1>2 DEF Moves, Starts, Reads, Fails, Walks

LEMMA AttachRefines ==
  ASSUME OneInv, AttachOnly, use = "attach", NEW p \in Procs, Moves(p),
         \A q \in Procs : op'[q] \in {"create", "one.Attach"}
  PROVE  [Register!Next]_<<Registers, nextAttID, Clearing>>
  <1>1. Clearing = {} /\ Clearing' = {}
    BY DEF AttachOnly, Clearing, Detachers, Purgers
  <1>2. CASE Inserts(p)
    BY <1>1, <1>2, InsertAttaches DEF Inserts
  <1>3. CASE ~ Inserts(p)
    <2>1. ASSUME Removes(p), NEW r \in pending[p] \intersect attachments
          PROVE  \E w \in FindAttachments(r.slot) : w.id > r.id
      <3>1. Replacing(p)
        BY <2>1 DEF Removes, RowRemoved, OneInv, OneAt, AttachOnly, Replacing
      <3> QED BY <3>1, NewerHere
    <2>2. slot[p] \in Slots
      BY DEF OneInv, LostInv, IdInv, TypeInv, TypeOK, PlaceTypeOK
    <2> QED BY <1>1, <1>3, <2>1, <2>2, QuietStep
  <1> QED BY <1>2, <1>3

LEMMA AloneRefines ==
  ASSUME OneInv, Alone, use = "alone", NEW p \in Procs, Moves(p), slot'[p] \in Slots,
         \A q \in Procs \ {loner} : pc'[q] = "idle"
  PROVE  [Register!Next]_<<Registers, nextAttID, Clearing>>
  <1>0. /\ slot[p] \in Slots /\ IdInv /\ OneAt(p)
        /\ \A q \in Procs \ {p} : pc[q] = "idle" /\ pc'[q] = "idle"
        /\ \A s \in Slots : OneRow(s) \/ (Replacing(p) /\ slot[p] = s)
    BY LoneMover DEF OneInv, LostInv, IdInv, TypeInv, TypeOK, PlaceTypeOK
  <1>1. /\ Clearing = IF Taking(p) THEN {slot[p]} ELSE {}
        /\ Clearing' = IF Taking(p)' THEN {slot'[p]} ELSE {}
    BY <1>0 DEF Clearing, Taking
  <1>2. CASE Inserts(p)
    <2>1. ~ Taking(p) /\ ~ Taking(p)'
      BY <1>2 DEF Inserts, SameCall, Taking, Detachers, Purgers
    <2> QED BY <1>1, <1>2, <2>1, InsertAttaches DEF Inserts
  <1>3. CASE Starts(p) \/ Reads(p) \/ Walks(p)
    <2>1. ~ Taking(p) /\ ~ Inserts(p) /\ ~ Removes(p)
      BY <1>3 DEF Starts, Reads, Walks, Taking, Inserts, Removes, RowInserted, RowRemoved
    <2>2. Clearing' \in {Clearing, Clearing \union {slot'[p]}}
      BY <1>1, <2>1
    <2> QED BY <2>1, <2>2, QuietStep
  <1>4. CASE Fails(p)
    <2>1. ~ Taking(p)' /\ ~ Inserts(p) /\ ~ Removes(p)
      BY <1>4 DEF Fails, Taking, RowsKept, Inserts, Removes, RowInserted, RowRemoved, OneInv, LostInv,
                  IdInv, TypeInv, TypeOK, StoreTypeOK
    <2>2. Clearing' \in {Clearing, Clearing \ {slot[p]}}
      BY <1>1, <2>1
    <2> QED BY <1>0, <2>1, <2>2, QuietStep
  <1>5. CASE Removes(p) /\ op[p] = "one.Attach"
    <2>1. Replacing(p) /\ ~ Taking(p) /\ ~ Taking(p)' /\ ~ Inserts(p)
      BY <1>5 DEF Removes, RowRemoved, Replacing, Taking, SameCall, Detachers, Purgers, Inserts, RowInserted
    <2>2. PICK q, m : pending[p] = {q} /\ FindAttachments(slot[p]) = {q, m} /\ q.id < m.id
      BY <2>1 DEF Alone, TwoRows
    <2>3. ASSUME NEW r \in pending[p] PROVE \E w \in FindAttachments(r.slot) : w.id > r.id
      <3>1. r = q /\ r.slot = slot[p] /\ m \in FindAttachments(r.slot)
        BY <1>0, <2>2, <2>3 DEF OneAt
      <3>2. q.id \in Nat /\ m.id \in Nat
        BY <1>0, <2>2, RowIds
      <3> QED BY <2>2, <3>1, <3>2
    <2> QED BY <1>0, <1>1, <2>1, <2>3, QuietStep
  <1>6. CASE Removes(p) /\ op[p] # "one.Attach"
    <2>1. Taking(p) /\ ~ Replacing(p) /\ ~ Taking(p)'
      BY <1>0, <1>6 DEF Removes, RowRemoved, Replacing, Taking, OneAt, OneCalls, Detachers, Purgers
    <2>2. PICK r \in pending[p] \intersect attachments : attachments' = attachments \ {r} /\ nextAttID' = nextAttID
      BY <1>6 DEF Removes, RowRemoved
    <2>3. PICK s \in Slots : s = slot[p] /\ r.slot = s /\ OneRow(s)
      BY <1>0, <2>1, <2>2 DEF OneAt
    <2>4. Current(s)' = [id |-> 0, blob |-> 0]
      <3>1. FindAttachments(s)' = FindAttachments(s) \ {r}
        BY <2>2 DEF FindAttachments
      <3>2. FindAttachments(s)' = {}
        BY <2>2, <2>3, <3>1 DEF OneRow, FindAttachments
      <3> QED BY <3>2, CurrentIs DEF RegOf
    <2>5. ASSUME NEW t \in Slots \ {s} PROVE Current(t)' = Current(t)
      <3>1. FindAttachments(t)' = FindAttachments(t)
        BY <2>2, <2>3, <2>5 DEF FindAttachments
      <3> QED BY <3>1, CurrentIs
    <2>6. s \in Clearing /\ Clearing' = Clearing \ {s}
      BY <1>1, <2>1, <2>3
    <2> QED BY <2>2, <2>4, <2>5, <2>6, IsClear
  <1> QED BY <1>2, <1>3, <1>4, <1>5, <1>6 DEF Moves

LEMMA RegisterStep ==
  ASSUME Calls \subseteq OneCalls, RegisterInv, [UseNext]_<<vars, use>>
  PROVE  [Register!Next]_<<Registers, nextAttID, Clearing>>
  <1>1. CASE UNCHANGED <<vars, use>>
    BY <1>1 DEF vars, storeVars, locals, Registers, Current, FindAttachments, Clearing
  <1>2. CASE UseNext
    <2>1. PICK p \in Procs : BeginCall(p) \/ Step(p)
      BY <1>2 DEF UseNext, Next
    <2>2. Moves(p) /\ slot'[p] \in Slots
      <3>1. Moves(p) /\ OneInv'
        BY <2>1, OneStep DEF RegisterInv
      <3> QED BY <3>1 DEF OneInv, LostInv, IdInv, TypeInv, TypeOK, PlaceTypeOK
    <2> QED BY <1>2, <2>2, AttachRefines, AloneRefines DEF RegisterInv, UseNext, Keeps
  <1> QED BY <1>1, <1>2

\* For a caller that makes one call at a time and for callers that only attach,
\* OneAttached is a register: each attach takes effect in one step, and only a
\* Detach or a Purge that is under way empties an association.
THEOREM OneAttachedIsRegister ==
  ASSUME Calls \subseteq OneCalls
  PROVE  UseSpec => IsRegister
  <1>1. UseInit => Register!Init
    BY DEF UseInit, Init, NewMemStore, Register!Init, Register!Nothing, Registers, Current, FindAttachments, Clearing
  <1>2. RegisterInv /\ [UseNext]_<<vars, use>>
          => [Register!Next]_<<Registers, nextAttID, Clearing>>
    BY RegisterStep
  <1> QED BY <1>1, <1>2, RegisterInvariant, PTL DEF UseSpec, IsRegister, Register!Spec
=============================================================================
