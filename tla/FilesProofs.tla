---------------------------- MODULE FilesProofs ----------------------------
(***************************************************************************)
(* Theorems about Files for any number of files, owners and clients: a row *)
(* names an object that exists, and every object is accounted for.         *)
(***************************************************************************)
EXTENDS Files, TLAPS

\* What the fields of a request say of each other.
Shape ==
    \A c \in Clients :
        /\ op[c].kind = "idle" <=> op[c].at = "start"
        /\ op[c].kind # "idle" => op[c].file \in FileIds
        /\ op[c].kind = "upload" =>
              op[c].owner \in Owners /\ op[c].at # "drop" /\ op[c].old = 0
        /\ op[c].kind = "delete" => op[c].at \in {"write", "drop"} /\ op[c].new = 0
        /\ op[c].kind \in {"replace", "delete"} => op[c].old # 0
        /\ op[c].at \in {"write", "undo"} /\ op[c].kind # "delete" => op[c].new # 0

\* Every key in use was handed out.
KeysKnown ==
    /\ \A f \in FileIds : row[f].key <= lastKey
    /\ \A c \in Clients : op[c].new <= lastKey /\ op[c].old <= lastKey

\* A key that is about to be written is in the bucket, in no row, and nobody has
\* read it; and it is handed to one request only.
NewIsFresh ==
    /\ \A c \in Clients :
           op[c].at = "write" /\ op[c].new # 0 =>
               /\ op[c].new \in objects
               /\ \A f \in FileIds : row[f].key # op[c].new
               /\ \A d \in Clients : op[d].old # op[c].new
    /\ \A c, d \in Clients : c # d /\ op[c].new # 0 => op[c].new # op[d].new

\* A key belongs to one row: no two rows have it, and what a request has read of
\* one row is never found in another.
KeyOfOneRow ==
    /\ \A f, g \in FileIds : f # g /\ row[f].key # 0 => row[f].key # row[g].key
    /\ \A c \in Clients, g \in FileIds :
           op[c].old # 0 /\ g # op[c].file => row[g].key # op[c].old

\* An object that is about to be deleted is in no row whose write was answered.
DoomedIsFree ==
    \A c \in Clients, f \in FileIds :
        op[c].at \in {"undo", "drop"} /\ row[f].key \in InHand(c) => f \in lost

Inv ==
    /\ TypeOK
    /\ Shape
    /\ KeysKnown
    /\ NewIsFresh
    /\ KeyOfOneRow
    /\ DoomedIsFree
    /\ RowHasObject

-----------------------------------------------------------------------------
LEMMA InitInv == Init => Inv
  BY FilesAssumption DEF Init, Inv, TypeOK, Shape, KeysKnown, NewIsFresh, KeyOfOneRow,
     DoomedIsFree, RowHasObject, Idle, Op, Unused, Live, InHand, Keys, None, FileIds

\* The reads that begin a request: only the request changes.
LEMMA ReadsKeepInv ==
  ASSUME Inv, NEW c \in Clients, NEW f \in FileIds,
         \/ \E o \in Owners : ReadUploadImage(c, f, o) \/ ReadUploadAttachment(c, f, o)
         \/ ReadReplace(c, f)
         \/ ReadDeleteImage(c, f)
         \/ ReadDeleteAttachment(c, f)
  PROVE  Inv'
<1> USE FilesAssumption
<1>u. UNCHANGED <<owner, row, objects, lastKey, lost, left>>
  BY DEF ReadUploadImage, ReadUploadAttachment, ReadOwner, ReadReplace,
         ReadDeleteImage, ReadDeleteAttachment
<1>k. row[f] \in PanelImage \union {Unused, Deleted} /\ lastKey \in Nat
  BY DEF Inv, TypeOK
<1>l. Live(f) => row[f].key \in Keys /\ row[f].key # 0
  BY <1>k DEF Live, PanelImage, Unused, Deleted, Keys
<1>o. \E r \in Op :
        /\ op' = [op EXCEPT ![c] = r]
        /\ r.at \in {"put", "write"} /\ r.file = f /\ r.new = 0
        /\ r.kind = "upload" => r.owner \in Owners /\ r.at = "put" /\ r.old = 0
        /\ r.kind = "replace" => r.at = "put"
        /\ r.kind = "delete" => r.at = "write"
        /\ r.kind \in {"replace", "delete"} => r.old = row[f].key /\ r.old # 0
        /\ r.kind # "idle"
  <2>n. 0 \in 0 .. MaxObjects /\ (Live(f) => row[f].key \in 0 .. MaxObjects)
    BY <1>l DEF Keys
  <2>1. ASSUME NEW o \in Owners,
               ReadUploadImage(c, f, o) \/ ReadUploadAttachment(c, f, o)
        PROVE  \E r \in Op :
                 /\ op' = [op EXCEPT ![c] = r]
                 /\ r.at = "put" /\ r.file = f /\ r.new = 0
                 /\ r.kind = "upload" /\ r.owner \in Owners /\ r.old = 0
    <3> DEFINE r == [kind |-> "upload", at |-> "put", file |-> f, owner |-> o,
                     new |-> 0, old |-> 0]
    <3>1. r \in Op BY <2>n DEF Op
    <3>2. op' = [op EXCEPT ![c] = r]
      BY <2>1 DEF ReadUploadImage, ReadUploadAttachment, ReadOwner, Idle
    <3> QED BY <3>1, <3>2
  <2>2. CASE ReadReplace(c, f)
    <3> DEFINE r == [kind |-> "replace", at |-> "put", file |-> f, owner |-> None,
                     new |-> 0, old |-> row[f].key]
    <3>1. Live(f) BY <2>2 DEF ReadReplace
    <3>2. r \in Op BY <2>n, <3>1 DEF Op
    <3>3. op' = [op EXCEPT ![c] = r] BY <2>2 DEF ReadReplace, ReadRow
    <3> QED BY <1>l, <3>1, <3>2, <3>3
  <2>3. CASE ReadDeleteImage(c, f) \/ ReadDeleteAttachment(c, f)
    <3> DEFINE r == [kind |-> "delete", at |-> "write", file |-> f, owner |-> None,
                     new |-> 0, old |-> row[f].key]
    <3>1. Live(f) BY <2>3 DEF ReadDeleteImage, ReadDeleteAttachment
    <3>2. r \in Op BY <2>n, <3>1 DEF Op
    <3>3. op' = [op EXCEPT ![c] = r]
      BY <2>3 DEF ReadDeleteImage, ReadDeleteAttachment, ReadRow
    <3> QED BY <1>l, <3>1, <3>2, <3>3
  <2> QED BY <2>1, <2>2, <2>3
<1>r. PICK r \in Op :
        /\ op' = [op EXCEPT ![c] = r]
        /\ r.at \in {"put", "write"} /\ r.file = f /\ r.new = 0
        /\ r.kind = "upload" => r.owner \in Owners /\ r.at = "put" /\ r.old = 0
        /\ r.kind = "replace" => r.at = "put"
        /\ r.kind = "delete" => r.at = "write"
        /\ r.kind \in {"replace", "delete"} => r.old = row[f].key /\ r.old # 0
        /\ r.kind # "idle"
  BY <1>o
<1>a. op \in [Clients -> Op] BY DEF Inv, TypeOK
<1>b. \A d \in Clients : op'[d] = IF d = c THEN r ELSE op[d] BY <1>r, <1>a
<1>kinds. r.kind \in {"upload", "replace", "delete"} BY <1>r DEF Op
<1>1. TypeOK' BY <1>u, <1>r, <1>a DEF Inv, TypeOK
<1>2. Shape' BY <1>b, <1>r, <1>kinds DEF Inv, Shape
<1>3. KeysKnown' BY <1>u, <1>b, <1>r, <1>kinds, <1>k DEF Inv, KeysKnown
<1>4. NewIsFresh' BY <1>u, <1>b, <1>r, <1>kinds DEF Inv, NewIsFresh
<1>5. KeyOfOneRow'
  BY <1>u, <1>b, <1>r, <1>kinds DEF Inv, KeyOfOneRow
<1>6. DoomedIsFree' BY <1>u, <1>b, <1>r DEF Inv, DoomedIsFree, InHand
<1>7. RowHasObject' BY <1>u DEF Inv, RowHasObject, Live
<1> QED BY <1>1, <1>2, <1>3, <1>4, <1>5, <1>6, <1>7 DEF Inv

\* What a request is when it has put its object, and in the steps after.
LEMMA KindOfRequest ==
  ASSUME Inv, NEW c \in Clients
  PROVE  /\ op[c] \in Op
         /\ op[c].at = "put" => op[c].kind \in {"upload", "replace"}
         /\ op[c].kind # "idle" /\ op[c].at = "write" =>
               /\ op[c].kind \in {"upload", "replace", "delete"}
               /\ op[c].file \in FileIds
               /\ op[c].new = 0 <=> op[c].kind = "delete"
         /\ op[c].at = "undo" => op[c].kind \in {"upload", "replace"} /\ op[c].new # 0
         /\ op[c].at = "drop" => op[c].kind \in {"replace", "delete"} /\ op[c].old # 0
         /\ op[c].at # "start" => op[c].file \in FileIds
<1>1. op[c] \in Op BY DEF Inv, TypeOK
<1>2. /\ op[c].kind \in {"idle", "upload", "replace", "delete"}
      /\ op[c].at \in {"start", "put", "write", "undo", "drop"}
  BY <1>1 DEF Op
<1> QED BY <1>1, <1>2 DEF Inv, Shape

\* Putting an object: its key is new to everybody.
LEMMA UploadKeepsInv ==
  ASSUME Inv, NEW c \in Clients, Upload(c)
  PROVE  Inv'
<1> USE FilesAssumption
<1> DEFINE r == [op[c] EXCEPT !.at = "write", !.new = lastKey + 1]
<1>1. /\ op[c].at = "put" /\ lastKey \in Nat /\ lastKey < MaxObjects
      /\ lastKey' = lastKey + 1 /\ objects' = objects \union {lastKey + 1}
      /\ UNCHANGED <<owner, row, lost, left>>
  BY DEF Upload, Inv, TypeOK
<1>2. op[c] \in Op /\ op[c].kind \in {"upload", "replace"} /\ op[c].file \in FileIds
  BY <1>1, KindOfRequest
<1>m. lastKey + 1 \in 0 .. MaxObjects BY <1>1
<1>3. r \in Op BY <1>m, <1>2 DEF Op
<1>4. /\ r.at = "write" /\ r.new = lastKey + 1 /\ r.kind = op[c].kind
      /\ r.file = op[c].file /\ r.owner = op[c].owner /\ r.old = op[c].old
  BY <1>2 DEF Op
<1>a. op \in [Clients -> Op] BY DEF Inv, TypeOK
<1>5. op' = [op EXCEPT ![c] = r] BY <1>a DEF Upload
<1>b. \A d \in Clients : op'[d] = IF d = c THEN r ELSE op[d] BY <1>5, <1>a
<1>k. /\ \A f \in FileIds : row[f].key \in Nat /\ row[f].key <= lastKey
      /\ \A d \in Clients : /\ op[d].new \in Nat /\ op[d].new <= lastKey
                            /\ op[d].old \in Nat /\ op[d].old <= lastKey
  <2>1. \A f \in FileIds : row[f].key \in Nat
    BY DEF Inv, TypeOK, PanelImage, Unused, Deleted, Keys
  <2>2. \A d \in Clients : op[d].new \in Nat /\ op[d].old \in Nat
    BY <1>a DEF Op
  <2> QED BY <2>1, <2>2 DEF Inv, KeysKnown
<1> HIDE DEF r
<1>t. TypeOK' BY <1>1, <1>3, <1>5, <1>a DEF Inv, TypeOK
<1>s. Shape' BY <1>1, <1>b, <1>2, <1>4 DEF Inv, Shape
<1>u. KeysKnown' BY <1>1, <1>b, <1>4, <1>k DEF KeysKnown
<1>n. NewIsFresh'
  <2>1. ASSUME NEW d \in Clients, op'[d].at = "write", op'[d].new # 0
        PROVE  /\ op'[d].new \in objects'
               /\ \A f \in FileIds : row'[f].key # op'[d].new
               /\ \A e \in Clients : op'[e].old # op'[d].new
    BY <2>1, <1>1, <1>b, <1>4, <1>k DEF Inv, NewIsFresh
  <2>2. ASSUME NEW d \in Clients, NEW e \in Clients, d # e, op'[d].new # 0
        PROVE  op'[d].new # op'[e].new
    BY <2>2, <1>1, <1>b, <1>4, <1>k DEF Inv, NewIsFresh
  <2> QED BY <2>1, <2>2 DEF NewIsFresh
<1>o. KeyOfOneRow' BY <1>1, <1>b, <1>4 DEF Inv, KeyOfOneRow
<1>d. DoomedIsFree' BY <1>1, <1>b, <1>4 DEF Inv, DoomedIsFree, InHand
<1>r. RowHasObject' BY <1>1 DEF Inv, RowHasObject, Live
<1> QED BY <1>t, <1>s, <1>u, <1>n, <1>o, <1>d, <1>r DEF Inv

\* Writing the row, answered or not: the row gets a key that is in no other, and
\* what the request may delete next is the key it has read or a row of lost.
LEMMA WritesKeepInv ==
  ASSUME Inv, NEW c \in Clients, WriteRow(c) \/ AnswerLost(c)
  PROVE  Inv'
<1> USE FilesAssumption
<1> DEFINE g == op[c].file
<1>1. /\ op[c].kind # "idle" /\ op[c].at = "write" /\ Writable(c)
      /\ row' = [row EXCEPT ![g] = Written(c)]
      /\ UNCHANGED <<owner, objects, lastKey>>
      /\ lost' = lost \/ (lost' = lost \union {g} /\ AnswerLost(c))
  BY DEF WriteRow, AnswerLost
<1>2. /\ op[c] \in Op /\ op[c].kind \in {"upload", "replace", "delete"} /\ g \in FileIds
      /\ op[c].new = 0 <=> op[c].kind = "delete"
  BY <1>1, KindOfRequest
<1>a. op \in [Clients -> Op] /\ row \in [FileIds -> PanelImage \union {Unused, Deleted}]
  BY DEF Inv, TypeOK
<1>n0. op[c].new \in 0 .. MaxObjects /\ op[c].old \in 0 .. MaxObjects BY <1>2 DEF Op
<1>3. \E r \in Op :
         /\ op' = [op EXCEPT ![c] = r]
         /\ \/ r = Idle
            \/ /\ r.kind = op[c].kind /\ r.file = g /\ r.owner = op[c].owner
               /\ r.new = op[c].new /\ r.old = op[c].old
               /\ \/ r.at = "drop" /\ r.kind # "upload"
                  \/ r.at = "undo" /\ r.kind # "delete" /\ g \in lost'
  <2>i. Idle \in Op BY DEF Idle, Op
  <2>1. CASE op' = [op EXCEPT ![c] = Idle] BY <2>i, <2>1
  <2>2. CASE WriteRow(c) /\ op[c].kind # "upload"
    <3> DEFINE r == [op[c] EXCEPT !.at = "drop"]
    <3>1. r \in Op BY <1>2 DEF Op
    <3>2. op' = [op EXCEPT ![c] = r] BY <2>2, <1>a DEF WriteRow, Go
    <3>3. /\ r.kind = op[c].kind /\ r.file = g /\ r.owner = op[c].owner
          /\ r.new = op[c].new /\ r.old = op[c].old /\ r.at = "drop"
      BY <1>2 DEF Op
    <3> QED BY <2>2, <3>1, <3>2, <3>3
  <2>3. CASE AnswerLost(c) /\ op[c].kind # "delete"
    <3> DEFINE r == [op[c] EXCEPT !.at = "undo"]
    <3>1. r \in Op BY <1>2 DEF Op
    <3>2. op' = [op EXCEPT ![c] = r] BY <2>3, <1>a DEF AnswerLost, Go
    <3>3. /\ r.kind = op[c].kind /\ r.file = g /\ r.owner = op[c].owner
          /\ r.new = op[c].new /\ r.old = op[c].old /\ r.at = "undo"
      BY <1>2 DEF Op
    <3>4. g \in lost' BY <2>3 DEF AnswerLost
    <3> QED BY <2>3, <3>1, <3>2, <3>3, <3>4
  <2> QED BY <2>1, <2>2, <2>3 DEF WriteRow, AnswerLost, Finish
<1>r. PICK r \in Op :
         /\ op' = [op EXCEPT ![c] = r]
         /\ \/ r = Idle
            \/ /\ r.kind = op[c].kind /\ r.file = g /\ r.owner = op[c].owner
               /\ r.new = op[c].new /\ r.old = op[c].old
               /\ \/ r.at = "drop" /\ r.kind # "upload"
                  \/ r.at = "undo" /\ r.kind # "delete" /\ g \in lost'
  BY <1>3
<1>i. /\ Idle.kind = "idle" /\ Idle.at = "start" /\ Idle.new = 0 /\ Idle.old = 0
  BY DEF Idle
<1>b. \A d \in Clients : op'[d] = IF d = c THEN r ELSE op[d] BY <1>r, <1>a
<1>w. /\ Written(c) \in PanelImage \union {Unused, Deleted}
      /\ Written(c).key = op[c].new
      /\ Written(c).state = "LIVE" => op[c].new # 0
  <2>1. CASE op[c].kind = "upload"
    <3>1. op[c].owner \in Owners /\ op[c].new \in Keys
      BY <2>1, <1>2, <1>n0 DEF Inv, Shape, Keys
    <3>2. Written(c) = [state |-> "LIVE", owner |-> op[c].owner, key |-> op[c].new]
      BY <2>1, <1>2 DEF Written, CreatePanelImage, CreateAttachment, FileIds
    <3> QED BY <3>1, <3>2, <2>1, <1>2 DEF PanelImage
  <2>2. CASE op[c].kind = "replace"
    <3>1. Written(c) = [row[g] EXCEPT !.key = op[c].new]
      BY <2>2 DEF Written, ReplacePanelImageFile
    <3>2. row[g] \in PanelImage
      BY <1>a, <1>1, <1>2, <2>2 DEF Writable, Live, Unused, Deleted
    <3>3. op[c].new \in Keys BY <2>2, <1>2, <1>n0 DEF Keys
    <3> QED BY <3>1, <3>2, <3>3, <2>2, <1>2 DEF PanelImage
  <2>3. CASE op[c].kind = "delete"
    <3>1. Written(c) = Deleted BY <2>3 DEF Written
    <3> QED BY <3>1, <2>3, <1>2 DEF Deleted
  <2> QED BY <2>1, <2>2, <2>3, <1>2
<1>x. \A f \in FileIds : row'[f] = IF f = g THEN Written(c) ELSE row[f]
  BY <1>1, <1>a
<1>l. lost \subseteq lost' /\ lost' \subseteq FileIds
  BY <1>1, <1>2 DEF Inv, TypeOK
<1>f. left' \subseteq Keys
  <2>1. row[g].key \in 0 .. MaxObjects
    BY <1>a, <1>2 DEF PanelImage, Unused, Deleted, Keys
  <2>2. Overwritten(c) \subseteq Keys BY <2>1 DEF Overwritten, Keys
  <2>3. {op[c].old} \ {0} \subseteq Keys BY <1>n0 DEF Keys
  <2> QED BY <2>2, <2>3 DEF WriteRow, AnswerLost, Inv, TypeOK
<1> HIDE DEF g
<1>fresh. op[c].new # 0 =>
             /\ op[c].new \in objects
             /\ \A f \in FileIds : row[f].key # op[c].new
             /\ \A d \in Clients : op[d].old # op[c].new
             /\ \A d \in Clients : d # c => op[d].new # op[c].new
  BY <1>1 DEF Inv, NewIsFresh
<1>t. TypeOK'
  <2>1. row' \in [FileIds -> PanelImage \union {Unused, Deleted}]
    BY <1>1, <1>2, <1>a, <1>w DEF g
  <2>2. op' \in [Clients -> Op] BY <1>r, <1>a
  <2> QED BY <2>1, <2>2, <1>1, <1>l, <1>f DEF Inv, TypeOK
<1>s. Shape'
  <2>1. ASSUME NEW d \in Clients, d # c PROVE op'[d] = op[d] BY <2>1, <1>b
  <2>2. op'[c] = r BY <1>b
  <2>3. /\ r.kind = "idle" <=> r.at = "start"
        /\ r.kind # "idle" => r.file \in FileIds
        /\ r.kind = "upload" => r.owner \in Owners /\ r.at # "drop" /\ r.old = 0
        /\ r.kind = "delete" => r.at \in {"write", "drop"} /\ r.new = 0
        /\ r.kind \in {"replace", "delete"} => r.old # 0
        /\ r.at \in {"write", "undo"} /\ r.kind # "delete" => r.new # 0
    BY <1>r, <1>i, <1>1, <1>2 DEF Inv, Shape, g
  <2> QED BY <2>1, <2>2, <2>3 DEF Inv, Shape
<1>u. KeysKnown'
  <2>1. op[c].new <= lastKey /\ op[c].old <= lastKey /\ 0 <= lastKey
    BY DEF Inv, KeysKnown, TypeOK
  <2> QED BY <2>1, <1>1, <1>b, <1>r, <1>i, <1>x, <1>w DEF Inv, KeysKnown
<1>n. NewIsFresh'
  <2>1. ASSUME NEW d \in Clients, op'[d].at = "write", op'[d].new # 0
        PROVE  /\ op'[d].new \in objects'
               /\ \A f \in FileIds : row'[f].key # op'[d].new
               /\ \A e \in Clients : op'[e].old # op'[d].new
    <3>1. d # c BY <2>1, <1>b, <1>r, <1>i
    <3>2. op'[d] = op[d] /\ op[d].at = "write" /\ op[d].new # 0 BY <2>1, <3>1, <1>b
    <3>3. op[c].new # op[d].new BY <3>1, <3>2, <1>fresh
    <3> QED BY <3>2, <3>3, <1>1, <1>b, <1>r, <1>i, <1>x, <1>w DEF Inv, NewIsFresh
  <2>2. ASSUME NEW d \in Clients, NEW e \in Clients, d # e, op'[d].new # 0
        PROVE  op'[d].new # op'[e].new
    BY <2>2, <1>b, <1>r, <1>i DEF Inv, NewIsFresh
  <2> QED BY <2>1, <2>2 DEF NewIsFresh
<1>o. KeyOfOneRow'
  <2>1. ASSUME NEW e \in FileIds, NEW f \in FileIds, e # f, row'[e].key # 0
        PROVE  row'[e].key # row'[f].key
    BY <2>1, <1>x, <1>w, <1>fresh DEF Inv, KeyOfOneRow
  <2>2. ASSUME NEW d \in Clients, NEW f \in FileIds, op'[d].old # 0, f # op'[d].file
        PROVE  row'[f].key # op'[d].old
    <3>1. op'[d].old = op[d].old /\ op'[d].file = op[d].file
      BY <2>2, <1>b, <1>r, <1>i DEF g
    <3>2. op[c].new # op[d].old BY <2>2, <3>1, <1>fresh
    <3> QED BY <2>2, <3>1, <3>2, <1>x, <1>w DEF Inv, KeyOfOneRow
  <2> QED BY <2>1, <2>2 DEF KeyOfOneRow
<1>d. DoomedIsFree'
  <2> SUFFICES ASSUME NEW d \in Clients, NEW f \in FileIds,
                      op'[d].at \in {"undo", "drop"}, row'[f].key \in InHand(d)'
               PROVE  f \in lost'
    BY DEF DoomedIsFree
  <2>1. CASE d # c
    <3>1. op'[d] = op[d] BY <2>1, <1>b
    <3>2. \/ op[d].at = "undo" /\ row'[f].key = op[d].new /\ op[d].new # 0
          \/ op[d].at = "drop" /\ row'[f].key = op[d].old /\ op[d].old # 0
      BY <3>1, KindOfRequest DEF InHand
    <3>3. f # g BY <2>1, <3>2, <1>x, <1>w, <1>fresh
    <3>4. row'[f] = row[f] BY <3>3, <1>x
    <3> QED BY <3>1, <3>2, <3>4, <1>l DEF Inv, DoomedIsFree, InHand
  <2>2. CASE d = c
    <3>1. op'[d] = r BY <2>2, <1>b
    <3>2. CASE r.at = "drop"
      <4>1. row'[f].key = op[c].old BY <3>1, <3>2, <1>r, <1>i DEF InHand
      <4>2. op[c].old # 0 /\ op[c].old # op[c].new
        BY <3>2, <1>r, <1>i, <1>2, <1>fresh DEF Inv, Shape
      <4>3. f # g BY <4>1, <4>2, <1>x, <1>w
      <4> QED BY <4>1, <4>2, <4>3, <1>x DEF Inv, KeyOfOneRow, g
    <3>3. CASE r.at = "undo"
      <4>1. row'[f].key = op[c].new /\ op[c].new # 0 /\ g \in lost'
        BY <3>1, <3>3, <1>r, <1>i, <1>2 DEF InHand
      <4> QED BY <4>1, <1>x, <1>fresh
    <3> QED BY <3>1, <3>2, <3>3
  <2> QED BY <2>1, <2>2
<1>h. RowHasObject'
  BY <1>1, <1>x, <1>w, <1>l, <1>fresh DEF Inv, RowHasObject, Live
<1> QED BY <1>t, <1>s, <1>u, <1>n, <1>o, <1>d, <1>h DEF Inv

\* The steps that end a request, or send it to its clean-up, write no row.
LEMMA EndsKeepInv ==
  ASSUME Inv, NEW c \in Clients,
         WriteFails(c) \/ DeleteObject(c) \/ Abandon(c)
  PROVE  Inv'
<1> USE FilesAssumption
<1>a. op \in [Clients -> Op] BY DEF Inv, TypeOK
<1>1. /\ op[c] # Idle
      /\ UNCHANGED <<owner, row, lastKey, lost>>
      /\ objects' \subseteq objects
      /\ \A k \in objects \ objects' : DeleteObject(c) /\ k \in InHand(c)
  BY DEF WriteFails, DeleteObject, Abandon, Idle, Doomed
<1>2. \E r \in Op :
         /\ op' = [op EXCEPT ![c] = r]
         /\ \/ r = Idle
            \/ /\ r.kind = op[c].kind /\ r.file = op[c].file /\ r.owner = op[c].owner
               /\ r.new = op[c].new /\ r.old = op[c].old
               /\ r.at = "undo" /\ op[c].at = "write" /\ op[c].new # 0
               /\ r.kind \in {"upload", "replace"} /\ objects' = objects
  <2>i. Idle \in Op BY DEF Idle, Op
  <2>1. CASE op' = [op EXCEPT ![c] = Idle] BY <2>i, <2>1
  <2>2. CASE WriteFails(c) /\ op[c].kind # "delete"
    <3> DEFINE r == [op[c] EXCEPT !.at = "undo"]
    <3>1. op[c] \in Op /\ op[c].at = "write" /\ op[c].new # 0
          /\ op[c].kind \in {"upload", "replace"}
      BY <2>2, KindOfRequest DEF WriteFails
    <3>2. r \in Op BY <3>1 DEF Op
    <3>3. op' = [op EXCEPT ![c] = r] BY <2>2, <1>a DEF WriteFails, Go
    <3>4. /\ r.kind = op[c].kind /\ r.file = op[c].file /\ r.owner = op[c].owner
          /\ r.new = op[c].new /\ r.old = op[c].old /\ r.at = "undo"
      BY <3>1 DEF Op
    <3> QED BY <2>2, <3>1, <3>2, <3>3, <3>4 DEF WriteFails
  <2> QED BY <2>1, <2>2 DEF WriteFails, DeleteObject, Abandon, Finish
<1>r. PICK r \in Op :
         /\ op' = [op EXCEPT ![c] = r]
         /\ \/ r = Idle
            \/ /\ r.kind = op[c].kind /\ r.file = op[c].file /\ r.owner = op[c].owner
               /\ r.new = op[c].new /\ r.old = op[c].old
               /\ r.at = "undo" /\ op[c].at = "write" /\ op[c].new # 0
               /\ r.kind \in {"upload", "replace"} /\ objects' = objects
  BY <1>2
<1>i. Idle.kind = "idle" /\ Idle.at = "start" /\ Idle.new = 0 /\ Idle.old = 0
  BY DEF Idle
<1>b. \A d \in Clients : op'[d] = IF d = c THEN r ELSE op[d] BY <1>r, <1>a
<1>t. TypeOK'
  <2>1. op' \in [Clients -> Op] BY <1>r, <1>a
  <2>2. InHand(c) \ {0} \subseteq Keys
    <3>1. op[c].new \in 0 .. MaxObjects /\ op[c].old \in 0 .. MaxObjects
      BY <1>a DEF Op
    <3> QED BY <3>1 DEF InHand, Keys
  <2>3. left' \subseteq Keys
    BY <2>2 DEF WriteFails, DeleteObject, Abandon, Inv, TypeOK
  <2> QED BY <2>1, <2>3, <1>1 DEF Inv, TypeOK
<1>s. Shape'
  <2>1. ASSUME NEW d \in Clients, d # c PROVE op'[d] = op[d] BY <2>1, <1>b
  <2>2. op'[c] = r BY <1>b
  <2>3. /\ r.kind = "idle" <=> r.at = "start"
        /\ r.kind # "idle" => r.file \in FileIds
        /\ r.kind = "upload" => r.owner \in Owners /\ r.at # "drop" /\ r.old = 0
        /\ r.kind = "delete" => r.at \in {"write", "drop"} /\ r.new = 0
        /\ r.kind \in {"replace", "delete"} => r.old # 0
        /\ r.at \in {"write", "undo"} /\ r.kind # "delete" => r.new # 0
    BY <1>r, <1>i DEF Inv, Shape
  <2> QED BY <2>1, <2>2, <2>3 DEF Inv, Shape
<1>u. KeysKnown'
  <2>1. op[c].new <= lastKey /\ op[c].old <= lastKey /\ 0 <= lastKey
    BY DEF Inv, KeysKnown, TypeOK
  <2> QED BY <2>1, <1>1, <1>b, <1>r, <1>i DEF Inv, KeysKnown
<1>n. NewIsFresh'
  <2>1. ASSUME NEW d \in Clients, op'[d].at = "write", op'[d].new # 0
        PROVE  /\ op'[d].new \in objects'
               /\ \A f \in FileIds : row'[f].key # op'[d].new
               /\ \A e \in Clients : op'[e].old # op'[d].new
    <3>1. d # c /\ op'[d] = op[d] BY <2>1, <1>b, <1>r, <1>i
    <3>2. op[d].new \notin InHand(c) \/ ~DeleteObject(c)
      BY <2>1, <3>1 DEF InHand, DeleteObject, Inv, NewIsFresh
    <3>3. op'[d].new \in objects' BY <2>1, <3>1, <3>2, <1>1 DEF Inv, NewIsFresh
    <3> QED BY <2>1, <3>1, <3>3, <1>1, <1>b, <1>r, <1>i DEF Inv, NewIsFresh
  <2>2. ASSUME NEW d \in Clients, NEW e \in Clients, d # e, op'[d].new # 0
        PROVE  op'[d].new # op'[e].new
    BY <2>2, <1>b, <1>r, <1>i DEF Inv, NewIsFresh
  <2> QED BY <2>1, <2>2 DEF NewIsFresh
<1>o. KeyOfOneRow' BY <1>1, <1>b, <1>r, <1>i DEF Inv, KeyOfOneRow
<1>d. DoomedIsFree'
  <2> SUFFICES ASSUME NEW d \in Clients, NEW f \in FileIds,
                      op'[d].at \in {"undo", "drop"}, row'[f].key \in InHand(d)'
               PROVE  f \in lost'
    BY DEF DoomedIsFree
  <2>1. CASE d # c
    BY <2>1, <1>1, <1>b DEF Inv, DoomedIsFree, InHand
  <2>2. CASE d = c
    <3>1. op'[d] = r BY <2>2, <1>b
    <3>2. row[f].key = op[c].new /\ op[c].at = "write" /\ op[c].new # 0
      BY <3>1, <1>1, <1>r, <1>i DEF InHand
    <3> QED BY <3>2 DEF Inv, NewIsFresh
  <2> QED BY <2>1, <2>2
<1>h. RowHasObject'
  BY <1>1 DEF Inv, RowHasObject, Live, DoomedIsFree, DeleteObject
<1> QED BY <1>t, <1>s, <1>u, <1>n, <1>o, <1>d, <1>h DEF Inv

LEMMA DeleteOwnerKeepsInv ==
  ASSUME Inv, NEW o \in Owners, DeleteOwner(o)
  PROVE  Inv'
<1>1. UNCHANGED <<row, objects, lastKey, op, lost, left>>
      /\ owner' \in [Owners -> {"LIVE", "DELETED"}]
  BY DEF DeleteOwner, Inv, TypeOK
<1> QED BY <1>1 DEF Inv, TypeOK, Shape, KeysKnown, NewIsFresh, KeyOfOneRow,
                    DoomedIsFree, RowHasObject, InHand, Live

LEMMA NextKeepsInv == Inv /\ [Next]_vars => Inv'
<1> SUFFICES ASSUME Inv, [Next]_vars PROVE Inv' OBVIOUS
<1>1. CASE Next
  BY <1>1, ReadsKeepInv, UploadKeepsInv, WritesKeepInv, EndsKeepInv,
     DeleteOwnerKeepsInv DEF Next
<1>2. CASE UNCHANGED vars
  BY <1>2 DEF vars, Inv, TypeOK, Shape, KeysKnown, NewIsFresh, KeyOfOneRow,
              DoomedIsFree, RowHasObject, InHand, Live
<1> QED BY <1>1, <1>2

\* Rows, objects and requests stay in their domains, for any number of files,
\* owners and concurrent requests.
THEOREM FilesTypeCorrect == Spec => []TypeOK
<1>1. Inv => TypeOK BY DEF Inv
<1> QED BY InitInv, NextKeepsInv, <1>1, PTL DEF Spec

\* A link handed to a client works: whatever uploads, replacements, deletions and
\* failures cross, a row names an object that exists, unless its write was
\* reported as an error.
THEOREM RowsNameObjects == Spec => []RowHasObject
<1>1. Inv => RowHasObject BY DEF Inv
<1> QED BY InitInv, NextKeepsInv, <1>1, PTL DEF Spec

-----------------------------------------------------------------------------
\* What becomes of the key a row named: the request has it in hand, or it is left.
LEMMA WritesAccount ==
  ASSUME Inv, NEW c \in Clients, WriteRow(c) \/ AnswerLost(c),
         NEW k \in objects,
         \/ \E f \in FileIds : Live(f) /\ row[f].key = k
         \/ \E d \in Clients : k \in InHand(d)
         \/ k \in left
  PROVE  \/ \E f \in FileIds : Live(f)' /\ row'[f].key = k
         \/ \E d \in Clients : k \in InHand(d)'
         \/ k \in left'
<1> DEFINE g == op[c].file
<1>1. /\ op[c].kind # "idle" /\ op[c].at = "write" /\ Writable(c)
      /\ row' = [row EXCEPT ![g] = Written(c)]
      /\ left \subseteq left' /\ Overwritten(c) \subseteq left'
  BY DEF WriteRow, AnswerLost
<1>2. /\ op[c].kind \in {"upload", "replace", "delete"} /\ g \in FileIds
      /\ op[c].new = 0 <=> op[c].kind = "delete"
  BY <1>1, KindOfRequest
<1>a. /\ op \in [Clients -> Op] /\ row \in [FileIds -> PanelImage \union {Unused, Deleted}]
      /\ k # 0
  BY DEF Inv, TypeOK
<1>x. \A f \in FileIds : row'[f] = IF f = g THEN Written(c) ELSE row[f]
  BY <1>1, <1>a
<1>b. \A d \in Clients \ {c} : op'[d] = op[d]
  BY <1>a DEF WriteRow, AnswerLost, Finish, Go
<1>3. CASE k = op[c].new
  <2>1. op[c].kind \in {"upload", "replace"} BY <1>3, <1>2, <1>a
  <2>2. Written(c).state = "LIVE" /\ Written(c).key = k
    <3>1. CASE op[c].kind = "upload"
      BY <3>1, <1>2, <1>3 DEF Written, CreatePanelImage, CreateAttachment, FileIds
    <3>2. CASE op[c].kind = "replace"
      <4>1. row[g] \in PanelImage
        BY <3>2, <1>a, <1>1, <1>2 DEF Writable, Live, Unused, Deleted
      <4>2. Written(c) = [row[g] EXCEPT !.key = op[c].new]
        BY <3>2 DEF Written, ReplacePanelImageFile
      <4> QED BY <4>1, <4>2, <1>3 DEF PanelImage
    <3> QED BY <2>1, <3>1, <3>2
  <2> QED BY <2>2, <1>2, <1>x DEF Live
<1>4. CASE \E f \in FileIds : Live(f) /\ row[f].key = k
  <2>1. PICK f \in FileIds : Live(f) /\ row[f].key = k BY <1>4
  <2>2. CASE f # g BY <2>1, <2>2, <1>x DEF Live
  <2>3. CASE f = g /\ k # op[c].old
    BY <2>1, <2>3, <1>1, <1>a DEF Overwritten
  <2>4. CASE f = g /\ k = op[c].old
    <3>1. CASE AnswerLost(c) BY <2>4, <3>1, <1>a DEF AnswerLost
    <3>2. CASE WriteRow(c) /\ op[c].kind # "upload"
      <4>1. op'[c] = [op[c] EXCEPT !.at = "drop"] /\ op[c] \in Op
        BY <3>2, <1>a DEF WriteRow, Go
      <4>2. op'[c].at = "drop" /\ op'[c].old = k BY <4>1, <2>4 DEF Op
      <4> QED BY <4>2 DEF InHand
    <3>3. CASE WriteRow(c) /\ op[c].kind = "upload"
      <4>1. op[c].old = 0 BY <3>3 DEF Inv, Shape
      <4> QED BY <4>1, <2>4, <1>a
    <3> QED BY <3>1, <3>2, <3>3
  <2> QED BY <2>2, <2>3, <2>4
<1>5. CASE \E d \in Clients : k \in InHand(d)
  <2>1. PICK d \in Clients : k \in InHand(d) BY <1>5
  <2>2. CASE d = c BY <2>1, <2>2, <1>1, <1>3 DEF InHand
  <2>3. CASE d # c BY <2>1, <2>3, <1>b DEF InHand
  <2> QED BY <2>2, <2>3
<1> QED BY <1>1, <1>4, <1>5

LEMMA NextKeepsAccounts ==
  Inv /\ ObjectsAccounted /\ [Next]_vars => ObjectsAccounted'
<1> SUFFICES ASSUME Inv, ObjectsAccounted, [Next]_vars PROVE ObjectsAccounted' OBVIOUS
<1>a. op \in [Clients -> Op] /\ objects \subseteq 1 .. lastKey /\ lastKey \in Nat
  BY DEF Inv, TypeOK
<1>1. ASSUME NEW c \in Clients, NEW f \in FileIds,
             \/ \E o \in Owners : ReadUploadImage(c, f, o) \/ ReadUploadAttachment(c, f, o)
             \/ ReadReplace(c, f)
             \/ ReadDeleteImage(c, f)
             \/ ReadDeleteAttachment(c, f)
      PROVE  ObjectsAccounted'
  <2>1. UNCHANGED <<row, objects, left>> /\ op[c] = Idle
    BY <1>1 DEF ReadUploadImage, ReadUploadAttachment, ReadOwner, ReadReplace,
                ReadDeleteImage, ReadDeleteAttachment
  <2>2. \A d \in Clients \ {c} : op'[d] = op[d]
    BY <1>1, <1>a DEF ReadUploadImage, ReadUploadAttachment, ReadOwner, ReadReplace,
                      ReadDeleteImage, ReadDeleteAttachment, ReadRow
  <2>3. InHand(c) = {} BY <2>1 DEF InHand, Idle
  <2> QED BY <2>1, <2>2, <2>3 DEF ObjectsAccounted, Live, InHand
<1>2. ASSUME NEW c \in Clients, Upload(c) PROVE ObjectsAccounted'
  <2>1. /\ UNCHANGED <<row, left>> /\ objects' = objects \union {lastKey + 1}
        /\ op[c].at = "put"
        /\ op' = [op EXCEPT ![c] = [op[c] EXCEPT !.at = "write", !.new = lastKey + 1]]
    BY <1>2, <1>a DEF Upload
  <2>2. op'[c].at = "write" /\ op'[c].new = lastKey + 1 BY <2>1, <1>a DEF Op
  <2>3. lastKey + 1 \in InHand(c)' BY <2>2 DEF InHand
  <2>4. \A d \in Clients \ {c} : op'[d] = op[d] BY <2>1, <1>a
  <2>5. InHand(c) = {} BY <2>1 DEF InHand
  <2> QED BY <2>1, <2>3, <2>4, <2>5 DEF ObjectsAccounted, Live, InHand
<1>3. ASSUME NEW c \in Clients, WriteRow(c) \/ AnswerLost(c) PROVE ObjectsAccounted'
  <2>1. objects' = objects BY <1>3 DEF WriteRow, AnswerLost
  <2> QED BY <1>3, <2>1, WritesAccount DEF ObjectsAccounted
<1>4. ASSUME NEW c \in Clients, WriteFails(c) PROVE ObjectsAccounted'
  <2>1. UNCHANGED <<row, objects, left>> /\ op[c].kind # "idle" /\ op[c].at = "write"
    BY <1>4 DEF WriteFails
  <2>2. \A d \in Clients \ {c} : op'[d] = op[d]
    BY <1>4, <1>a DEF WriteFails, Finish, Go
  <2>3. CASE op[c].kind = "delete"
    <3>1. InHand(c) = {0} BY <2>1, <2>3, KindOfRequest DEF InHand
    <3> QED BY <3>1, <2>1, <2>2, <1>a DEF ObjectsAccounted, Live, InHand
  <2>4. CASE op[c].kind # "delete"
    <3>1. op'[c] = [op[c] EXCEPT !.at = "undo"] BY <1>4, <2>4, <1>a DEF WriteFails, Go
    <3>2. op'[c].at = "undo" /\ op'[c].new = op[c].new BY <3>1, <1>a DEF Op
    <3>3. InHand(c)' = InHand(c) BY <3>2, <2>1 DEF InHand
    <3> QED BY <3>3, <2>1, <2>2 DEF ObjectsAccounted, Live, InHand
  <2> QED BY <2>3, <2>4
<1>5. ASSUME NEW c \in Clients, DeleteObject(c) PROVE ObjectsAccounted'
  <2>1. UNCHANGED <<row, left>> /\ objects' = objects \ InHand(c)
    BY <1>5 DEF DeleteObject, Doomed
  <2>2. \A d \in Clients \ {c} : op'[d] = op[d] BY <1>5, <1>a DEF DeleteObject, Finish
  <2> QED BY <2>1, <2>2 DEF ObjectsAccounted, Live, InHand
<1>6. ASSUME NEW c \in Clients, Abandon(c) PROVE ObjectsAccounted'
  <2>1. UNCHANGED <<row, objects>> /\ left' = left \union (InHand(c) \ {0})
    BY <1>6 DEF Abandon
  <2>2. \A d \in Clients \ {c} : op'[d] = op[d] BY <1>6, <1>a DEF Abandon, Finish
  <2> QED BY <2>1, <2>2, <1>a DEF ObjectsAccounted, Live, InHand
<1>7. ASSUME NEW o \in Owners, DeleteOwner(o) PROVE ObjectsAccounted'
  BY <1>7 DEF DeleteOwner, ObjectsAccounted, Live, InHand
<1>8. CASE UNCHANGED vars BY <1>8 DEF vars, ObjectsAccounted, Live, InHand
<1> QED BY <1>1, <1>2, <1>3, <1>4, <1>5, <1>6, <1>7, <1>8 DEF Next

\* No object is forgotten: a row names it, a request has it in hand, or a fault or
\* a crossing request has left it behind.
THEOREM NothingForgotten == Spec => []ObjectsAccounted
<1>1. Init => ObjectsAccounted BY DEF Init, ObjectsAccounted
<1> QED BY InitInv, NextKeepsInv, <1>1, NextKeepsAccounts, PTL DEF Spec

-----------------------------------------------------------------------------
LEMMA NextKeepsOwners ==
  TypeOK /\ ImagesOwned /\ [Next]_vars => ImagesOwned'
<1> SUFFICES ASSUME TypeOK, ImagesOwned, [Next]_vars PROVE ImagesOwned' OBVIOUS
<1>a. /\ row \in [FileIds -> PanelImage \union {Unused, Deleted}]
      /\ owner \in [Owners -> {"LIVE", "DELETED"}]
      /\ Images \subseteq FileIds
  BY DEF TypeOK, FileIds
<1>1. ASSUME NEW c \in Clients, WriteRow(c) \/ AnswerLost(c) PROVE ImagesOwned'
  <2> DEFINE g == op[c].file
  <2>1. /\ Writable(c) /\ row' = [row EXCEPT ![g] = Written(c)] /\ owner' = owner
    BY <1>1 DEF WriteRow, AnswerLost
  <2>2. \A f \in FileIds : row'[f] = IF f = g THEN Written(c) ELSE row[f]
    BY <2>1, <1>a
  <2>3. ASSUME g \in Images, Written(c).state = "LIVE"
        PROVE  owner[Written(c).owner] = "LIVE"
    <3>1. CASE op[c].kind = "upload"
      <4>1. owner[op[c].owner] = "LIVE" BY <2>1, <2>3, <3>1 DEF Writable, OwnerAllows
      <4>2. Written(c) = [state |-> "LIVE", owner |-> op[c].owner, key |-> op[c].new]
        BY <2>3, <3>1, FilesAssumption DEF Written, CreatePanelImage, CreateAttachment
      <4> QED BY <4>1, <4>2
    <3>2. CASE op[c].kind = "replace"
      <4>1. Live(g) BY <2>1, <3>2 DEF Writable
      <4>2. row[g] \in PanelImage BY <4>1, <2>3, <1>a DEF Live, Unused, Deleted
      <4>3. Written(c) = [row[g] EXCEPT !.key = op[c].new]
        BY <3>2 DEF Written, ReplacePanelImageFile
      <4>4. Written(c).owner = row[g].owner BY <4>2, <4>3 DEF PanelImage
      <4> QED BY <4>1, <4>4, <2>3 DEF ImagesOwned
    <3>3. CASE op[c].kind \notin {"upload", "replace"}
      BY <2>3, <3>3 DEF Written, Deleted
    <3> QED BY <3>1, <3>2, <3>3
  <2> QED BY <2>1, <2>2, <2>3, <1>a DEF ImagesOwned, Live
<1>2. ASSUME NEW o \in Owners, DeleteOwner(o) PROVE ImagesOwned'
  BY <1>2, <1>a DEF DeleteOwner, ImagesOwned, Live
<1>3. CASE UNCHANGED <<owner, row>> BY <1>3 DEF ImagesOwned, Live
<1> QED
  BY <1>1, <1>2, <1>3 DEF Next, vars, ReadUploadImage, ReadUploadAttachment, ReadOwner,
     ReadReplace, ReadDeleteImage, ReadDeleteAttachment, Upload, WriteFails,
     DeleteObject, Abandon

\* An image never outlives its panel, however long its upload took.
THEOREM ImagesKeepTheirPanel == Spec => []ImagesOwned
<1>1. Init => ImagesOwned BY DEF Init, ImagesOwned, Live, Unused, FileIds
<1> QED BY FilesTypeCorrect, <1>1, NextKeepsOwners, PTL DEF Spec
=============================================================================
