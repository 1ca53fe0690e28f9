------------------------------- MODULE Files -------------------------------
(***************************************************************************)
(* Panel images and attachments: rows of the database that name objects of *)
(* an S3 bucket.                                                           *)
(*                                                                         *)
(* No transaction spans the two stores.  A request reads, puts its object, *)
(* writes its row and deletes what is no longer needed, in steps other     *)
(* requests come between; each step may fail, and a client that has gone   *)
(* ends the request where it is, since every call runs on the request's    *)
(* context.  Of a row only its owner and its key are kept.                 *)
(***************************************************************************)
EXTENDS Naturals, FiniteSets

CONSTANTS
    Images,         \* ids of rtu.panel_images, never used twice
    Attachments,    \* ids of rtu.attachments, never used twice
    Owners,         \* panels, and the records an attachment may belong to
    Clients,        \* concurrent HTTP requests
    MaxObjects      \* bound: objects put in one behaviour

ASSUME FilesAssumption ==
    /\ MaxObjects \in Nat
    /\ Images \intersect Attachments = {}
    /\ "NULL" \notin Owners \union Images \union Attachments

None == "NULL"

VARIABLES
    owner,      \* whether an owner's row exists
    row,        \* the rows of both tables, by id
    objects,    \* the keys the bucket holds
    lastKey,    \* keys handed out so far: a key ends in a new uuid
    op,         \* the requests in flight
    lost,       \* history: rows written by a statement that reported an error
    left        \* history: objects a fault or a crossing request left behind

vars == <<owner, row, objects, lastKey, op, lost, left>>

FileIds == Images \union Attachments
Keys == 1 .. MaxObjects

\* A row that was never written, and one that has been deleted.
Unused == [state |-> "UNUSED", owner |-> None, key |-> 0]
Deleted == [state |-> "DELETED", owner |-> None, key |-> 0]
PanelImage == [state : {"LIVE"}, owner : Owners, key : Keys]
Live(f) == row[f].state = "LIVE"

\* new: the object put by this request; old: the key it read from the row.
Idle == [kind |-> "idle", at |-> "start", file |-> None, owner |-> None,
         new |-> 0, old |-> 0]
Op == [kind : {"idle", "upload", "replace", "delete"},
       at : {"start", "put", "write", "undo", "drop"},
       file : FileIds \union {None}, owner : Owners \union {None},
       new : 0 .. MaxObjects, old : 0 .. MaxObjects]

Init ==
    /\ owner = [o \in Owners |-> "LIVE"]
    /\ row = [f \in FileIds |-> Unused]
    /\ objects = {}
    /\ lastKey = 0
    /\ op = [c \in Clients |-> Idle]
    /\ lost = {}
    /\ left = {}

Finish(c) == op' = [op EXCEPT ![c] = Idle]
Go(c, at) == op' = [op EXCEPT ![c].at = at]

\* The objects a request has in hand: its own until the row names it, then the
\* one the row named before.
InHand(c) ==
    CASE op[c].at \in {"write", "undo"} -> {op[c].new}
      [] op[c].at = "drop" -> {op[c].old}
      [] OTHER -> {}

-----------------------------------------------------------------------------
(* The reads that begin a request *)

ReadRow(c, kind, at, f) ==
    op' = [op EXCEPT ![c] = [kind |-> kind, at |-> at, file |-> f, owner |-> None,
                             new |-> 0, old |-> row[f].key]]

\* An upload asks whether the owner exists; the row's id is new.
ReadOwner(c, f, o) ==
    /\ op[c] = Idle
    /\ row[f] = Unused
    /\ \A d \in Clients : op[d].file # f
    /\ owner[o] = "LIVE"
    /\ op' = [op EXCEPT ![c] = [Idle EXCEPT !.kind = "upload", !.at = "put",
                                            !.file = f, !.owner = o]]
    /\ UNCHANGED <<owner, row, objects, lastKey, lost, left>>

ReadUploadImage(c, f, o) == f \in Images /\ ReadOwner(c, f, o)
ReadUploadAttachment(c, f, o) == f \in Attachments /\ ReadOwner(c, f, o)

\* A replacement, of an image only, and a deletion keep the key they read.
ReadReplace(c, f) ==
    /\ op[c] = Idle
    /\ f \in Images
    /\ Live(f)
    /\ ReadRow(c, "replace", "put", f)
    /\ UNCHANGED <<owner, row, objects, lastKey, lost, left>>

ReadDeleteImage(c, f) ==
    /\ op[c] = Idle
    /\ f \in Images
    /\ Live(f)
    /\ ReadRow(c, "delete", "write", f)
    /\ UNCHANGED <<owner, row, objects, lastKey, lost, left>>

ReadDeleteAttachment(c, f) ==
    /\ op[c] = Idle
    /\ f \in Attachments
    /\ Live(f)
    /\ ReadRow(c, "delete", "write", f)
    /\ UNCHANGED <<owner, row, objects, lastKey, lost, left>>

-----------------------------------------------------------------------------
(* The steps on the two stores *)

\* PutObject under a key nobody has used.
Upload(c) ==
    /\ op[c].at = "put"
    /\ lastKey < MaxObjects
    /\ lastKey' = lastKey + 1
    /\ objects' = objects \union {lastKey + 1}
    /\ op' = [op EXCEPT ![c].at = "write", ![c].new = lastKey + 1]
    /\ UNCHANGED <<owner, row, lost, left>>

\* Only panel_images has a foreign key to its owner.
OwnerUnchecked(f, o) == TRUE
OwnerAllows(f, o) == f \in Images => owner[o] = "LIVE"

WritableUnread(c) == op[c].kind = "upload" => OwnerAllows(op[c].file, op[c].owner)
Writable(c) ==
    CASE op[c].kind = "upload" -> OwnerAllows(op[c].file, op[c].owner)
      [] OTHER -> Live(op[c].file)

\* The row an INSERT leaves, and the UPDATE of a replacement, which does not look
\* at the key that was read; nor does a DELETE.
CreatePanelImage(o, key) == [state |-> "LIVE", owner |-> o, key |-> key]
CreateAttachment(o, key) == [state |-> "LIVE", owner |-> o, key |-> key]
ReplacePanelImageFile(f, key) == [row[f] EXCEPT !.key = key]

Written(c) ==
    CASE op[c].kind = "upload" /\ op[c].file \in Images ->
            CreatePanelImage(op[c].owner, op[c].new)
      [] op[c].kind = "upload" /\ op[c].file \in Attachments ->
            CreateAttachment(op[c].owner, op[c].new)
      [] op[c].kind = "replace" -> ReplacePanelImageFile(op[c].file, op[c].new)
      [] OTHER -> Deleted

\* The key the statement takes out of the row, when it is not the one that was
\* read, is nobody's from here on.
Overwritten(c) == {row[op[c].file].key} \ {0, op[c].old}

WriteRow(c) ==
    /\ op[c].kind # "idle"
    /\ op[c].at = "write"
    /\ Writable(c)
    /\ row' = [row EXCEPT ![op[c].file] = Written(c)]
    /\ left' = left \union Overwritten(c)
    /\ IF op[c].kind = "upload" THEN Finish(c) ELSE Go(c, "drop")
    /\ UNCHANGED <<owner, objects, lastKey, lost>>

\* The statement reports an error: a constraint, a row that is gone, a broken
\* connection.  An upload and a replacement then delete the object they put.
WriteFailsAndKeeps(c) ==
    /\ op[c].kind # "idle"
    /\ op[c].at = "write"
    /\ Finish(c)
    /\ UNCHANGED <<owner, row, objects, lastKey, lost, left>>
WriteFails(c) ==
    /\ op[c].kind # "idle"
    /\ op[c].at = "write"
    /\ IF op[c].kind = "delete" THEN Finish(c) ELSE Go(c, "undo")
    /\ UNCHANGED <<owner, row, objects, lastKey, lost, left>>

\* The connection breaks after the commit: the row is written, the request is
\* told it is not.
AnswerLost(c) ==
    /\ op[c].kind # "idle"
    /\ op[c].at = "write"
    /\ Writable(c)
    /\ row' = [row EXCEPT ![op[c].file] = Written(c)]
    /\ lost' = lost \union {op[c].file}
    /\ left' = left \union Overwritten(c) \union ({op[c].old} \ {0})
    /\ IF op[c].kind = "delete" THEN Finish(c) ELSE Go(c, "undo")
    /\ UNCHANGED <<owner, objects, lastKey>>

\* s3.Delete: of the new object after an error, of the old one after the row
\* has changed.  DeleteObject of a key that is gone succeeds.
DoomedNow(c) ==
    IF op[c].at = "drop" THEN {row[op[c].file].key} ELSE InHand(c)
Doomed(c) == InHand(c)

DeleteObject(c) ==
    /\ op[c].at \in {"undo", "drop"}
    /\ objects' = objects \ Doomed(c)
    /\ Finish(c)
    /\ UNCHANGED <<owner, row, lastKey, lost, left>>

\* S3 refuses, or the client is gone and every further call on its context
\* fails: the request ends with what it has in hand.
Abandon(c) ==
    /\ op[c] # Idle
    /\ left' = left \union (InHand(c) \ {0})
    /\ Finish(c)
    /\ UNCHANGED <<owner, row, objects, lastKey, lost>>

-----------------------------------------------------------------------------
\* The owner is deleted for good: an image forbids it, an attachment does not.
DeleteOwner(o) ==
    /\ owner[o] = "LIVE"
    /\ \A f \in Images : row[f].owner # o
    /\ owner' = [owner EXCEPT ![o] = "DELETED"]
    /\ UNCHANGED <<row, objects, lastKey, op, lost, left>>

Next ==
    \/ \E c \in Clients, f \in FileIds, o \in Owners : ReadUploadImage(c, f, o)
    \/ \E c \in Clients, f \in FileIds, o \in Owners : ReadUploadAttachment(c, f, o)
    \/ \E c \in Clients, f \in FileIds : ReadReplace(c, f)
    \/ \E c \in Clients, f \in FileIds : ReadDeleteImage(c, f)
    \/ \E c \in Clients, f \in FileIds : ReadDeleteAttachment(c, f)
    \/ \E c \in Clients : Upload(c)
    \/ \E c \in Clients : WriteRow(c)
    \/ \E c \in Clients : WriteFails(c)
    \/ \E c \in Clients : AnswerLost(c)
    \/ \E c \in Clients : DeleteObject(c)
    \/ \E c \in Clients : Abandon(c)
    \/ \E o \in Owners : DeleteOwner(o)

Spec == Init /\ [][Next]_vars

-----------------------------------------------------------------------------
(* Properties *)

\* Rows, objects and requests stay in their domains, and no key is used that was
\* not handed out.
TypeOK ==
    /\ owner \in [Owners -> {"LIVE", "DELETED"}]
    /\ row \in [FileIds -> PanelImage \union {Unused, Deleted}]
    /\ objects \subseteq 1 .. lastKey
    /\ lastKey \in 0 .. MaxObjects
    /\ op \in [Clients -> Op]
    /\ lost \subseteq FileIds
    /\ left \subseteq Keys

\* panel_image.go:141: "upload new, update DB, delete old S3 object".  In this
\* order, and however requests on one row cross, a row always names an object
\* that exists: a link handed to a client works.  The one exception is a row
\* whose write was reported as an error.
RowHasObject ==
    \A f \in FileIds : Live(f) => row[f].key \in objects \/ f \in lost

\* Every object is named by a row, in the hands of a request that will delete it
\* or write it, or was left behind by a fault or a crossing request.
ObjectsAccounted ==
    \A k \in objects :
        \/ \E f \in FileIds : Live(f) /\ row[f].key = k
        \/ \E c \in Clients : k \in InHand(c)
        \/ k \in left

\* An image never outlives its panel, however long its upload took.
ImagesOwned ==
    \A f \in Images : Live(f) => owner[row[f].owner] = "LIVE"
=============================================================================
