------------------------------ MODULE Transfer ------------------------------
(***************************************************************************)
(* ArrayBuffers, the typed arrays over them and structuredClone            *)
(* (crates/syljs/src/transfer.rs).                                         *)
(*                                                                         *)
(* structured_clone hands out objects that hold a copy of the whole host   *)
(* (Rc::new(self.clone())), so from then on there are several tables of    *)
(* buffers: hosts[1] is the one behind the global constructors, every      *)
(* other one is such a copy.  Bytes are left out: lengths, detachment and  *)
(* the ids objects carry are what the operations decide on.                *)
(***************************************************************************)
EXTENDS Integers, Sequences, FiniteSets, FiniteSetsExt

CONSTANTS
  MaxBuffers,     \* bound: buffers in one table
  MaxHosts,       \* bound: copies of the host, the global one included
  MaxViews,       \* bound: typed arrays held at once
  Numbers,        \* the lengths, offsets and ends scripts pass
  ElementSizes    \* bytes per element of the kinds of typed array in use

ASSUME TransferAssumption ==
  /\ MaxBuffers \in Nat /\ MaxHosts \in Nat \ {0} /\ MaxViews \in Nat
  /\ Numbers \subseteq Nat
  /\ ElementSizes \subseteq Nat \ {0}

VARIABLES
  hosts,      \* the tables of buffers
  objects,    \* the ArrayBuffer objects scripts hold: a host and an id
  views       \* the typed arrays scripts hold, all over hosts[1]

transferVars == <<hosts, objects, views>>

HostId == 1 .. MaxHosts
BufferId == 1 .. MaxBuffers

(* BufferState; a detached one has given its bytes away. *)
BufferState == [bytes: Nat, allocated: Nat, detached: BOOLEAN]

(* ResearchTransferHost: ids count up from 1 and are never given again. *)
TransferHost == [buffers: Seq(BufferState)]

ArrayBuffer == [host: HostId, id: BufferId]
TypedArray == [size: ElementSizes, buffer: BufferId, offset: Nat, length: Nat]

Global == hosts[1]
Has(host, id) == id \in DOMAIN host.buffers
NextBuffer(host) == Len(host.buffers) + 1
HasRoom(host) == NextBuffer(host) \in BufferId

(* create_buffer *)
WithNewBuffer(host, length) ==
  [buffers |-> Append(host.buffers, [bytes |-> length, allocated |-> length, detached |-> FALSE])]

Detached(buffer) == [buffer EXCEPT !.bytes = 0, !.detached = TRUE]

CanCopy(host, id) == Has(host, id) /\ ~host.buffers[id].detached

(* copy_buffer(id, Clone) *)
Cloned(host, id) == WithNewBuffer(host, host.buffers[id].bytes)

(* Mutant of Transferred: the source keeps its bytes. *)
TransferredByCopy(host, id) == Cloned(host, id)

(* copy_buffer(id, Transfer): the same, and the source is detached. *)
Transferred(host, id) ==
  [Cloned(host, id) EXCEPT !.buffers[id] = Detached(@)]

-----------------------------------------------------------------------------
TransferInit ==
  /\ hosts = << [buffers |-> <<>>] >>
  /\ objects = {}
  /\ views = {}

(* new ArrayBuffer(length) *)
NewArrayBuffer(length) ==
  /\ HasRoom(Global)
  /\ hosts' = [hosts EXCEPT ![1] = WithNewBuffer(@, length)]
  /\ objects' = objects \cup {[host |-> 1, id |-> NextBuffer(Global)]}
  /\ UNCHANGED views

(* The number of elements a range given by a script selects: the end is    *)
(* cut to what there is.                                                   *)
Selected(start, end, available) ==
  LET last == Min({end, available}) IN IF last > start THEN last - start ELSE 0

(* buffer.slice(start, end): the new buffer is in the object's own host. *)
SliceArrayBuffer(object, start, end) ==
  LET host == hosts[object.host] IN
  /\ Has(host, object.id)
  /\ HasRoom(host)
  /\ hosts' = [hosts EXCEPT ![object.host] =
                 WithNewBuffer(@, Selected(start, end, host.buffers[object.id].bytes))]
  /\ objects' = objects \cup {[host |-> object.host, id |-> NextBuffer(host)]}
  /\ UNCHANGED views

Hold(view) == Cardinality(views) < MaxViews /\ views' = views \cup {view}

(* new Uint8Array(length) and its like *)
NewTypedArray(size, length) ==
  /\ HasRoom(Global)
  /\ hosts' = [hosts EXCEPT ![1] = WithNewBuffer(@, length * size)]
  /\ Hold([size |-> size, buffer |-> NextBuffer(Global), offset |-> 0, length |-> length])
  /\ UNCHANGED objects

(* new Uint8Array(buffer, offset, length): the id of any buffer is looked  *)
(* up in the global table; an id it does not have is an error.             *)
NewView(id, size, offset, length) ==
  /\ Has(Global, id)
  /\ Hold([size |-> size, buffer |-> id, offset |-> offset,
           length |-> Min({length, Selected(offset, Global.buffers[id].bytes,
                                            Global.buffers[id].bytes) \div size})])
  /\ UNCHANGED <<hosts, objects>>

(* view.buffer *)
BufferOfView(view) ==
  /\ objects' = objects \cup {[host |-> 1, id |-> view.buffer]}
  /\ UNCHANGED <<hosts, views>>

SubView(view, start, end) ==
  [view EXCEPT !.offset = @ + start * view.size, !.length = Selected(start, end, @)]

(* view.subarray(start, end): another view of the same bytes. *)
SubarrayOfView(view, start, end) ==
  /\ Hold(SubView(view, start, end))
  /\ UNCHANGED <<hosts, objects>>

(* view.slice(start, end): a copy. *)
SliceView(view, start, end) ==
  LET length == Selected(start, end, view.length) IN
  /\ HasRoom(Global)
  /\ hosts' = [hosts EXCEPT ![1] = WithNewBuffer(@, length * view.size)]
  /\ Hold([view EXCEPT !.buffer = NextBuffer(Global), !.offset = 0, !.length = length])
  /\ UNCHANGED objects

(* detach_buffer, called by embedders. *)
DetachBuffer(id) ==
  /\ CanCopy(Global, id)
  /\ hosts' = [hosts EXCEPT ![1].buffers[id] = Detached(@)]
  /\ UNCHANGED <<objects, views>>

(* The object structured_clone returns is backed by a copy of the host as  *)
(* it then is.                                                             *)
ReturnCopy(host) ==
  /\ Len(hosts) < MaxHosts
  /\ hosts' = Append([hosts EXCEPT ![1] = host], host)
  /\ objects' = objects \cup {[host |-> Len(hosts) + 1, id |-> Len(host.buffers)]}
  /\ UNCHANGED views

(* structuredClone of a buffer or a typed array that is not in the         *)
(* transfer list; of a detached one it is null.                            *)
StructuredClone(id) ==
  /\ CanCopy(Global, id)
  /\ HasRoom(Global)
  /\ ReturnCopy(Cloned(Global, id))

(* structuredClone(value, {transfer: [value]}) of a buffer that is still   *)
(* attached; what follows value in the list is not looked at.              *)
StructuredTransfer(id) ==
  /\ CanCopy(Global, id)
  /\ HasRoom(Global)
  /\ ReturnCopy(Transferred(Global, id))

(* A buffer in a transfer list that is not the value cloned, one for each  *)
(* that stands before value: it is transferred, and nobody gets its copy.  *)
TransferBeside(id) ==
  /\ CanCopy(Global, id)
  /\ HasRoom(Global)
  /\ hosts' = [hosts EXCEPT ![1] = Transferred(@, id)]
  /\ UNCHANGED <<objects, views>>

(* The ids scripts can name: those of the objects and views they hold. *)
KnownIds == {o.id : o \in objects} \cup {v.buffer : v \in views}

TransferNext ==
  \/ \E length \in Numbers : NewArrayBuffer(length)
  \/ \E object \in objects, start, end \in Numbers : SliceArrayBuffer(object, start, end)
  \/ \E size \in ElementSizes, length \in Numbers : NewTypedArray(size, length)
  \/ \E id \in KnownIds, size \in ElementSizes, offset, length \in Numbers :
       NewView(id, size, offset, length)
  \/ \E view \in views :
       \/ BufferOfView(view)
       \/ \E start, end \in Numbers : SubarrayOfView(view, start, end) \/ SliceView(view, start, end)
  \/ \E id \in BufferId : DetachBuffer(id)
  \/ \E id \in KnownIds : StructuredClone(id) \/ StructuredTransfer(id) \/ TransferBeside(id)

TransferSpec == TransferInit /\ [][TransferNext]_transferVars

-----------------------------------------------------------------------------
(* A typed array never reaches past the bytes its buffer was allocated     *)
(* with, however it was cut out of other arrays, slices and clones, and    *)
(* whoever detached or copied the buffer since.                            *)
ViewsFitTheirBuffer ==
  \A v \in views : /\ Has(Global, v.buffer)
                   /\ v.length > 0 =>
                        v.offset + v.length * v.size <= Global.buffers[v.buffer].allocated

(* The bytes attached to the buffers of a table, each byte a buffer and a  *)
(* place in it.                                                            *)
AttachedBytes(host) ==
  UNION {{id} \X (1 .. host.buffers[id].bytes) : id \in DOMAIN host.buffers}

LiveBytes(host) == Cardinality(AttachedBytes(host))

(* A transfer moves bytes: there are as many as before, in every table     *)
(* what was detached stays detached and empty, and what stays attached     *)
(* keeps its length under every operation.                                 *)
TransferMovesBytes ==
  [][/\ \A id \in KnownIds : StructuredTransfer(id) \/ TransferBeside(id) =>
          LiveBytes(hosts'[1]) = LiveBytes(Global)
     /\ \A h \in DOMAIN hosts : \A id \in DOMAIN hosts[h].buffers :
          LET before == hosts[h].buffers[id]
              after == hosts'[h].buffers[id] IN
          /\ before.detached => after.detached
          /\ after.bytes = IF after.detached THEN 0 ELSE before.bytes]_transferVars

(* Type invariant. *)
TransferTypeOK ==
  hosts \in Seq(TransferHost) /\ objects \subseteq ArrayBuffer /\ views \subseteq TypedArray

(* Buffers keep what is written in them through every copy, transfer and   *)
(* view of them (transfer.rs).                                             *)
BuffersKeepTheirBytes == TransferMovesBytes /\ [][TransferTypeOK' /\ ViewsFitTheirBuffer']_transferVars

(* "Transfer ownership and detach original" (transfer.rs:49): the object a *)
(* script transfers reports itself detached afterwards.                    *)
TransferDetachesOriginal ==
  [][\A o \in objects : StructuredTransfer(o.id) => hosts'[o.host].buffers[o.id].detached]_transferVars
=============================================================================
