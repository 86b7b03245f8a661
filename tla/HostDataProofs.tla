--------------------------- MODULE HostDataProofs ---------------------------
(***************************************************************************)
(* What holds of the data that scripts hand from one host to another, for  *)
(* every number of buffers, views, elements, workers and messages.         *)
(***************************************************************************)
EXTENDS Transfer, Workers, MediaElements, CollectionsProofs

-----------------------------------------------------------------------------
(* Transfer                                                                *)

Buffers == {b \in BufferState : b.bytes <= b.allocated /\ (b.detached => b.bytes = 0)}

GoodHost(host) ==
  /\ host \in TransferHost /\ host.buffers \in Seq(Buffers)
  /\ Len(host.buffers) <= MaxBuffers

\* What an operation may do to a table: more buffers, and buffers detached.
Evolves(host, later) ==
  /\ Len(host.buffers) <= Len(later.buffers)
  /\ \A id \in 1 .. Len(host.buffers) :
       LET before == host.buffers[id]
           after == later.buffers[id] IN
       /\ before.detached => after.detached
       /\ after.bytes = IF after.detached THEN 0 ELSE before.bytes
       /\ after.allocated = before.allocated

\* A view lies in the bytes its buffer was allocated with.
Fits(host, v) ==
  /\ v.buffer \in 1 .. Len(host.buffers)
  /\ v.length > 0 => v.offset + v.length * v.size <= host.buffers[v.buffer].allocated

HostsOK ==
  /\ Len(hosts) \in 1 .. MaxHosts
  /\ DOMAIN hosts = 1 .. Len(hosts)
  /\ hosts \in Seq(TransferHost)
  /\ \A h \in 1 .. Len(hosts) : GoodHost(hosts[h])

ViewsOK == \A v \in views : v \in TypedArray /\ Fits(Global, v)

ObjectsOK == \A o \in objects : o \in ArrayBuffer /\ o.host \in 1 .. Len(hosts)

TransferInv == HostsOK /\ ViewsOK /\ ObjectsOK

LEMMA GoodHostFacts ==
  ASSUME NEW host, GoodHost(host)
  PROVE  /\ DOMAIN host.buffers = 1 .. Len(host.buffers)
         /\ Len(host.buffers) \in Nat /\ Len(host.buffers) <= MaxBuffers
         /\ host = [buffers |-> host.buffers] /\ host.buffers \in Seq(Buffers)
         /\ \A id \in 1 .. Len(host.buffers) :
              /\ host.buffers[id] \in Buffers /\ host.buffers[id] \in BufferState
              /\ host.buffers[id].bytes \in Nat /\ host.buffers[id].allocated \in Nat
              /\ host.buffers[id].detached \in BOOLEAN
              /\ host.buffers[id].bytes <= host.buffers[id].allocated
              /\ host.buffers[id].detached => host.buffers[id].bytes = 0
<1>1. host.buffers \in Seq(Buffers) /\ host \in TransferHost /\ Len(host.buffers) <= MaxBuffers
  BY DEF GoodHost
<1> DEFINE table == host.buffers
<1>2. /\ DOMAIN table = 1 .. Len(table) /\ Len(table) \in Nat
      /\ \A id \in 1 .. Len(table) : table[id] \in Buffers
  <2> HIDE DEF table
  <2>1. table \in Seq(Buffers)
    BY <1>1 DEF table
  <2> QED
    BY <2>1, LenProperties, ElementOfSeq
<1>3. \A b \in Buffers : /\ b \in BufferState /\ b.bytes \in Nat /\ b.allocated \in Nat
                         /\ b.detached \in BOOLEAN /\ b.bytes <= b.allocated
                         /\ b.detached => b.bytes = 0
  BY DEF Buffers, BufferState
<1>4. host = [buffers |-> host.buffers]
  BY <1>1 DEF TransferHost
<1> QED
  BY <1>1, <1>2, <1>3, <1>4

LEMMA MakeHost ==
  ASSUME NEW seq \in Seq(Buffers), Len(seq) <= MaxBuffers
  PROVE  GoodHost([buffers |-> seq])
<1>1. Buffers \subseteq BufferState
  BY DEF Buffers
<1>2. seq \in Seq(BufferState)
  BY <1>1, SeqMonotonic
<1> QED
  BY <1>2 DEF GoodHost, TransferHost

LEMMA EvolvesOrders ==
  ASSUME NEW a, NEW b, NEW c, GoodHost(a), GoodHost(b), GoodHost(c)
  PROVE  Evolves(a, a) /\ (Evolves(a, b) /\ Evolves(b, c) => Evolves(a, c))
<1>1. Evolves(a, a)
  BY GoodHostFacts DEF Evolves
<1>2. ASSUME Evolves(a, b), Evolves(b, c) PROVE Evolves(a, c)
  <2>1. /\ Len(a.buffers) \in Nat /\ Len(b.buffers) \in Nat /\ Len(c.buffers) \in Nat
        /\ Len(a.buffers) <= Len(b.buffers) /\ Len(b.buffers) <= Len(c.buffers)
    BY <1>2, GoodHostFacts DEF Evolves
  <2>2. ASSUME NEW id \in 1 .. Len(a.buffers)
        PROVE  /\ a.buffers[id].detached => c.buffers[id].detached
               /\ c.buffers[id].bytes = IF c.buffers[id].detached THEN 0 ELSE a.buffers[id].bytes
               /\ c.buffers[id].allocated = a.buffers[id].allocated
    BY <1>2, <2>1 DEF Evolves
  <2> QED
    BY <2>1, <2>2 DEF Evolves
<1> QED
  BY <1>1, <1>2

\* create_buffer
LEMMA NewBufferFacts ==
  ASSUME NEW host, GoodHost(host), HasRoom(host), NEW length \in Nat
  PROVE  LET later == WithNewBuffer(host, length)
             n == Len(host.buffers)
         IN  /\ GoodHost(later) /\ Evolves(host, later)
             /\ Len(later.buffers) = n + 1 /\ NextBuffer(host) = n + 1
             /\ n + 1 \in BufferId
             /\ \A id \in 1 .. n : later.buffers[id] = host.buffers[id]
             /\ later.buffers[n + 1].bytes = length /\ later.buffers[n + 1].allocated = length
             /\ later.buffers[n + 1].detached = FALSE
<1> DEFINE new == [bytes |-> length, allocated |-> length, detached |-> FALSE]
           table == host.buffers
           seq == Append(table, new)
           n == Len(table)
           later == WithNewBuffer(host, length)
<1>1. new \in Buffers /\ new.bytes = length /\ new.allocated = length /\ new.detached = FALSE
  BY DEF Buffers, BufferState
<1>2. later = [buffers |-> seq]
  BY DEF WithNewBuffer
<1>3. /\ table \in Seq(Buffers) /\ n \in Nat
      /\ \A id \in 1 .. n : /\ table[id].bytes \in Nat /\ table[id].detached \in BOOLEAN
                            /\ table[id].detached => table[id].bytes = 0
  BY GoodHostFacts
<1> HIDE DEF new
<1>4. n + 1 \in BufferId /\ n + 1 <= MaxBuffers /\ NextBuffer(host) = n + 1
  BY <1>3, TransferAssumption DEF HasRoom, NextBuffer, BufferId
<1> HIDE DEF table
<1>5. /\ seq \in Seq(Buffers) /\ Len(seq) = n + 1 /\ seq[n + 1] = new
      /\ \A id \in 1 .. n : seq[id] = table[id]
  BY <1>1, <1>3, AppendProperties
<1> HIDE DEF seq
<1>6. GoodHost(later) /\ later.buffers = seq
  BY <1>2, <1>4, <1>5, MakeHost
<1> HIDE DEF later
<1>7. Evolves(host, later)
  BY <1>3, <1>5, <1>6 DEF Evolves, table
<1> QED
  BY <1>1, <1>4, <1>5, <1>6, <1>7 DEF later, table

\* detach_buffer
LEMMA DetachFacts ==
  ASSUME NEW host, GoodHost(host), NEW id \in 1 .. Len(host.buffers)
  PROVE  LET later == [host EXCEPT !.buffers[id] = Detached(@)]
         IN  /\ GoodHost(later) /\ Evolves(host, later)
             /\ Len(later.buffers) = Len(host.buffers)
             /\ later.buffers[id].bytes = 0
             /\ \A other \in 1 .. Len(host.buffers) : other # id =>
                  later.buffers[other] = host.buffers[other]
<1> DEFINE table == host.buffers
           gone == Detached(table[id])
           seq == [table EXCEPT ![id] = gone]
           later == [host EXCEPT !.buffers[id] = Detached(@)]
           n == Len(table)
<1>1. /\ table \in Seq(Buffers) /\ n \in Nat /\ n <= MaxBuffers /\ DOMAIN table = 1 .. n
      /\ host = [buffers |-> table]
      /\ \A x \in 1 .. n : /\ table[x] \in Buffers /\ table[x] \in BufferState
                           /\ table[x].bytes \in Nat /\ table[x].detached \in BOOLEAN
                           /\ table[x].detached => table[x].bytes = 0
  BY GoodHostFacts
<1>2. /\ gone \in Buffers /\ gone.bytes = 0 /\ gone.detached = TRUE
      /\ gone.allocated = table[id].allocated
  <2> DEFINE b == table[id]
  <2>1. b \in [bytes : Nat, allocated : Nat, detached : BOOLEAN]
    BY <1>1 DEF BufferState
  <2> HIDE DEF b, table
  <2>2. Detached(b) = [bytes |-> 0, allocated |-> b.allocated, detached |-> TRUE]
    <3> DEFINE less == [b EXCEPT !.bytes = 0]
    <3>1. less \in [bytes : Nat, allocated : Nat, detached : BOOLEAN]
      BY <2>1
    <3>2. less.bytes = 0 /\ less.allocated = b.allocated
      BY <2>1
    <3>3. Detached(b) = [less EXCEPT !.detached = TRUE]
      BY <2>1 DEF Detached
    <3> HIDE DEF less
    <3> QED
      BY <3>1, <3>2, <3>3
  <2>3. /\ Detached(b) \in Buffers /\ Detached(b).bytes = 0 /\ Detached(b).detached = TRUE
        /\ Detached(b).allocated = b.allocated
    BY <2>1, <2>2 DEF Buffers, BufferState
  <2> QED
    BY <2>3 DEF b
<1>3. later = [buffers |-> seq]
  BY <1>1
<1> HIDE DEF table, gone
<1>4. /\ seq \in Seq(Buffers) /\ Len(seq) = n /\ seq[id] = gone
      /\ \A x \in 1 .. n : x # id => seq[x] = table[x]
  BY <1>1, <1>2, ExceptSeq DEF table
<1> HIDE DEF seq
<1>5. GoodHost(later) /\ later.buffers = seq
  BY <1>1, <1>3, <1>4, MakeHost
<1> HIDE DEF later
<1>6. Evolves(host, later)
  BY <1>1, <1>2, <1>4, <1>5 DEF Evolves, table
<1> QED
  BY <1>2, <1>4, <1>5, <1>6 DEF later, table

\* copy_buffer in transfer mode: the copy has the bytes, the source none.
LEMMA TransferredFacts ==
  ASSUME NEW host, GoodHost(host), HasRoom(host), NEW id \in 1 .. Len(host.buffers),
         ~host.buffers[id].detached
  PROVE  LET later == Transferred(host, id)
             n == Len(host.buffers)
         IN  /\ GoodHost(later) /\ Evolves(host, later) /\ Len(later.buffers) = n + 1
             /\ n + 1 \in BufferId
             /\ later.buffers[id].bytes = 0
             /\ later.buffers[n + 1].bytes = host.buffers[id].bytes
             /\ \A other \in 1 .. n : other # id => later.buffers[other] = host.buffers[other]
<1> DEFINE length == host.buffers[id].bytes
           copied == WithNewBuffer(host, length)
           n == Len(host.buffers)
           later == Transferred(host, id)
<1>1. length \in Nat /\ n \in Nat
  BY GoodHostFacts
<1> HIDE DEF length, n
<1>2. /\ GoodHost(copied) /\ Evolves(host, copied) /\ Len(copied.buffers) = n + 1
      /\ n + 1 \in BufferId
      /\ \A x \in 1 .. n : copied.buffers[x] = host.buffers[x]
      /\ copied.buffers[n + 1].bytes = length
  BY <1>1, NewBufferFacts DEF n
<1>3. later = [copied EXCEPT !.buffers[id] = Detached(@)]
  BY DEF Transferred, Cloned, length
<1> HIDE DEF copied
<1>4. id \in 1 .. n /\ id \in 1 .. Len(copied.buffers) /\ id # n + 1
      /\ n + 1 \in 1 .. Len(copied.buffers)
  BY <1>1, <1>2 DEF n
<1>5. /\ GoodHost(later) /\ Evolves(copied, later)
      /\ Len(later.buffers) = Len(copied.buffers) /\ later.buffers[id].bytes = 0
      /\ \A other \in 1 .. Len(copied.buffers) : other # id =>
           later.buffers[other] = copied.buffers[other]
  <2> DEFINE detached == [copied EXCEPT !.buffers[id] = Detached(@)]
  <2>1. /\ GoodHost(detached) /\ Evolves(copied, detached)
        /\ Len(detached.buffers) = Len(copied.buffers) /\ detached.buffers[id].bytes = 0
        /\ \A other \in 1 .. Len(copied.buffers) : other # id =>
             detached.buffers[other] = copied.buffers[other]
    BY <1>2, <1>4, DetachFacts
  <2>2. later = detached
    BY <1>3
  <2> HIDE DEF later, detached
  <2> QED
    BY <2>1, <2>2
<1> HIDE DEF later
<1>6. Evolves(host, later)
  BY <1>2, <1>5, EvolvesOrders
<1>7. /\ later.buffers[n + 1].bytes = length
      /\ \A other \in 1 .. n : other # id => later.buffers[other] = host.buffers[other]
  BY <1>1, <1>2, <1>4, <1>5
<1> QED
  BY <1>2, <1>5, <1>6, <1>7 DEF later, n, length

\* A transfer moves the bytes of one buffer to a new one.
LEMMA TransferredMoves ==
  ASSUME NEW host, GoodHost(host), HasRoom(host), NEW id \in 1 .. Len(host.buffers),
         ~host.buffers[id].detached
  PROVE  LiveBytes(Transferred(host, id)) = LiveBytes(host)
<1> DEFINE later == Transferred(host, id)
           n == Len(host.buffers)
           Of(h, x) == {x} \X (1 .. h.buffers[x].bytes)
           before == UNION {Of(host, x) : x \in 1 .. n}
           after == UNION {Of(later, x) : x \in 1 .. n + 1}
           moved == [p \in before |-> IF p[1] = id THEN <<n + 1, p[2]>> ELSE p]
<1>1. /\ GoodHost(later) /\ Len(later.buffers) = n + 1
      /\ later.buffers[id].bytes = 0
      /\ later.buffers[n + 1].bytes = host.buffers[id].bytes
      /\ \A other \in 1 .. n : other # id => later.buffers[other] = host.buffers[other]
  BY TransferredFacts
<1>2. /\ n \in Nat /\ DOMAIN host.buffers = 1 .. n /\ id \in 1 .. n
      /\ DOMAIN later.buffers = 1 .. n + 1
      /\ \A x \in 1 .. n : host.buffers[x].bytes \in Nat
  BY <1>1, GoodHostFacts
<1>3. LiveBytes(host) = Cardinality(before) /\ LiveBytes(later) = Cardinality(after)
  BY <1>2 DEF LiveBytes, AttachedBytes
<1> HIDE DEF later, n
<1>4. IsFiniteSet(before)
  <2> DEFINE parts == {Of(host, x) : x \in 1 .. n}
  <2>1. \A T \in parts : IsFiniteSet(T)
    <3> SUFFICES ASSUME NEW x \in 1 .. n PROVE IsFiniteSet(Of(host, x))
      OBVIOUS
    <3>1. IsFiniteSet({x}) /\ IsFiniteSet(1 .. host.buffers[x].bytes)
      <4> DEFINE k == host.buffers[x].bytes
      <4>1. k \in Int /\ 1 \in Int
        BY <1>2
      <4> HIDE DEF k
      <4>2. IsFiniteSet(1 .. k)
        BY <4>1, FS_Interval
      <4> QED
        BY <4>2, FS_Singleton DEF k
    <3> QED
      BY <3>1, FS_Product
  <2>2. IsFiniteSet(parts)
    <3> DEFINE f == [x \in 1 .. n |-> Of(host, x)]
    <3>1. f \in Surjection(1 .. n, parts)
      BY DEF Surjection
    <3>2. IsFiniteSet(1 .. n)
      BY <1>2, FS_Interval
    <3> HIDE DEF f, parts
    <3> QED
      BY <3>1, <3>2, FS_Surjection
  <2> HIDE DEF parts
  <2>3. IsFiniteSet(UNION parts)
    BY <2>1, <2>2, FS_UNION
  <2> QED
    BY <2>3 DEF parts
<1>5. \A p : p \in before <=> \E x \in 1 .. n : \E b \in 1 .. host.buffers[x].bytes : p = <<x, b>>
  OBVIOUS
<1>6. \A p : p \in after <=> \E x \in 1 .. n + 1 : \E b \in 1 .. later.buffers[x].bytes : p = <<x, b>>
  OBVIOUS
<1> HIDE DEF before, after
<1>7. \A p \in before : moved[p] \in after
  <2> SUFFICES ASSUME NEW p \in before PROVE moved[p] \in after
    OBVIOUS
  <2>1. PICK x \in 1 .. n : \E b \in 1 .. host.buffers[x].bytes : p = <<x, b>>
    BY <1>5
  <2>2. PICK b \in 1 .. host.buffers[x].bytes : p = <<x, b>>
    BY <2>1
  <2>3. p[1] = x /\ p[2] = b
    BY <2>2
  <2>4. CASE x = id
    BY <1>1, <1>2, <1>6, <2>2, <2>3, <2>4
  <2>5. CASE x # id
    BY <1>1, <1>2, <1>6, <2>2, <2>3, <2>5
  <2> QED
    BY <2>4, <2>5
<1>8. \A p, q \in before : moved[p] = moved[q] => p = q
  <2> SUFFICES ASSUME NEW p \in before, NEW q \in before, moved[p] = moved[q] PROVE p = q
    OBVIOUS
  <2>1. PICK x \in 1 .. n : \E b \in 1 .. host.buffers[x].bytes : p = <<x, b>>
    BY <1>5
  <2>2. PICK b \in 1 .. host.buffers[x].bytes : p = <<x, b>>
    BY <2>1
  <2>3. PICK y \in 1 .. n : \E c \in 1 .. host.buffers[y].bytes : q = <<y, c>>
    BY <1>5
  <2>4. PICK c \in 1 .. host.buffers[y].bytes : q = <<y, c>>
    BY <2>3
  <2>5. /\ moved[p] = IF x = id THEN <<n + 1, b>> ELSE <<x, b>>
        /\ moved[q] = IF y = id THEN <<n + 1, c>> ELSE <<y, c>>
    BY <2>2, <2>4
  <2>6. x # n + 1 /\ y # n + 1
    BY <1>2
  <2>7. x = y /\ b = c
    BY <2>5, <2>6
  <2> QED
    BY <2>2, <2>4, <2>7
<1>9. \A q \in after : \E p \in before : moved[p] = q
  <2> SUFFICES ASSUME NEW q \in after PROVE \E p \in before : moved[p] = q
    OBVIOUS
  <2>1. PICK y \in 1 .. n + 1 : \E c \in 1 .. later.buffers[y].bytes : q = <<y, c>>
    BY <1>6
  <2>2. PICK c \in 1 .. later.buffers[y].bytes : q = <<y, c>>
    BY <2>1
  <2>3. CASE y = n + 1
    <3>1. c \in 1 .. host.buffers[id].bytes
      BY <1>1, <2>2, <2>3
    <3>2. <<id, c>> \in before
      BY <1>2, <1>5, <3>1
    <3>3. moved[<<id, c>>] = q
      BY <2>2, <2>3, <3>2
    <3> QED
      BY <3>2, <3>3
  <2>4. CASE y # n + 1
    <3>1. y \in 1 .. n
      BY <1>2, <2>4
    <3>2. y # id
      <4>1. CASE y = id
        BY <1>1, <2>2, <4>1
      <4> QED
        BY <4>1
    <3>3. c \in 1 .. host.buffers[y].bytes
      BY <1>1, <2>2, <3>1, <3>2
    <3>4. q \in before
      BY <1>5, <2>2, <3>1, <3>3
    <3>5. moved[q] = q
      BY <2>2, <3>2, <3>4
    <3> QED
      BY <3>4, <3>5
  <2> QED
    BY <2>3, <2>4
<1>10. moved \in Bijection(before, after)
  <2>1. moved \in [before -> after]
    BY <1>7
  <2> HIDE DEF moved
  <2> QED
    BY <1>8, <1>9, <2>1 DEF Bijection, Injection, Surjection, IsInjective
<1> HIDE DEF moved
<1>11. Cardinality(before) = Cardinality(after)
  BY <1>4, <1>10, FS_Bijection DEF ExistsBijection
<1> QED
  BY <1>3, <1>11 DEF later

-----------------------------------------------------------------------------
(* Numbers                                                                 *)

LEMMA MinOfTwo ==
  ASSUME NEW a \in Int, NEW b \in Int
  PROVE  Min({a, b}) = IF a <= b THEN a ELSE b
<1> DEFINE m == IF a <= b THEN a ELSE b
<1>1. m \in {a, b} /\ \A y \in {a, b} : m <= y
  OBVIOUS
<1>2. \A x \in {a, b} : (\A y \in {a, b} : x <= y) => x = m
  OBVIOUS
<1> HIDE DEF m
<1>3. Min({a, b}) = CHOOSE x \in {a, b} : \A y \in {a, b} : x <= y
  BY DEF Min
<1>4. Min({a, b}) = m
  BY <1>1, <1>2, <1>3
<1> QED
  BY <1>4 DEF m

\* As many whole elements as fit, and no more.
LEMMA WholeElements ==
  ASSUME NEW n \in Nat, NEW size \in Nat \ {0}
  PROVE  n \div size \in Nat /\ (n \div size) * size <= n
<1>1. n \div size \in Int /\ n \div size >= 0
  OBVIOUS
<1>2. (n \div size) * size <= n
  OBVIOUS
<1> QED
  BY <1>1, <1>2

LEMMA FewerElements ==
  ASSUME NEW a \in Nat, NEW b \in Nat, NEW size \in Nat, a <= b
  PROVE  a * size \in Nat /\ a * size <= b * size /\ a * size + (b - a) * size = b * size
OBVIOUS

LEMMA SelectedFacts ==
  ASSUME NEW start \in Nat, NEW end \in Nat, NEW available \in Nat
  PROVE  LET n == Selected(start, end, available)
         IN  n \in Nat /\ (n > 0 => start + n <= available /\ start + n <= end)
BY MinOfTwo DEF Selected

-----------------------------------------------------------------------------
(* Steps of the transfer host                                              *)

\* Tables are added and evolve.
TablesEvolve ==
  /\ Len(hosts) <= Len(hosts')
  /\ \A h \in 1 .. Len(hosts) : Evolves(hosts[h], hosts'[h])

LEMMA SetHost ==
  ASSUME HostsOK, NEW h \in 1 .. Len(hosts), NEW host, GoodHost(host), Evolves(hosts[h], host),
         hosts' = [hosts EXCEPT ![h] = host]
  PROVE  HostsOK' /\ TablesEvolve /\ Len(hosts') = Len(hosts) /\ hosts'[h] = host
<1>1. hosts \in Seq(TransferHost) /\ host \in TransferHost
  BY DEF HostsOK, GoodHost
<1>2. /\ hosts' \in Seq(TransferHost) /\ Len(hosts') = Len(hosts) /\ hosts'[h] = host
      /\ \A k \in 1 .. Len(hosts) : k # h => hosts'[k] = hosts[k]
  BY <1>1, ExceptSeq
<1>3. DOMAIN hosts' = 1 .. Len(hosts')
  BY <1>2, LenProperties
<1>4. \A k \in 1 .. Len(hosts) : GoodHost(hosts[k])
  BY DEF HostsOK
<1>5. \A k \in 1 .. Len(hosts) : GoodHost(hosts'[k]) /\ Evolves(hosts[k], hosts'[k])
  BY <1>2, <1>4, EvolvesOrders
<1>6. HostsOK'
  BY <1>2, <1>3, <1>5 DEF HostsOK
<1>7. Len(hosts) \in Nat
  BY DEF HostsOK
<1>8. TablesEvolve
  BY <1>2, <1>5, <1>7 DEF TablesEvolve
<1> QED
  BY <1>2, <1>6, <1>8

LEMMA AddHost ==
  ASSUME HostsOK, NEW host, GoodHost(host), Evolves(Global, host), ReturnCopy(host)
  PROVE  HostsOK' /\ TablesEvolve /\ Len(hosts') = Len(hosts) + 1 /\ hosts'[1] = host
<1> DEFINE first == [hosts EXCEPT ![1] = host]
           n == Len(hosts)
<1>1. hosts \in Seq(TransferHost) /\ host \in TransferHost /\ n \in 1 .. MaxHosts /\ 1 \in 1 .. n
  BY DEF HostsOK, GoodHost
<1>2. hosts' = Append(first, host) /\ n < MaxHosts
  BY DEF ReturnCopy
<1>3. /\ first \in Seq(TransferHost) /\ Len(first) = n /\ first[1] = host
      /\ \A k \in 1 .. n : k # 1 => first[k] = hosts[k]
  BY <1>1, ExceptSeq
<1> HIDE DEF first
<1>4. /\ hosts' \in Seq(TransferHost) /\ Len(hosts') = n + 1 /\ hosts'[n + 1] = host
      /\ \A k \in 1 .. n : hosts'[k] = first[k]
  BY <1>1, <1>2, <1>3, AppendProperties
<1>5. DOMAIN hosts' = 1 .. Len(hosts')
  BY <1>4, LenProperties
<1>6. \A k \in 1 .. n : GoodHost(hosts[k])
  BY DEF HostsOK
<1>7. \A k \in 1 .. n : GoodHost(hosts'[k]) /\ Evolves(hosts[k], hosts'[k])
  BY <1>3, <1>4, <1>6, EvolvesOrders DEF Global
<1> HIDE DEF n
<1>8. HostsOK'
  <2>1. \A k \in 1 .. n + 1 : GoodHost(hosts'[k])
    BY <1>1, <1>4, <1>7
  <2>2. n + 1 \in 1 .. MaxHosts
    BY <1>1, <1>2, TransferAssumption
  <2> QED
    BY <1>4, <1>5, <2>1, <2>2 DEF HostsOK
<1>9. TablesEvolve
  BY <1>1, <1>4, <1>7 DEF TablesEvolve, n
<1> QED
  BY <1>1, <1>3, <1>4, <1>8, <1>9 DEF n

\* Views stay in their buffers while tables evolve.
LEMMA StepKeeps ==
  ASSUME TransferInv, HostsOK', TablesEvolve,
         \A o \in objects' : o \in objects \/ (o \in ArrayBuffer /\ o.host \in 1 .. Len(hosts')),
         \A v \in views' : v \in views \/ (v \in TypedArray /\ Fits(hosts'[1], v))
  PROVE  TransferInv'
<1>1. /\ Len(hosts) \in Nat /\ Len(hosts') \in Nat /\ Len(hosts) <= Len(hosts')
      /\ 1 \in 1 .. Len(hosts)
  BY DEF TransferInv, HostsOK, TablesEvolve
<1>2. ObjectsOK'
  BY <1>1 DEF TransferInv, ObjectsOK
<1>3. \A v \in views : v \in TypedArray /\ Fits(hosts'[1], v)
  <2> SUFFICES ASSUME NEW v \in views PROVE v \in TypedArray /\ Fits(hosts'[1], v)
    OBVIOUS
  <2>1. v \in TypedArray /\ Fits(Global, v)
    BY DEF TransferInv, ViewsOK
  <2>2. Evolves(Global, hosts'[1]) /\ GoodHost(Global) /\ GoodHost(hosts'[1])
    BY <1>1 DEF TablesEvolve, Global, TransferInv, HostsOK
  <2>3. v.buffer \in 1 .. Len(Global.buffers)
    BY <2>1 DEF Fits
  <2>4. /\ v.buffer \in 1 .. Len(hosts'[1].buffers)
        /\ hosts'[1].buffers[v.buffer].allocated = Global.buffers[v.buffer].allocated
    BY <2>2, <2>3, GoodHostFacts DEF Evolves
  <2> QED
    BY <2>1, <2>4 DEF Fits
<1>4. ViewsOK'
  BY <1>3 DEF ViewsOK, Global
<1> QED
  BY <1>2, <1>4 DEF TransferInv

-----------------------------------------------------------------------------
(* The operations of the transfer host                                     *)

\* What the inductive step needs of every operation.
StepIsSound == TransferInv' /\ TablesEvolve

LEMMA GlobalFacts ==
  ASSUME TransferInv
  PROVE  /\ GoodHost(Global) /\ 1 \in 1 .. Len(hosts) /\ Len(hosts) \in Nat
         /\ Len(hosts) <= MaxHosts /\ 1 \in HostId
         /\ DOMAIN Global.buffers = 1 .. Len(Global.buffers)
<1>1. GoodHost(Global) /\ 1 \in 1 .. Len(hosts) /\ Len(hosts) \in Nat /\ Len(hosts) <= MaxHosts
  BY TransferAssumption DEF TransferInv, HostsOK, Global
<1> QED
  BY <1>1, TransferAssumption, GoodHostFacts DEF HostId

\* An operation that leaves the tables alone.
LEMMA SameHosts ==
  ASSUME TransferInv, hosts' = hosts
  PROVE  HostsOK' /\ TablesEvolve
<1>1. HostsOK /\ Len(hosts) \in Nat
  BY DEF TransferInv, HostsOK
<1>2. HostsOK'
  BY <1>1 DEF HostsOK
<1>3. \A h \in 1 .. Len(hosts) : Evolves(hosts[h], hosts[h])
  BY <1>1, EvolvesOrders DEF HostsOK
<1> QED
  BY <1>1, <1>2, <1>3 DEF TablesEvolve

LEMMA NewArrayBufferIsSound ==
  ASSUME TransferInv, NEW length \in Numbers, NewArrayBuffer(length)
  PROVE  StepIsSound
<1>1. /\ HasRoom(Global) /\ hosts' = [hosts EXCEPT ![1] = WithNewBuffer(Global, length)]
      /\ objects' = objects \cup {[host |-> 1, id |-> NextBuffer(Global)]} /\ views' = views
  BY DEF NewArrayBuffer, Global
<1> DEFINE later == WithNewBuffer(Global, length)
<1>2. GoodHost(later) /\ Evolves(Global, later) /\ NextBuffer(Global) \in BufferId
  BY <1>1, TransferAssumption, GlobalFacts, NewBufferFacts
<1>3. hosts' = [hosts EXCEPT ![1] = later]
  BY <1>1
<1> HIDE DEF later
<1>4. HostsOK' /\ TablesEvolve /\ Len(hosts') = Len(hosts)
  BY <1>2, <1>3, GlobalFacts, SetHost DEF TransferInv, Global
<1>5. \A o \in objects' : o \in objects \/ (o \in ArrayBuffer /\ o.host \in 1 .. Len(hosts'))
  BY <1>1, <1>2, <1>4, GlobalFacts DEF ArrayBuffer
<1> QED
  BY <1>1, <1>4, <1>5, StepKeeps DEF StepIsSound

LEMMA SliceArrayBufferIsSound ==
  ASSUME TransferInv, NEW object \in objects, NEW start \in Numbers, NEW end \in Numbers,
         SliceArrayBuffer(object, start, end)
  PROVE  StepIsSound
<1> DEFINE h == object.host
           host == hosts[h]
           length == Selected(start, end, host.buffers[object.id].bytes)
           later == WithNewBuffer(host, length)
<1>1. /\ Has(host, object.id) /\ HasRoom(host) /\ hosts' = [hosts EXCEPT ![h] = later]
      /\ objects' = objects \cup {[host |-> h, id |-> NextBuffer(host)]} /\ views' = views
  BY DEF SliceArrayBuffer
<1>2. h \in 1 .. Len(hosts) /\ h \in HostId /\ GoodHost(host)
  BY DEF TransferInv, ObjectsOK, HostsOK, ArrayBuffer
<1>3. GoodHost(later) /\ Evolves(host, later) /\ NextBuffer(host) \in BufferId
  <2>1. length \in Nat
    BY <1>1, <1>2, TransferAssumption, GoodHostFacts, SelectedFacts DEF Has
  <2> HIDE DEF length, host
  <2> QED
    BY <1>1, <1>2, <2>1, NewBufferFacts
<1> HIDE DEF later
<1>4. HostsOK' /\ TablesEvolve /\ Len(hosts') = Len(hosts)
  <2>1. hosts' = [hosts EXCEPT ![h] = later] /\ Evolves(hosts[h], later) /\ HostsOK
    BY <1>1, <1>3 DEF TransferInv
  <2> HIDE DEF h
  <2> QED
    BY <1>2, <1>3, <2>1, SetHost
<1> HIDE DEF h, host
<1>5. \A o \in objects' : o \in objects \/ (o \in ArrayBuffer /\ o.host \in 1 .. Len(hosts'))
  BY <1>1, <1>2, <1>3, <1>4 DEF ArrayBuffer
<1> QED
  BY <1>1, <1>4, <1>5, StepKeeps DEF StepIsSound

\* A view of a whole new buffer.
LEMMA NewBufferAndView ==
  ASSUME TransferInv, HasRoom(Global), NEW size \in ElementSizes, NEW length \in Nat,
         hosts' = [hosts EXCEPT ![1] = WithNewBuffer(@, length * size)],
         Hold([size |-> size, buffer |-> NextBuffer(Global), offset |-> 0, length |-> length]),
         objects' = objects
  PROVE  StepIsSound
<1> DEFINE bytes == length * size
           later == WithNewBuffer(Global, bytes)
           view == [size |-> size, buffer |-> NextBuffer(Global), offset |-> 0, length |-> length]
<1>1. size \in Nat /\ bytes \in Nat /\ 0 + length * size = bytes
  BY TransferAssumption
<1>2. hosts' = [hosts EXCEPT ![1] = later]
  BY DEF Global
<1> HIDE DEF bytes
<1>3. /\ GoodHost(later) /\ Evolves(Global, later) /\ NextBuffer(Global) \in BufferId
      /\ NextBuffer(Global) = Len(Global.buffers) + 1 /\ Len(later.buffers) = Len(Global.buffers) + 1
      /\ later.buffers[Len(Global.buffers) + 1].allocated = bytes
  <2> DEFINE host == Global
             n == Len(host.buffers)
  <2>1. GoodHost(host) /\ HasRoom(host)
    BY GlobalFacts
  <2> HIDE DEF host
  <2>2. /\ GoodHost(later) /\ Evolves(host, later) /\ NextBuffer(host) = n + 1
        /\ n + 1 \in BufferId /\ Len(later.buffers) = n + 1
        /\ later.buffers[n + 1].allocated = bytes
    BY <1>1, <2>1, NewBufferFacts DEF host
  <2> QED
    BY <2>2 DEF host
<1> HIDE DEF later
<1>4. HostsOK' /\ TablesEvolve /\ Len(hosts') = Len(hosts) /\ hosts'[1] = later
  BY <1>2, <1>3, GlobalFacts, SetHost DEF TransferInv, Global
<1>5. view \in TypedArray /\ Fits(later, view)
  <2>1. view \in TypedArray
    BY <1>3 DEF TypedArray
  <2>2. view.buffer \in 1 .. Len(later.buffers)
    BY <1>3, GlobalFacts, GoodHostFacts
  <2>3. view.offset + view.length * view.size <= later.buffers[view.buffer].allocated
    BY <1>1, <1>3
  <2> QED
    BY <2>1, <2>2, <2>3 DEF Fits
<1>6. \A v \in views' : v \in views \/ (v \in TypedArray /\ Fits(hosts'[1], v))
  BY <1>4, <1>5 DEF Hold
<1> QED
  BY <1>4, <1>6, StepKeeps DEF StepIsSound

LEMMA NewTypedArrayIsSound ==
  ASSUME TransferInv, NEW size \in ElementSizes, NEW length \in Numbers,
         NewTypedArray(size, length)
  PROVE  StepIsSound
<1>1. length \in Nat
  BY TransferAssumption
<1> QED
  BY <1>1, NewBufferAndView DEF NewTypedArray

\* A view is its four fields: another range of it, a range of another buffer.
RangeOf(view, offset, length) == [view EXCEPT !.offset = offset, !.length = length]
RangeIn(view, buffer, offset, length) ==
  [view EXCEPT !.buffer = buffer, !.offset = offset, !.length = length]

LEMMA ViewFields ==
  ASSUME NEW view \in TypedArray, NEW buffer, NEW offset, NEW length
  PROVE  /\ RangeOf(view, offset, length)
              = [size |-> view.size, buffer |-> view.buffer, offset |-> offset, length |-> length]
         /\ RangeIn(view, buffer, offset, length)
              = [size |-> view.size, buffer |-> buffer, offset |-> offset, length |-> length]
<1>1. view = [size |-> view.size, buffer |-> view.buffer, offset |-> view.offset,
              length |-> view.length]
  BY DEF TypedArray
<1> DEFINE s == view.size
           b == view.buffer
           o == view.offset
           n == view.length
           moved == [size |-> s, buffer |-> b, offset |-> offset, length |-> n]
           other == [size |-> s, buffer |-> buffer, offset |-> o, length |-> n]
           both == [size |-> s, buffer |-> buffer, offset |-> offset, length |-> n]
<1>2. view = [size |-> s, buffer |-> b, offset |-> o, length |-> n]
  BY <1>1
<1> HIDE DEF s, b, o, n
<1>3. [view EXCEPT !.offset = offset] = moved /\ [view EXCEPT !.buffer = buffer] = other
  BY <1>2
<1>4. [other EXCEPT !.offset = offset] = both
  OBVIOUS
<1>5. /\ RangeOf(view, offset, length) = [moved EXCEPT !.length = length]
      /\ RangeIn(view, buffer, offset, length) = [both EXCEPT !.length = length]
  BY <1>3, <1>4 DEF RangeOf, RangeIn
<1>6. /\ [moved EXCEPT !.length = length]
           = [size |-> s, buffer |-> b, offset |-> offset, length |-> length]
      /\ [both EXCEPT !.length = length]
           = [size |-> s, buffer |-> buffer, offset |-> offset, length |-> length]
  OBVIOUS
<1> HIDE DEF moved, both
<1> QED
  BY <1>5, <1>6 DEF s, b

LEMMA SliceViewIsSound ==
  ASSUME TransferInv, NEW view \in views, NEW start \in Numbers, NEW end \in Numbers,
         SliceView(view, start, end)
  PROVE  StepIsSound
<1> DEFINE length == Selected(start, end, view.length)
<1>1. view \in TypedArray /\ view.size \in ElementSizes
  BY DEF TransferInv, ViewsOK, TypedArray
<1>2. length \in Nat
  BY <1>1, TransferAssumption, SelectedFacts DEF TypedArray
<1>3. /\ HasRoom(Global) /\ hosts' = [hosts EXCEPT ![1] = WithNewBuffer(@, length * view.size)]
      /\ Hold([view EXCEPT !.buffer = NextBuffer(Global), !.offset = 0, !.length = length])
      /\ objects' = objects
  BY DEF SliceView
<1> HIDE DEF length
<1>4. [view EXCEPT !.buffer = NextBuffer(Global), !.offset = 0, !.length = length]
        = [size |-> view.size, buffer |-> NextBuffer(Global), offset |-> 0, length |-> length]
  <2> DEFINE next == NextBuffer(Global)
             zero == 0
  <2> HIDE DEF next, zero
  <2>1. RangeIn(view, next, zero, length)
          = [size |-> view.size, buffer |-> next, offset |-> zero, length |-> length]
    BY <1>1, ViewFields
  <2> QED
    BY <2>1 DEF next, zero, RangeIn
<1>5. Hold([size |-> view.size, buffer |-> NextBuffer(Global), offset |-> 0, length |-> length])
  BY <1>3, <1>4
<1> QED
  BY <1>1, <1>2, <1>3, <1>5, NewBufferAndView

\* An operation that only makes a view, one that fits.
LEMMA NewViewFits ==
  ASSUME TransferInv, hosts' = hosts, objects' = objects,
         NEW view \in TypedArray, Fits(Global, view), Hold(view)
  PROVE  StepIsSound
<1>1. \A v \in views' : v \in views \/ (v \in TypedArray /\ Fits(hosts'[1], v))
  BY DEF Hold, Global
<1> QED
  BY <1>1, SameHosts, StepKeeps DEF StepIsSound

LEMMA NewViewIsSound ==
  ASSUME TransferInv, NEW id \in KnownIds, NEW size \in ElementSizes,
         NEW offset \in Numbers, NEW length \in Numbers, NewView(id, size, offset, length)
  PROVE  StepIsSound
<1> DEFINE b == Global.buffers[id]
           rest == Selected(offset, b.bytes, b.bytes)
           n == Min({length, rest \div size})
           view == [size |-> size, buffer |-> id, offset |-> offset, length |-> n]
<1>1. id \in 1 .. Len(Global.buffers) /\ Hold(view) /\ hosts' = hosts /\ objects' = objects
  BY GlobalFacts DEF NewView, Has
<1>2. offset \in Nat /\ length \in Nat /\ size \in Nat \ {0}
  BY TransferAssumption
<1>3. b.bytes \in Nat /\ b.allocated \in Nat /\ b.bytes <= b.allocated /\ id \in BufferId
  BY <1>1, GlobalFacts, GoodHostFacts, TransferAssumption DEF BufferId
<1> HIDE DEF b
<1>4. rest \in Nat /\ (rest > 0 => offset + rest <= b.bytes)
  BY <1>2, <1>3, SelectedFacts
<1> HIDE DEF rest
<1>5. n \in Nat /\ n <= rest \div size
  BY <1>2, <1>4, WholeElements, MinOfTwo
<1>6. n * size <= rest /\ n * size \in Nat
  <2>1. rest \div size \in Nat /\ (rest \div size) * size <= rest
    BY <1>2, <1>4, WholeElements
  <2> DEFINE q == rest \div size
  <2> HIDE DEF q, n
  <2>2. q \in Nat /\ n <= q /\ q * size <= rest /\ n \in Nat
    BY <1>5, <2>1 DEF q
  <2>3. n * size <= q * size /\ n * size \in Nat /\ q * size \in Nat
    BY <1>2, <2>2, FewerElements
  <2> QED
    BY <1>4, <2>2, <2>3
<1> HIDE DEF n
<1>7. n > 0 => rest > 0
  BY <1>2, <1>4, <1>5, <1>6
<1>8. n > 0 => offset + n * size <= b.allocated
  BY <1>2, <1>3, <1>4, <1>6, <1>7
<1>9. view \in TypedArray
  BY <1>2, <1>3, <1>5 DEF TypedArray
<1>10. Fits(Global, view)
  BY <1>1, <1>8 DEF Fits, b
<1> QED
  BY <1>1, <1>9, <1>10, NewViewFits

LEMMA SubarrayOfViewIsSound ==
  ASSUME TransferInv, NEW view \in views, NEW start \in Numbers, NEW end \in Numbers,
         SubarrayOfView(view, start, end)
  PROVE  StepIsSound
<1> DEFINE n == Selected(start, end, view.length)
           sub == SubView(view, start, end)
           allocated == Global.buffers[view.buffer].allocated
<1>1. view \in TypedArray /\ Fits(Global, view)
  BY DEF TransferInv, ViewsOK
<1>2. Hold(sub) /\ hosts' = hosts /\ objects' = objects
  BY DEF SubarrayOfView
<1>3. /\ start \in Nat /\ end \in Nat /\ view.length \in Nat /\ view.offset \in Nat
      /\ view.size \in Nat /\ view.size \in ElementSizes /\ view.buffer \in BufferId
  BY <1>1, TransferAssumption DEF TypedArray
<1>4. n \in Nat /\ (n > 0 => start + n <= view.length)
  BY <1>3, SelectedFacts
<1>5. sub = [size |-> view.size, buffer |-> view.buffer,
             offset |-> view.offset + start * view.size, length |-> n]
  <2> DEFINE from == view.offset + start * view.size
  <2>1. sub = RangeOf(view, from, n)
    BY <1>1 DEF SubView, TypedArray, RangeOf
  <2> HIDE DEF from, n, sub
  <2>2. RangeOf(view, from, n)
          = [size |-> view.size, buffer |-> view.buffer, offset |-> from, length |-> n]
    BY <1>1, ViewFields
  <2> QED
    BY <2>1, <2>2 DEF from
<1> HIDE DEF n
<1>6. start * view.size \in Nat
  BY <1>3
<1>7. sub \in TypedArray
  BY <1>3, <1>4, <1>5, <1>6 DEF TypedArray
<1>8. allocated \in Nat /\ view.buffer \in 1 .. Len(Global.buffers)
  BY <1>1, GlobalFacts, GoodHostFacts DEF Fits
<1>9. n > 0 => (view.offset + start * view.size) + n * view.size <= allocated
  <2> SUFFICES ASSUME n > 0
               PROVE  (view.offset + start * view.size) + n * view.size <= allocated
    OBVIOUS
  <2> DEFINE last == start + n
  <2>1. last \in Nat /\ start <= last /\ last <= view.length /\ last - start = n /\ view.length > 0
    BY <1>3, <1>4
  <2> HIDE DEF last
  <2>2. start * view.size + n * view.size = last * view.size
    BY <1>3, <2>1, FewerElements
  <2>3. last * view.size <= view.length * view.size
    BY <1>3, <2>1, FewerElements
  <2>4. view.offset + view.length * view.size <= allocated
    BY <1>1, <2>1 DEF Fits
  <2>5. /\ n * view.size \in Nat /\ last * view.size \in Nat /\ view.length * view.size \in Nat
    BY <1>3, <1>4, <2>1
  <2> DEFINE before == start * view.size
             taken == n * view.size
             upto == last * view.size
             all == view.length * view.size
  <2>6. /\ before \in Nat /\ taken \in Nat /\ upto \in Nat /\ all \in Nat
        /\ before + taken = upto /\ upto <= all /\ view.offset + all <= allocated
    BY <1>6, <2>2, <2>3, <2>4, <2>5
  <2> HIDE DEF before, taken, upto, all, allocated
  <2>7. (view.offset + before) + taken <= allocated
    BY <1>3, <1>8, <2>6
  <2> QED
    BY <2>7 DEF before, taken, allocated
<1>10. Fits(Global, sub)
  BY <1>5, <1>8, <1>9 DEF Fits
<1> HIDE DEF sub
<1> QED
  BY <1>2, <1>7, <1>10, NewViewFits

LEMMA BufferOfViewIsSound ==
  ASSUME TransferInv, NEW view \in views, BufferOfView(view)
  PROVE  StepIsSound
<1>1. hosts' = hosts /\ views' = views
  BY DEF BufferOfView
<1>2. [host |-> 1, id |-> view.buffer] \in ArrayBuffer
  BY GlobalFacts DEF TransferInv, ViewsOK, ArrayBuffer, TypedArray
<1>3. \A o \in objects' : o \in objects \/ (o \in ArrayBuffer /\ o.host \in 1 .. Len(hosts'))
  BY <1>1, <1>2, GlobalFacts DEF BufferOfView
<1> QED
  BY <1>1, <1>3, SameHosts, StepKeeps DEF StepIsSound

\* An operation that changes the global table only.
LEMMA GlobalEvolves ==
  ASSUME TransferInv, NEW host, GoodHost(host), Evolves(Global, host),
         hosts' = [hosts EXCEPT ![1] = host], objects' = objects, views' = views
  PROVE  StepIsSound /\ hosts'[1] = host
<1>1. HostsOK' /\ TablesEvolve /\ hosts'[1] = host
  BY GlobalFacts, SetHost DEF TransferInv, Global
<1> QED
  BY <1>1, StepKeeps DEF StepIsSound

LEMMA DetachBufferIsSound ==
  ASSUME TransferInv, NEW id \in BufferId, DetachBuffer(id)
  PROVE  StepIsSound
<1> DEFINE later == [Global EXCEPT !.buffers[id] = Detached(@)]
<1>1. /\ id \in 1 .. Len(Global.buffers) /\ hosts' = [hosts EXCEPT ![1] = later]
      /\ objects' = objects /\ views' = views
  BY GlobalFacts DEF DetachBuffer, CanCopy, Has, Global
<1>2. GoodHost(later) /\ Evolves(Global, later)
  BY <1>1, GlobalFacts, DetachFacts
<1> HIDE DEF later
<1> QED
  BY <1>1, <1>2, GlobalEvolves

LEMMA TransferBesideIsSound ==
  ASSUME TransferInv, NEW id, TransferBeside(id)
  PROVE  StepIsSound /\ LiveBytes(hosts'[1]) = LiveBytes(Global)
<1> DEFINE later == Transferred(Global, id)
<1>1. /\ id \in 1 .. Len(Global.buffers) /\ ~Global.buffers[id].detached /\ HasRoom(Global)
      /\ hosts' = [hosts EXCEPT ![1] = later] /\ objects' = objects /\ views' = views
  BY GlobalFacts DEF TransferBeside, CanCopy, Has, Global
<1>2. GoodHost(later) /\ Evolves(Global, later) /\ LiveBytes(later) = LiveBytes(Global)
  BY <1>1, GlobalFacts, TransferredFacts, TransferredMoves
<1> HIDE DEF later
<1> QED
  BY <1>1, <1>2, GlobalEvolves

\* structured_clone: a table that evolved is copied, with an object on top.
LEMMA ReturnCopyIsSound ==
  ASSUME TransferInv, NEW host, GoodHost(host), Evolves(Global, host),
         Len(host.buffers) \in BufferId, ReturnCopy(host)
  PROVE  StepIsSound /\ hosts'[1] = host
<1>1. HostsOK' /\ TablesEvolve /\ Len(hosts') = Len(hosts) + 1 /\ hosts'[1] = host
  BY AddHost DEF TransferInv
<1>2. Len(hosts) + 1 \in HostId /\ Len(hosts) + 1 \in 1 .. Len(hosts')
  BY <1>1, GlobalFacts, TransferAssumption DEF ReturnCopy, HostId
<1>3. /\ objects' = objects \cup {[host |-> Len(hosts) + 1, id |-> Len(host.buffers)]}
      /\ views' = views
  BY DEF ReturnCopy
<1>4. \A o \in objects' : o \in objects \/ (o \in ArrayBuffer /\ o.host \in 1 .. Len(hosts'))
  BY <1>2, <1>3 DEF ArrayBuffer
<1> QED
  BY <1>1, <1>3, <1>4, StepKeeps DEF StepIsSound

LEMMA StructuredCloneIsSound ==
  ASSUME TransferInv, NEW id, StructuredClone(id)
  PROVE  StepIsSound
<1> DEFINE length == Global.buffers[id].bytes
           later == WithNewBuffer(Global, length)
<1>1. /\ id \in 1 .. Len(Global.buffers) /\ HasRoom(Global) /\ ReturnCopy(later)
  BY GlobalFacts DEF StructuredClone, Cloned, CanCopy, Has
<1>2. length \in Nat
  BY <1>1, GlobalFacts, GoodHostFacts
<1> HIDE DEF length
<1>3. GoodHost(later) /\ Evolves(Global, later) /\ Len(later.buffers) \in BufferId
  BY <1>1, <1>2, GlobalFacts, NewBufferFacts
<1> HIDE DEF later
<1> QED
  BY <1>1, <1>3, ReturnCopyIsSound

LEMMA StructuredTransferIsSound ==
  ASSUME TransferInv, NEW id, StructuredTransfer(id)
  PROVE  StepIsSound /\ LiveBytes(hosts'[1]) = LiveBytes(Global)
<1> DEFINE later == Transferred(Global, id)
<1>1. /\ id \in 1 .. Len(Global.buffers) /\ ~Global.buffers[id].detached /\ HasRoom(Global)
      /\ ReturnCopy(later)
  BY GlobalFacts DEF StructuredTransfer, CanCopy, Has
<1>2. /\ GoodHost(later) /\ Evolves(Global, later) /\ LiveBytes(later) = LiveBytes(Global)
      /\ Len(later.buffers) \in BufferId
  BY <1>1, GlobalFacts, TransferredFacts, TransferredMoves
<1> HIDE DEF later
<1> QED
  BY <1>1, <1>2, ReturnCopyIsSound

\* The initial state: one table, no buffers.
LEMMA TransferInitially ==
  TransferInit => TransferInv
<1> SUFFICES ASSUME TransferInit PROVE TransferInv
  OBVIOUS
<1> DEFINE empty == [buffers |-> <<>>]
<1>1. hosts = <<empty>> /\ objects = {} /\ views = {}
  BY DEF TransferInit
<1>2. GoodHost(empty) /\ empty \in TransferHost
  <2> DEFINE none == <<>>
  <2>1. none \in Seq(Buffers) /\ Len(none) <= MaxBuffers
    BY TransferAssumption
  <2> HIDE DEF none
  <2>2. GoodHost([buffers |-> none])
    BY <2>1, MakeHost
  <2> QED
    BY <2>2 DEF GoodHost, none
<1> HIDE DEF empty
<1>3. /\ hosts \in Seq(TransferHost) /\ Len(hosts) = 1 /\ hosts[1] = empty
      /\ DOMAIN hosts = 1 .. Len(hosts)
  BY <1>1, <1>2
<1>4. HostsOK
  BY <1>2, <1>3, TransferAssumption DEF HostsOK
<1> QED
  BY <1>1, <1>4 DEF TransferInv, ViewsOK, ObjectsOK

LEMMA TransferStep ==
  ASSUME TransferInv, [TransferNext]_transferVars
  PROVE  StepIsSound
<1>1. ASSUME NEW length \in Numbers, NewArrayBuffer(length) PROVE StepIsSound
  BY <1>1, NewArrayBufferIsSound
<1>2. ASSUME NEW object \in objects, NEW start \in Numbers, NEW end \in Numbers,
             SliceArrayBuffer(object, start, end)
      PROVE  StepIsSound
  BY <1>2, SliceArrayBufferIsSound
<1>3. ASSUME NEW size \in ElementSizes, NEW length \in Numbers, NewTypedArray(size, length)
      PROVE  StepIsSound
  BY <1>3, NewTypedArrayIsSound
<1>4. ASSUME NEW id \in KnownIds, NEW size \in ElementSizes, NEW offset \in Numbers,
             NEW length \in Numbers, NewView(id, size, offset, length)
      PROVE  StepIsSound
  BY <1>4, NewViewIsSound
<1>5. ASSUME NEW view \in views, BufferOfView(view) PROVE StepIsSound
  BY <1>5, BufferOfViewIsSound
<1>6. ASSUME NEW view \in views, NEW start \in Numbers, NEW end \in Numbers,
             SubarrayOfView(view, start, end) \/ SliceView(view, start, end)
      PROVE  StepIsSound
  BY <1>6, SubarrayOfViewIsSound, SliceViewIsSound
<1>7. ASSUME NEW id \in BufferId, DetachBuffer(id) PROVE StepIsSound
  BY <1>7, DetachBufferIsSound
<1>8. ASSUME NEW id \in KnownIds,
             StructuredClone(id) \/ StructuredTransfer(id) \/ TransferBeside(id)
      PROVE  StepIsSound
  BY <1>8, StructuredCloneIsSound, StructuredTransferIsSound, TransferBesideIsSound
<1>9. ASSUME UNCHANGED transferVars PROVE StepIsSound
  BY <1>9, SameHosts, StepKeeps DEF transferVars, StepIsSound
<1> QED
  BY <1>1, <1>2, <1>3, <1>4, <1>5, <1>6, <1>7, <1>8, <1>9 DEF TransferNext

(* The tables of buffers, the objects and the views scripts hold: every    *)
(* view lies in the bytes its buffer was allocated with, and a detached    *)
(* buffer has none (transfer.rs).                                          *)
THEOREM TransferInvariance == TransferSpec => []TransferInv
<1>1. TransferInv /\ [TransferNext]_transferVars => TransferInv'
  BY TransferStep DEF StepIsSound
<1> QED
  BY <1>1, TransferInitially, PTL DEF TransferSpec

LEMMA TransferInvImplies ==
  TransferInv => TransferTypeOK /\ ViewsFitTheirBuffer
<1> SUFFICES ASSUME TransferInv PROVE TransferTypeOK /\ ViewsFitTheirBuffer
  OBVIOUS
<1>1. hosts \in Seq(TransferHost) /\ objects \subseteq ArrayBuffer /\ views \subseteq TypedArray
  BY DEF TransferInv, HostsOK, ObjectsOK, ViewsOK
<1>2. \A v \in views : Fits(Global, v)
  BY DEF TransferInv, ViewsOK
<1>3. ViewsFitTheirBuffer
  BY <1>2, GlobalFacts DEF ViewsFitTheirBuffer, Fits, Has
<1> QED
  BY <1>1, <1>3 DEF TransferTypeOK

\* What a step does to the bytes.
BytesAreMoved ==
  /\ \A id \in KnownIds : StructuredTransfer(id) \/ TransferBeside(id) =>
       LiveBytes(hosts'[1]) = LiveBytes(Global)
  /\ \A h \in DOMAIN hosts : \A id \in DOMAIN hosts[h].buffers :
       LET before == hosts[h].buffers[id]
           after == hosts'[h].buffers[id] IN
       /\ before.detached => after.detached
       /\ after.bytes = IF after.detached THEN 0 ELSE before.bytes

LEMMA StepMovesBytes ==
  ASSUME TransferInv, [TransferNext]_transferVars
  PROVE  BytesAreMoved
<1>1. \A id \in KnownIds : StructuredTransfer(id) \/ TransferBeside(id) =>
        LiveBytes(hosts'[1]) = LiveBytes(Global)
  BY StructuredTransferIsSound, TransferBesideIsSound
<1>2. ASSUME NEW h \in DOMAIN hosts, NEW id \in DOMAIN hosts[h].buffers
      PROVE  LET before == hosts[h].buffers[id]
                 after == hosts'[h].buffers[id] IN
             /\ before.detached => after.detached
             /\ after.bytes = IF after.detached THEN 0 ELSE before.bytes
  <2>1. h \in 1 .. Len(hosts) /\ GoodHost(hosts[h])
    BY DEF TransferInv, HostsOK
  <2>2. id \in 1 .. Len(hosts[h].buffers)
    BY <2>1, GoodHostFacts
  <2>3. Evolves(hosts[h], hosts'[h])
    BY <2>1, TransferStep DEF StepIsSound, TablesEvolve
  <2> QED
    BY <2>2, <2>3 DEF Evolves
<1> QED
  BY <1>1, <1>2 DEF BytesAreMoved

(* Buffers keep their bytes through every copy, transfer and view of them: *)
(* a transfer leaves as many bytes as there were, a detached buffer stays  *)
(* detached and empty, an attached one keeps its length, and every view    *)
(* fits its buffer (transfer.rs).                                          *)
THEOREM BuffersKeepBytes == TransferSpec => BuffersKeepTheirBytes
<1>1. TransferInv /\ [TransferNext]_transferVars => BytesAreMoved
  BY StepMovesBytes
<1>2. TransferInv' => (TransferTypeOK' /\ ViewsFitTheirBuffer')
  BY TransferInvImplies, PTL
<1>3. TransferSpec => []TransferInv
  BY TransferInvariance
<1>4. BuffersKeepTheirBytes <=>
        /\ [][BytesAreMoved]_transferVars
        /\ [][TransferTypeOK' /\ ViewsFitTheirBuffer']_transferVars
  BY DEF BuffersKeepTheirBytes, TransferMovesBytes, BytesAreMoved
<1> QED
  BY <1>1, <1>2, <1>3, <1>4, PTL DEF TransferSpec


\* list[1 .. k] is lo + 1 .. hi, counted up.
CountsUp(k, list, lo, hi) == k = hi - lo /\ \A i \in 1 .. k : list[i] = lo + i

\* Numbers that rise and are those of an interval count up through it.
LEMMA CountThrough ==
  ASSUME NEW k \in Nat, NEW list, NEW lo \in Nat, NEW hi \in Nat, lo <= hi,
         \A i, j \in 1 .. k : i < j => list[i] < list[j],
         \A i \in 1 .. k : list[i] \in lo + 1 .. hi,
         \A x \in lo + 1 .. hi : \E i \in 1 .. k : list[i] = x
  PROVE  CountsUp(k, list, lo, hi)
<1>1. \A i \in 1 .. k : list[i] = lo + i
  <2> DEFINE off == {i \in 1 .. k : list[i] # lo + i}
  <2> SUFFICES ASSUME off # {} PROVE FALSE
    OBVIOUS
  <2>1. off \in SUBSET Nat
    OBVIOUS
  <2>2. PICK i \in off : \A j \in off : i <= j
    BY <2>1, LeastNatural
  <2>3. i \in 1 .. k /\ list[i] # lo + i /\ list[i] \in lo + 1 .. hi
    BY <2>2
  <2>4. \A j \in 1 .. k : j < i => list[j] = lo + j
    BY <2>2
  <2>5. list[i] >= lo + i
    <3>1. CASE i = 1
      BY <2>3, <3>1
    <3>2. CASE i # 1
      BY <2>3, <2>4, <3>2
    <3> QED
      BY <3>1, <3>2
  <2>6. lo + i \in lo + 1 .. hi /\ lo + i < list[i]
    BY <2>3, <2>5
  <2>7. PICK j \in 1 .. k : list[j] = lo + i
    BY <2>6
  <2>8. ~(j < i)
    BY <2>3, <2>4, <2>7
  <2>9. ~(i < j)
    BY <2>3, <2>6, <2>7
  <2>10. i = j
    BY <2>3, <2>8, <2>9
  <2> QED
    BY <2>6, <2>7, <2>10
<1>2. ~(k < hi - lo)
  <2> SUFFICES ASSUME k < hi - lo PROVE FALSE
    OBVIOUS
  <2>1. lo + (k + 1) \in lo + 1 .. hi
    OBVIOUS
  <2>2. PICK j \in 1 .. k : list[j] = lo + (k + 1)
    BY <2>1
  <2>3. list[j] = lo + j
    BY <1>1
  <2> QED
    BY <2>2, <2>3
<1>3. ~(k > hi - lo)
  BY <1>1
<1>4. k = hi - lo
  BY <1>2, <1>3
<1> QED
  BY <1>1, <1>4 DEF CountsUp
-----------------------------------------------------------------------------
(* Workers                                                                 *)

Task == [worker : Nat, listener : Nat, message : Nat]

\* A queue has messages lo + 1 .. hi for listener l of w, in order.
Carries(tasks, w, l, lo, hi) ==
  /\ \A i, j \in 1 .. Len(tasks) :
       /\ tasks[i].worker = w /\ tasks[i].listener = l
       /\ tasks[j].worker = w /\ tasks[j].listener = l
       /\ i < j
       => tasks[i].message < tasks[j].message
  /\ \A m \in Nat :
       (\E i \in 1 .. Len(tasks) : /\ tasks[i].worker = w /\ tasks[i].listener = l
                                   /\ tasks[i].message = m)
         <=> m \in lo + 1 .. hi

LEMMA CarriesBoth ==
  ASSUME NEW s \in Seq(Task), NEW t \in Seq(Task), NEW w, NEW l,
         NEW lo \in Nat, NEW mid \in Nat, NEW hi \in Nat, lo <= mid, mid <= hi,
         Carries(s, w, l, lo, mid), Carries(t, w, l, mid, hi)
  PROVE  Carries(s \o t, w, l, lo, hi)
<1> DEFINE both == s \o t
           m == Len(s)
           n == Len(t)
           Mine(task) == task.worker = w /\ task.listener = l
<1>1. /\ m \in Nat /\ n \in Nat /\ both \in Seq(Task) /\ Len(both) = m + n
      /\ \A i \in 1 .. m : both[i] = s[i]
      /\ \A i \in m + 1 .. m + n : both[i] = t[i - m]
  BY LenProperties, ConcatProperties
<1>2. /\ \A i \in 1 .. m : s[i].message \in Nat
      /\ \A i \in 1 .. n : t[i].message \in Nat
  <2>1. /\ \A i \in 1 .. m : s[i] \in Task
        /\ \A i \in 1 .. n : t[i] \in Task
    BY ElementOfSeq
  <2> QED
    BY <2>1 DEF Task
<1> HIDE DEF both
<1>3. \A i \in 1 .. m + n : i \in 1 .. m \/ (i \in m + 1 .. m + n /\ i - m \in 1 .. n)
  BY <1>1
<1>4. \A i \in 1 .. m : Mine(s[i]) => s[i].message <= mid
  BY <1>2 DEF Carries
<1>5. \A i \in 1 .. n : Mine(t[i]) => t[i].message > mid
  BY <1>2 DEF Carries
<1>6. ASSUME NEW i \in 1 .. m + n, NEW j \in 1 .. m + n, Mine(both[i]), Mine(both[j]), i < j
      PROVE  both[i].message < both[j].message
  <2>1. CASE i \in 1 .. m /\ j \in 1 .. m
    BY <1>1, <1>6, <2>1 DEF Carries
  <2>2. CASE i \in 1 .. m /\ j \in m + 1 .. m + n
    <3>1. both[i] = s[i] /\ both[j] = t[j - m] /\ j - m \in 1 .. n
      BY <1>1, <2>2
    <3>2. s[i].message <= mid /\ t[j - m].message > mid
      BY <1>4, <1>5, <1>6, <2>2, <3>1
    <3>3. s[i].message \in Nat /\ t[j - m].message \in Nat
      BY <1>2, <2>2, <3>1
    <3> DEFINE x == s[i].message
               y == t[j - m].message
    <3> HIDE DEF x, y
    <3>4. x \in Nat /\ y \in Nat /\ x <= mid /\ y > mid
      BY <3>2, <3>3 DEF x, y
    <3>5. x < y
      BY <3>4
    <3> QED
      BY <3>1, <3>5 DEF x, y
  <2>3. CASE i \in m + 1 .. m + n /\ j \in m + 1 .. m + n
    <3>1. /\ both[i] = t[i - m] /\ both[j] = t[j - m] /\ i - m \in 1 .. n /\ j - m \in 1 .. n
          /\ i - m < j - m
      BY <1>1, <1>6, <2>3
    <3> QED
      BY <1>6, <3>1 DEF Carries
  <2>4. ~(i \in m + 1 .. m + n /\ j \in 1 .. m)
    BY <1>1, <1>6
  <2> QED
    BY <1>3, <2>1, <2>2, <2>3, <2>4
<1>7. ASSUME NEW x \in Nat
      PROVE  (\E i \in 1 .. m + n : Mine(both[i]) /\ both[i].message = x) <=> x \in lo + 1 .. hi
  <2>1. ASSUME NEW i \in 1 .. m + n, Mine(both[i]), both[i].message = x
        PROVE  x \in lo + 1 .. hi
    <3>1. CASE i \in 1 .. m
      BY <1>1, <2>1, <3>1 DEF Carries
    <3>2. CASE i \in m + 1 .. m + n /\ i - m \in 1 .. n
      <4>1. Mine(t[i - m]) /\ t[i - m].message = x
        BY <1>1, <2>1, <3>2
      <4>2. x \in mid + 1 .. hi
        BY <3>2, <4>1 DEF Carries
      <4> QED
        BY <4>2
    <3> QED
      BY <1>3, <3>1, <3>2
  <2>2. ASSUME x \in lo + 1 .. hi
        PROVE  \E i \in 1 .. m + n : Mine(both[i]) /\ both[i].message = x
    <3>1. CASE x <= mid
      <4>1. x \in lo + 1 .. mid
        BY <2>2, <3>1
      <4>2. PICK i \in 1 .. m : Mine(s[i]) /\ s[i].message = x
        BY <4>1 DEF Carries
      <4>3. i \in 1 .. m + n /\ both[i] = s[i]
        BY <1>1
      <4> QED
        BY <4>2, <4>3
    <3>2. CASE x > mid
      <4>1. x \in mid + 1 .. hi
        BY <2>2, <3>2
      <4>2. PICK i \in 1 .. n : Mine(t[i]) /\ t[i].message = x
        BY <4>1 DEF Carries
      <4>3. m + i \in m + 1 .. m + n /\ m + i \in 1 .. m + n /\ (m + i) - m = i
        BY <1>1
      <4>4. both[m + i] = t[i]
        BY <1>1, <4>3
      <4> QED
        BY <4>2, <4>3, <4>4
    <3> QED
      BY <3>1, <3>2
  <2> QED
    BY <2>1, <2>2
<1>8. Carries(both, w, l, lo, hi)
  BY <1>1, <1>6, <1>7 DEF Carries
<1> QED
  BY <1>8 DEF both

\* The task at the head is taken.
LEMMA CarriesRest ==
  ASSUME NEW tasks \in Seq(Task), tasks # <<>>, NEW w, NEW l,
         NEW lo \in Nat, NEW hi \in Nat, Carries(tasks, w, l, lo, hi)
  PROVE  LET task == Head(tasks) IN
         IF task.worker = w /\ task.listener = l
         THEN /\ task.message = lo + 1 /\ lo + 1 <= hi
              /\ Carries(Tail(tasks), w, l, lo + 1, hi)
         ELSE Carries(Tail(tasks), w, l, lo, hi)
<1> DEFINE rest == Tail(tasks)
           n == Len(tasks)
           task == Head(tasks)
           Mine(t) == t.worker = w /\ t.listener = l
<1>1. /\ n \in Nat \ {0} /\ Len(rest) = n - 1 /\ task = tasks[1]
      /\ \A i \in 1 .. n - 1 : rest[i] = tasks[i + 1]
      /\ \A i \in 1 .. n : tasks[i].message \in Nat
  <2>1. /\ n \in Nat \ {0} /\ Len(rest) = n - 1 /\ task = tasks[1]
        /\ \A i \in 1 .. n - 1 : rest[i] = tasks[i + 1]
    BY EmptySeq, HeadTailProperties
  <2>2. \A i \in 1 .. n : tasks[i] \in Task
    BY ElementOfSeq
  <2> QED
    BY <2>1, <2>2 DEF Task
<1> HIDE DEF rest, n, task
<1>2. \A i \in 1 .. n - 1 : i + 1 \in 1 .. n /\ i + 1 # 1
  BY <1>1
<1>3. \A i, j \in 1 .. n - 1 : Mine(rest[i]) /\ Mine(rest[j]) /\ i < j => rest[i].message < rest[j].message
  <2> SUFFICES ASSUME NEW i \in 1 .. n - 1, NEW j \in 1 .. n - 1, Mine(rest[i]), Mine(rest[j]), i < j
               PROVE  rest[i].message < rest[j].message
    OBVIOUS
  <2>1. i + 1 \in 1 .. n /\ j + 1 \in 1 .. n
    BY <1>2
  <2>3. i + 1 < j + 1
    OBVIOUS
  <2>2. rest[i] = tasks[i + 1] /\ rest[j] = tasks[j + 1]
    BY <1>1
  <2> QED
    BY <2>1, <2>2, <2>3 DEF Carries, n
<1>4. \A x \in Nat : (\E i \in 1 .. n : Mine(tasks[i]) /\ tasks[i].message = x) <=> x \in lo + 1 .. hi
  BY DEF Carries, n
<1>5. \A x \in Nat : (\E i \in 1 .. n - 1 : Mine(rest[i]) /\ rest[i].message = x)
                       => \E i \in 1 .. n : i # 1 /\ Mine(tasks[i]) /\ tasks[i].message = x
  BY <1>1, <1>2
<1>6. \A x \in Nat : (\E i \in 1 .. n : i # 1 /\ Mine(tasks[i]) /\ tasks[i].message = x)
                       => \E i \in 1 .. n - 1 : Mine(rest[i]) /\ rest[i].message = x
  <2> SUFFICES ASSUME NEW x \in Nat, NEW i \in 1 .. n, i # 1, Mine(tasks[i]), tasks[i].message = x
               PROVE  \E k \in 1 .. n - 1 : Mine(rest[k]) /\ rest[k].message = x
    OBVIOUS
  <2>1. i - 1 \in 1 .. n - 1 /\ (i - 1) + 1 = i
    BY <1>1
  <2>2. rest[i - 1] = tasks[i]
    BY <1>1, <2>1
  <2> QED
    BY <2>1, <2>2
<1>7. CASE Mine(task)
  <2>1. 1 \in 1 .. n /\ Mine(tasks[1]) /\ tasks[1].message \in Nat
    BY <1>1, <1>7
  <2>2. tasks[1].message \in lo + 1 .. hi
    BY <1>4, <2>1
  <2>3. \A i \in 1 .. n : i # 1 /\ Mine(tasks[i]) => tasks[1].message < tasks[i].message
    BY <1>1, <2>1 DEF Carries, n
  <2>4. tasks[1].message = lo + 1
    <3> SUFFICES ASSUME tasks[1].message # lo + 1 PROVE FALSE
      OBVIOUS
    <3>1. lo + 1 \in Nat /\ lo + 1 \in lo + 1 .. hi /\ lo + 1 < tasks[1].message
      BY <2>2
    <3>2. PICK i \in 1 .. n : Mine(tasks[i]) /\ tasks[i].message = lo + 1
      BY <1>4, <3>1
    <3>3. i # 1
      BY <3>1, <3>2
    <3>4. tasks[1].message < lo + 1
      BY <2>3, <3>2, <3>3
    <3> QED
      BY <2>1, <3>1, <3>4
  <2>5. ASSUME NEW x \in Nat
        PROVE  (\E i \in 1 .. n - 1 : Mine(rest[i]) /\ rest[i].message = x)
                 <=> x \in (lo + 1) + 1 .. hi
    <3>1. ASSUME NEW i \in 1 .. n - 1, Mine(rest[i]), rest[i].message = x
          PROVE  x \in (lo + 1) + 1 .. hi
      <4>1. PICK k \in 1 .. n : k # 1 /\ Mine(tasks[k]) /\ tasks[k].message = x
        BY <1>5, <3>1
      <4>2. lo + 1 < x
        BY <2>3, <2>4, <4>1
      <4>3. x \in lo + 1 .. hi
        BY <1>4, <4>1
      <4> QED
        BY <4>2, <4>3
    <3>2. ASSUME x \in (lo + 1) + 1 .. hi
          PROVE  \E i \in 1 .. n - 1 : Mine(rest[i]) /\ rest[i].message = x
      <4>1. x \in lo + 1 .. hi /\ x # lo + 1
        BY <3>2
      <4>2. PICK k \in 1 .. n : Mine(tasks[k]) /\ tasks[k].message = x
        BY <1>4, <4>1
      <4>3. k # 1
        BY <2>4, <4>1, <4>2
      <4> QED
        BY <1>6, <4>2, <4>3
    <3> QED
      BY <3>1, <3>2
  <2>6. Carries(rest, w, l, lo + 1, hi)
    BY <1>1, <1>3, <2>5 DEF Carries
  <2> QED
    BY <1>1, <1>7, <2>2, <2>4, <2>6 DEF rest, task
<1>8. CASE ~Mine(task)
  <2>1. ~Mine(tasks[1])
    BY <1>1, <1>8
  <2>2. ASSUME NEW x \in Nat
        PROVE  (\E i \in 1 .. n - 1 : Mine(rest[i]) /\ rest[i].message = x) <=> x \in lo + 1 .. hi
    <3>1. (\E i \in 1 .. n - 1 : Mine(rest[i]) /\ rest[i].message = x) => x \in lo + 1 .. hi
      BY <1>4, <1>5
    <3>2. ASSUME x \in lo + 1 .. hi
          PROVE  \E i \in 1 .. n - 1 : Mine(rest[i]) /\ rest[i].message = x
      <4>1. PICK k \in 1 .. n : Mine(tasks[k]) /\ tasks[k].message = x
        BY <1>4, <3>2
      <4>2. k # 1
        BY <2>1, <4>1
      <4> QED
        BY <1>6, <4>1, <4>2
    <3> QED
      BY <3>1, <3>2
  <2>3. Carries(rest, w, l, lo, hi)
    BY <1>1, <1>3, <2>2 DEF Carries
  <2> QED
    BY <1>8, <2>3 DEF rest, task
<1> QED
  BY <1>7, <1>8

LEMMA CarriesNone ==
  ASSUME NEW tasks, NEW w, NEW l, NEW lo \in Nat,
         \A i \in 1 .. Len(tasks) : ~(tasks[i].worker = w /\ tasks[i].listener = l)
  PROVE  Carries(tasks, w, l, lo, lo)
BY DEF Carries

\* queue_worker_message: one task per response and listener.
LEMMA MessageTasksFacts ==
  ASSUME NEW w \in Nat, Len(listeners[w]) \in Nat, NEW responses \in Seq(Nat), NEW base \in Nat,
         \A i \in 1 .. Len(responses) : responses[i] = base + i
  PROVE  LET tasks == WorkerMessageTasks(w, responses)
             some == Len(listeners[w])
         IN  /\ tasks \in Seq(Task)
             /\ \A i \in 1 .. Len(tasks) : tasks[i].worker = w /\ tasks[i].listener \in 1 .. some
             /\ \A l \in 1 .. some : Carries(tasks, w, l, base, base + Len(responses))
<1> DEFINE some == Len(listeners[w])
           r == Len(responses)
           Row(k) == [l \in 1 .. some |-> [worker |-> w, listener |-> l, message |-> responses[k]]]
           rows == [k \in 1 .. r |-> Row(k)]
           tasks == WorkerMessageTasks(w, responses)
           Good(list, k) ==
             /\ list \in Seq(Task)
             /\ \A i \in 1 .. Len(list) : list[i].worker = w /\ list[i].listener \in 1 .. some
             /\ \A l \in 1 .. some : Carries(list, w, l, base, base + k)
<1>1. r \in Nat /\ some \in Nat /\ \A k \in 1 .. r : responses[k] \in Nat
  BY LenProperties, ElementOfSeq
<1>2. tasks = FlattenSeq(rows)
  BY DEF WorkerMessageTasks
<1> HIDE DEF some, r, tasks
<1>3. ASSUME NEW k \in 1 .. r
      PROVE  /\ Row(k) \in Seq(Task) /\ Len(Row(k)) = some
             /\ \A l \in 1 .. some : /\ Row(k)[l].worker = w /\ Row(k)[l].listener = l
                                     /\ Row(k)[l].message = base + k
  <2>1. responses[k] \in Nat /\ responses[k] = base + k
    BY <1>1 DEF r
  <2> DEFINE row == Row(k)
  <2>2. \A l \in 1 .. some : row[l] = [worker |-> w, listener |-> l, message |-> base + k]
    BY <2>1
  <2>3. row = [l \in 1 .. some |-> row[l]]
    OBVIOUS
  <2> HIDE DEF row
  <2>4. \A l \in 1 .. some : row[l] \in Task
    <3> SUFFICES ASSUME NEW l \in 1 .. some PROVE row[l] \in Task
      OBVIOUS
    <3>1. l \in Nat /\ base + k \in Nat
      BY <1>1
    <3>2. row[l] = [worker |-> w, listener |-> l, message |-> base + k]
      BY <2>2
    <3> QED
      BY <3>1, <3>2 DEF Task
  <2>5. row \in Seq(Task) /\ Len(row) = some
    BY <1>1, <2>3, <2>4
  <2> QED
    BY <2>2, <2>5 DEF row
<1>4. ASSUME NEW k \in 1 .. r, NEW l \in 1 .. some
      PROVE  Carries(Row(k), w, l, base + (k - 1), base + k)
  <2> DEFINE row == Row(k)
  <2>1. /\ Len(row) = some
        /\ \A i \in 1 .. some : /\ row[i].worker = w /\ row[i].listener = i
                                /\ row[i].message = base + k
    BY <1>3
  <2> HIDE DEF row
  <2>2. \A i, j \in 1 .. Len(row) :
          row[i].listener = l /\ row[j].listener = l /\ i < j => row[i].message < row[j].message
    BY <1>1, <2>1
  <2>3. ASSUME NEW m \in Nat
        PROVE  (\E i \in 1 .. Len(row) : row[i].worker = w /\ row[i].listener = l /\ row[i].message = m)
                 <=> m \in (base + (k - 1)) + 1 .. base + k
    BY <1>1, <2>1
  <2>4. Carries(row, w, l, base + (k - 1), base + k)
    BY <2>2, <2>3 DEF Carries
  <2> QED
    BY <2>4 DEF row
<1>5. CASE r = 0
  <2>1. Len(rows) = 0
    BY <1>5
  <2>2. tasks = rows /\ rows = <<>>
    BY <1>2, <1>5, <2>1 DEF FlattenSeq
  <2>3. tasks = <<>> /\ Len(tasks) = 0
    BY <2>2
  <2>4. tasks \in Seq(Task)
    BY <2>3
  <2>5. \A i \in 1 .. Len(tasks) : FALSE
    BY <2>3
  <2>6. \A l \in 1 .. some : Carries(tasks, w, l, base, base)
    BY <2>5, CarriesNone
  <2>7. base + r = base
    BY <1>5
  <2> QED
    BY <2>4, <2>5, <2>6, <2>7 DEF some, tasks, r
<1>6. CASE r # 0
  <2>1. rows \in Seq(Seq(Task)) /\ rows # <<>> /\ Len(rows) = r
    <3>1. \A k \in 1 .. r : Row(k) \in Seq(Task)
      BY <1>3
    <3> HIDE DEF Row
    <3> QED
      BY <1>1, <1>6, <3>1
  <2>2. \A k \in 1 .. r : rows[k] = Row(k)
    OBVIOUS
  <2> HIDE DEF rows
  <2>3. PICK flat : Joins(Task, rows, flat) /\ FlattenSeq(rows) = flat[Len(rows)]
    BY <2>1, FlattenFacts
  <2>4. /\ \A k \in 1 .. r : flat[k] = IF k = 1 THEN Row(k) ELSE flat[k - 1] \o Row(k)
        /\ \A k \in 1 .. r : flat[k] \in Seq(Task)
    <3>1. /\ flat \in [1 .. r -> Seq(Task)]
          /\ \A k \in 1 .. r : flat[k] = IF k = 1 THEN rows[k] ELSE flat[k - 1] \o rows[k]
      BY <2>1, <2>3 DEF Joins
    <3>2. \A k \in 1 .. r : flat[k] \in Seq(Task)
      BY <3>1
    <3> HIDE DEF Row
    <3> QED
      BY <2>2, <3>1, <3>2
  <2> DEFINE S == {k \in 1 .. r : Good(flat[k], k)}
             one == 1
  <2>5. one \in Nat /\ one = 1
    OBVIOUS
  <2>6. one \in S
    <3>1. 1 \in 1 .. r
      BY <1>1, <1>6
    <3>2. flat[1] = Row(1)
      BY <2>4, <3>1
    <3>3. base + (1 - 1) = base
      OBVIOUS
    <3>4. \A l \in 1 .. some : Carries(Row(1), w, l, base, base + 1)
      BY <1>4, <3>1, <3>3
    <3>5. \A i \in 1 .. Len(Row(1)) : Row(1)[i].worker = w /\ Row(1)[i].listener \in 1 .. some
      BY <1>3, <3>1
    <3>6. Row(1) \in Seq(Task)
      BY <1>3, <3>1
    <3> HIDE DEF Row
    <3> QED
      BY <3>1, <3>2, <3>4, <3>5, <3>6
  <2>7. ASSUME NEW k \in one .. r - 1, k \in S PROVE k + 1 \in S
    <3> DEFINE list == flat[k]
               row == Row(k + 1)
               longer == flat[k + 1]
    <3>1. k \in 1 .. r /\ k + 1 \in 1 .. r /\ k + 1 # 1 /\ (k + 1) - 1 = k
      BY <1>1
    <3>2. longer = list \o row
      BY <2>4, <3>1
    <3>3. Good(list, k)
      BY <2>7
    <3>4. /\ row \in Seq(Task) /\ Len(row) = some
          /\ \A i \in 1 .. some : row[i].worker = w /\ row[i].listener = i
      BY <1>3, <3>1
    <3>5. \A l \in 1 .. some : Carries(row, w, l, base + k, base + (k + 1))
      BY <1>4, <3>1
    <3> HIDE DEF Row, row, list
    <3>6. \A l \in 1 .. some : Carries(list \o row, w, l, base, base + (k + 1))
      <4> SUFFICES ASSUME NEW l \in 1 .. some
                   PROVE  Carries(list \o row, w, l, base, base + (k + 1))
        OBVIOUS
      <4> DEFINE mid == base + k
                 hi == base + (k + 1)
      <4>1. mid \in Nat /\ hi \in Nat /\ base <= mid /\ mid <= hi
        BY <3>1
      <4>2. Carries(list, w, l, base, mid) /\ Carries(row, w, l, mid, hi) /\ list \in Seq(Task)
        BY <3>3, <3>5
      <4> HIDE DEF mid, hi
      <4>3. Carries(list \o row, w, l, base, hi)
        BY <3>4, <4>1, <4>2, CarriesBoth
      <4> QED
        BY <4>3 DEF hi
    <3>7. /\ list \o row \in Seq(Task)
          /\ \A i \in 1 .. Len(list \o row) :
               (list \o row)[i].worker = w /\ (list \o row)[i].listener \in 1 .. some
      <4>1. list \in Seq(Task)
        BY <3>3
      <4>2. /\ Len(list) \in Nat /\ list \o row \in Seq(Task)
            /\ Len(list \o row) = Len(list) + some
            /\ \A i \in 1 .. Len(list) : (list \o row)[i] = list[i]
            /\ \A i \in Len(list) + 1 .. Len(list) + some : (list \o row)[i] = row[i - Len(list)]
        <5>1. /\ Len(list) \in Nat /\ list \o row \in Seq(Task)
              /\ Len(list \o row) = Len(list) + Len(row)
              /\ \A i \in 1 .. Len(list) : (list \o row)[i] = list[i]
              /\ \A i \in Len(list) + 1 .. Len(list) + Len(row) :
                   (list \o row)[i] = row[i - Len(list)]
          <6>1. list \in Seq(Task) /\ row \in Seq(Task)
            BY <3>4, <4>1
          <6> QED
            BY <6>1, LenProperties, ConcatProperties
        <5>2. Len(row) = some
          BY <3>4
        <5> QED
          BY <5>1, <5>2
      <4>3. ASSUME NEW i \in 1 .. Len(list) + some
            PROVE  (list \o row)[i].worker = w /\ (list \o row)[i].listener \in 1 .. some
        <5>1. CASE i \in 1 .. Len(list)
          BY <3>3, <4>2, <5>1
        <5>2. CASE i \notin 1 .. Len(list)
          BY <1>1, <3>4, <4>2, <5>2
        <5> QED
          BY <5>1, <5>2
      <4> QED
        BY <4>2, <4>3
    <3> HIDE DEF longer
    <3>8. Good(longer, k + 1)
      BY <3>2, <3>6, <3>7
    <3> QED
      BY <3>1, <3>8 DEF longer
  <2> HIDE DEF S, one
  <2>8. one .. r \subseteq S
    BY <1>1, <2>5, <2>6, <2>7, CountingUp
  <2>9. r \in S
    BY <1>1, <1>6, <2>5, <2>8
  <2>10. Good(tasks, r)
    BY <1>2, <2>1, <2>3, <2>9 DEF S
  <2> QED
    BY <2>10 DEF some, tasks, r
<1> QED
  BY <1>5, <1>6

\* The outbox holds the messages after the last the page was handed.
Numbered(scope, inbound) ==
  /\ scope.posted = inbound + Len(scope.outbox)
  /\ \A i \in 1 .. Len(scope.outbox) : scope.outbox[i] = inbound + i

WorkerOK(worker) ==
  /\ worker \in WorkerStateData
  /\ worker.state = "active" =>
       /\ Numbered(worker.scope, worker.inbound)
       /\ worker.scope.closeRequested => worker.received = 0

\* What a listener that was added after message `from` was told so far, and
\* what is under way to it, is every message from then on.
ListenerOK(tasks, w, l, from, told, inbound) ==
  /\ from \in Nat /\ told \in Seq(Nat) /\ from + Len(told) <= inbound
  /\ \A i \in 1 .. Len(told) : told[i] = from + i
  /\ Carries(tasks, w, l, from + Len(told), inbound)

ShapesOK ==
  /\ workers \in Seq(WorkerStateData) /\ Len(workers) \in 0 .. MaxWorkers
  /\ listeners \in Seq(Seq(Nat)) /\ Len(listeners) = Len(workers)
  /\ heard \in Seq(Seq(Seq(Nat))) /\ Len(heard) = Len(workers)
  /\ \A w \in 1 .. Len(workers) : /\ WorkerOK(workers[w])
                                  /\ Len(heard[w]) = Len(listeners[w])

TasksOK ==
  /\ mainTasks \in Seq(Task)
  /\ \A i \in 1 .. Len(mainTasks) :
       /\ mainTasks[i].worker \in 1 .. Len(workers)
       /\ mainTasks[i].listener \in 1 .. Len(listeners[mainTasks[i].worker])

ListenersOK ==
  \A w \in 1 .. Len(workers) : \A l \in 1 .. Len(listeners[w]) :
    ListenerOK(mainTasks, w, l, listeners[w][l], heard[w][l], workers[w].inbound)

WorkersInv == ShapesOK /\ TasksOK /\ ListenersOK

LEMMA WorkersFacts ==
  ASSUME WorkersInv
  PROVE  /\ Len(workers) \in Nat /\ DOMAIN workers = 1 .. Len(workers)
         /\ \A w \in 1 .. Len(workers) :
              /\ workers[w] \in WorkerStateData /\ WorkerOK(workers[w])
              /\ workers[w].scope \in WorkerScope
              /\ workers[w].inbound \in Nat /\ workers[w].received \in Nat
              /\ listeners[w] \in Seq(Nat) /\ Len(listeners[w]) \in Nat
              /\ heard[w] \in Seq(Seq(Nat)) /\ Len(heard[w]) = Len(listeners[w])
<1>1. ShapesOK
  BY DEF WorkersInv
<1>2. Len(workers) \in Nat /\ DOMAIN workers = 1 .. Len(workers)
  BY <1>1, LenProperties DEF ShapesOK
<1>3. ASSUME NEW w \in 1 .. Len(workers)
      PROVE  /\ workers[w] \in WorkerStateData /\ listeners[w] \in Seq(Nat)
             /\ heard[w] \in Seq(Seq(Nat))
  BY <1>1, ElementOfSeq DEF ShapesOK
<1>4. \A worker \in WorkerStateData :
        worker.scope \in WorkerScope /\ worker.inbound \in Nat /\ worker.received \in Nat
  BY DEF WorkerStateData
<1>5. \A w \in 1 .. Len(workers) : Len(listeners[w]) \in Nat
  BY <1>3, LenProperties
<1> QED
  BY <1>1, <1>2, <1>3, <1>4, <1>5 DEF ShapesOK

LEMMA ScopeAfterFacts ==
  ASSUME NEW scope \in WorkerScope, NEW run \in WorkerRun, NEW inbound \in Nat,
         Numbered(scope, inbound)
  PROVE  /\ ScopeAfter(scope, run) \in WorkerScope
         /\ Numbered(ScopeAfter(scope, run), inbound)
<1> DEFINE new == [i \in 1 .. run.replies |-> scope.posted + i]
           old == scope.outbox
           n == Len(old)
           r == run.replies
           both == old \o new
           after == ScopeAfter(scope, run)
<1>1. /\ old \in Seq(Nat) /\ scope.posted \in Nat /\ scope.closeRequested \in BOOLEAN
      /\ r \in Nat /\ run.listens \in BOOLEAN /\ run.closes \in BOOLEAN /\ run.limited \in BOOLEAN
  BY WorkersAssumption DEF WorkerScope, WorkerRun
<1>2. n \in Nat /\ scope.posted = inbound + n /\ \A i \in 1 .. n : old[i] = inbound + i
  BY <1>1, LenProperties DEF Numbered
<1>3. new \in Seq(Nat) /\ Len(new) = r /\ \A i \in 1 .. r : new[i] = scope.posted + i
  <2> DEFINE p == scope.posted
  <2>1. p \in Nat /\ new = [i \in 1 .. r |-> p + i]
    BY <1>1
  <2> HIDE DEF new, p, r
  <2>2. \A i \in 1 .. r : p + i \in Nat
    BY <2>1
  <2>3. new \in Seq(Nat) /\ Len(new) = r
    BY <1>1, <2>1, <2>2
  <2> QED
    BY <2>1, <2>3 DEF p
<1>4. /\ after.outbox = both /\ after.posted = scope.posted + r
      /\ after = [outbox |-> both, posted |-> scope.posted + r, listens |-> run.listens,
                  closeRequested |-> scope.closeRequested \/ run.closes, jobsLeft |-> run.limited]
  BY DEF ScopeAfter
<1> HIDE DEF new, old, n, r, after
<1>5. /\ both \in Seq(Nat) /\ Len(both) = n + r
      /\ \A i \in 1 .. n + r : both[i] = IF i <= n THEN old[i] ELSE new[i - n]
  BY <1>1, <1>3, ConcatProperties DEF n
<1>6. \A i \in 1 .. n + r : both[i] = inbound + i
  <2> SUFFICES ASSUME NEW i \in 1 .. n + r PROVE both[i] = inbound + i
    OBVIOUS
  <2>0. i \in Int /\ n \in Int
    BY <1>1, <1>2
  <2>1. CASE i <= n
    BY <1>1, <1>2, <1>5, <2>1
  <2>2. CASE ~(i <= n)
    BY <1>1, <1>2, <1>3, <1>5, <2>0, <2>2
  <2> QED
    BY <2>1, <2>2
<1> HIDE DEF both
<1>7. after \in WorkerScope
  BY <1>1, <1>4, <1>5 DEF WorkerScope
<1>8. Numbered(after, inbound)
  BY <1>1, <1>2, <1>4, <1>5, <1>6 DEF Numbered
<1> QED
  BY <1>7, <1>8 DEF after

LEMMA NewScopeFacts ==
  NewScope \in WorkerScope /\ Numbered(NewScope, 0) /\ ~NewScope.closeRequested
BY DEF NewScope, WorkerScope, Numbered

\* Steps that change one worker, and neither listeners nor tasks.
LEMMA OneWorkerChanges ==
  ASSUME WorkersInv, NEW w \in 1 .. Len(workers), NEW worker,
         workers' = [workers EXCEPT ![w] = worker], WorkerOK(worker),
         worker.inbound = workers[w].inbound,
         UNCHANGED <<listeners, mainTasks, heard>>
  PROVE  WorkersInv'
<1>1. worker \in WorkerStateData /\ workers \in Seq(WorkerStateData)
  BY DEF WorkerOK, WorkersInv, ShapesOK
<1>2. /\ workers' \in Seq(WorkerStateData) /\ Len(workers') = Len(workers) /\ workers'[w] = worker
      /\ \A v \in 1 .. Len(workers) : v # w => workers'[v] = workers[v]
  BY <1>1, ExceptSeq
<1>3. ASSUME NEW v \in 1 .. Len(workers)
      PROVE  WorkerOK(workers'[v]) /\ workers'[v].inbound = workers[v].inbound
  BY <1>2, WorkersFacts
<1>4. ShapesOK'
  BY <1>2, <1>3 DEF WorkersInv, ShapesOK
<1>5. TasksOK'
  BY <1>2 DEF WorkersInv, TasksOK
<1>6. ListenersOK'
  BY <1>2, <1>3 DEF WorkersInv, ListenersOK
<1> QED
  BY <1>4, <1>5, <1>6 DEF WorkersInv

LEMMA TerminateInv ==
  ASSUME WorkersInv, NEW w \in 1 .. Len(workers), Terminate(w)
  PROVE  WorkersInv'
<1> DEFINE old == workers[w]
           ended == [old EXCEPT !.state = "terminated"]
           worker == [ended EXCEPT !.scope = NoRuntime]
<1>1. old \in [state : {"active"} \cup Ended, received : Nat, inbound : Nat, scope : WorkerScope]
  BY WorkersFacts DEF WorkerStateData
<1>2. workers' = [workers EXCEPT ![w] = worker]
  BY <1>1, WorkersFacts DEF Terminate
<1> HIDE DEF old
<1>3. /\ ended \in [state : {"active"} \cup Ended, received : Nat, inbound : Nat, scope : WorkerScope]
      /\ ended.inbound = old.inbound /\ ended.state = "terminated"
  BY <1>1 DEF Ended
<1> HIDE DEF ended
<1>4. /\ worker \in WorkerStateData /\ worker.inbound = old.inbound
      /\ worker.state = "terminated"
  BY <1>3, NewScopeFacts DEF WorkerStateData, NoRuntime
<1> HIDE DEF worker
<1>5. WorkerOK(worker)
  BY <1>4 DEF WorkerOK
<1> QED
  BY <1>2, <1>4, <1>5, OneWorkerChanges DEF Terminate, old

LEMMA CreateWorkerInv ==
  ASSUME WorkersInv, NEW run \in WorkerRun, CreateWorker(run)
  PROVE  WorkersInv'
<1> DEFINE scope == ScopeAfter(NewScope, run)
           worker == [state |-> IF run.throws THEN "failed" ELSE "active",
                      received |-> 0, inbound |-> 0, scope |-> scope]
           n == Len(workers)
           none == <<>>
<1>1. scope \in WorkerScope /\ Numbered(scope, 0)
  BY NewScopeFacts, ScopeAfterFacts
<1>2. /\ workers' = Append(workers, worker) /\ n < MaxWorkers /\ mainTasks' = mainTasks
      /\ listeners' = Append(listeners, none) /\ heard' = Append(heard, none)
  BY DEF CreateWorker
<1> HIDE DEF scope
<1>3. WorkerOK(worker)
  BY <1>1 DEF WorkerOK, WorkerStateData, Ended
<1> HIDE DEF worker
<1>4. none \in Seq(Nat) /\ none \in Seq(Seq(Nat)) /\ Len(none) = 0
  OBVIOUS
<1> HIDE DEF none
<1>5. /\ n \in Nat /\ workers \in Seq(WorkerStateData) /\ worker \in WorkerStateData
      /\ listeners \in Seq(Seq(Nat)) /\ Len(listeners) = n
      /\ heard \in Seq(Seq(Seq(Nat))) /\ Len(heard) = n
  BY <1>3, WorkersFacts DEF WorkersInv, ShapesOK, WorkerOK
<1>6. /\ workers' \in Seq(WorkerStateData) /\ Len(workers') = n + 1 /\ workers'[n + 1] = worker
      /\ \A w \in 1 .. n : workers'[w] = workers[w]
  BY <1>2, <1>5, AppendProperties
<1>7. /\ listeners' \in Seq(Seq(Nat)) /\ Len(listeners') = n + 1 /\ listeners'[n + 1] = none
      /\ \A w \in 1 .. n : listeners'[w] = listeners[w]
  BY <1>2, <1>4, <1>5, AppendProperties
<1>8. /\ heard' \in Seq(Seq(Seq(Nat))) /\ Len(heard') = n + 1 /\ heard'[n + 1] = none
      /\ \A w \in 1 .. n : heard'[w] = heard[w]
  BY <1>2, <1>4, <1>5, AppendProperties
<1> HIDE DEF n
<1>9. \A w \in 1 .. n + 1 : w \in 1 .. n \/ w = n + 1
  BY <1>5
<1>10. \A w \in 1 .. n : WorkerOK(workers[w]) /\ Len(heard[w]) = Len(listeners[w])
  BY WorkersFacts DEF n
<1>11. ShapesOK'
  BY <1>2, <1>3, <1>5, <1>6, <1>7, <1>8, <1>9, <1>10, WorkersAssumption DEF ShapesOK
<1>12. TasksOK'
  <2>1. mainTasks \in Seq(Task)
    BY DEF WorkersInv, TasksOK
  <2>2. ASSUME NEW i \in 1 .. Len(mainTasks)
        PROVE  /\ mainTasks[i].worker \in 1 .. n + 1
               /\ mainTasks[i].listener \in 1 .. Len(listeners'[mainTasks[i].worker])
    <3>1. /\ mainTasks[i].worker \in 1 .. n
          /\ mainTasks[i].listener \in 1 .. Len(listeners[mainTasks[i].worker])
      BY DEF WorkersInv, TasksOK, n
    <3>2. mainTasks[i].worker \in 1 .. n + 1
      BY <1>5, <3>1
    <3>3. listeners'[mainTasks[i].worker] = listeners[mainTasks[i].worker]
      BY <1>7, <3>1
    <3> QED
      BY <3>1, <3>2, <3>3
  <2> QED
    BY <1>2, <1>6, <2>1, <2>2 DEF TasksOK
<1>13. ListenersOK'
  <2>1. ASSUME NEW w \in 1 .. n + 1, NEW l \in 1 .. Len(listeners'[w])
        PROVE  ListenerOK(mainTasks, w, l, listeners'[w][l], heard'[w][l], workers'[w].inbound)
    <3>1. w # n + 1
      BY <1>4, <1>7
    <3>2. w \in 1 .. n
      BY <1>9, <3>1
    <3>3. l \in 1 .. Len(listeners[w])
      BY <1>7, <3>2
    <3>4. ListenerOK(mainTasks, w, l, listeners[w][l], heard[w][l], workers[w].inbound)
      BY <3>2, <3>3 DEF WorkersInv, ListenersOK, n
    <3> QED
      BY <1>6, <1>7, <1>8, <3>2, <3>4
  <2> QED
    BY <1>2, <1>6, <2>1 DEF ListenersOK
<1> QED
  BY <1>11, <1>12, <1>13 DEF WorkersInv

\* Of the lists of a worker: where a new element goes, and what it leaves alone.
LEMMA LongerList ==
  ASSUME NEW T, NEW lists \in Seq(Seq(T)), NEW w \in 1 .. Len(lists), NEW new,
         NEW x \in T, new = [lists EXCEPT ![w] = Append(@, x)]
  PROVE  /\ new \in Seq(Seq(T)) /\ Len(new) = Len(lists)
         /\ new[w] \in Seq(T) /\ Len(new[w]) = Len(lists[w]) + 1
         /\ Len(lists[w]) \in Nat /\ new[w][Len(lists[w]) + 1] = x
         /\ \A i \in 1 .. Len(lists[w]) : new[w][i] = lists[w][i]
         /\ \A v \in 1 .. Len(lists) : v # w => new[v] = lists[v]
<1> DEFINE longer == Append(lists[w], x)
<1>1. lists[w] \in Seq(T)
  BY ElementOfSeq
<1>2. /\ longer \in Seq(T) /\ Len(longer) = Len(lists[w]) + 1 /\ longer[Len(lists[w]) + 1] = x
      /\ \A i \in 1 .. Len(lists[w]) : longer[i] = lists[w][i]
  BY <1>1, AppendProperties
<1>3. Len(lists[w]) \in Nat
  BY <1>1, LenProperties
<1>4. new = [lists EXCEPT ![w] = longer]
  OBVIOUS
<1> HIDE DEF longer
<1>5. /\ new \in Seq(Seq(T)) /\ Len(new) = Len(lists) /\ new[w] = longer
      /\ \A v \in 1 .. Len(lists) : v # w => new[v] = lists[v]
  BY <1>2, <1>4, ExceptSeq
<1> QED
  BY <1>2, <1>3, <1>5

LEMMA AddMainEventListenerInv ==
  ASSUME WorkersInv, NEW w \in 1 .. Len(workers), AddMainEventListener(w)
  PROVE  WorkersInv'
<1> DEFINE none == <<>>
           from == workers[w].inbound
           k == Len(listeners[w])
<1>1. /\ workers' = workers /\ mainTasks' = mainTasks
      /\ listeners' = [listeners EXCEPT ![w] = Append(@, from)]
      /\ heard' = [heard EXCEPT ![w] = Append(@, none)]
  BY DEF AddMainEventListener
<1>2. none \in Seq(Nat) /\ Len(none) = 0 /\ from \in Nat
  BY WorkersFacts
<1> HIDE DEF none, from
<1>3. /\ w \in 1 .. Len(listeners) /\ w \in 1 .. Len(heard)
      /\ listeners \in Seq(Seq(Nat)) /\ Len(listeners) = Len(workers)
      /\ heard \in Seq(Seq(Seq(Nat))) /\ Len(heard) = Len(workers)
      /\ Len(heard[w]) = k
  BY DEF WorkersInv, ShapesOK
<1>4. /\ listeners' \in Seq(Seq(Nat)) /\ Len(listeners') = Len(workers)
      /\ Len(listeners'[w]) = k + 1 /\ k \in Nat /\ listeners'[w][k + 1] = from
      /\ \A i \in 1 .. k : listeners'[w][i] = listeners[w][i]
      /\ \A v \in 1 .. Len(workers) : v # w => listeners'[v] = listeners[v]
  BY <1>1, <1>2, <1>3, LongerList
<1>5. /\ heard' \in Seq(Seq(Seq(Nat))) /\ Len(heard') = Len(workers)
      /\ Len(heard'[w]) = k + 1 /\ heard'[w][k + 1] = none
      /\ \A i \in 1 .. k : heard'[w][i] = heard[w][i]
      /\ \A v \in 1 .. Len(workers) : v # w => heard'[v] = heard[v]
  BY <1>1, <1>2, <1>3, LongerList
<1>6. ShapesOK'
  BY <1>1, <1>4, <1>5, WorkersFacts DEF WorkersInv, ShapesOK
<1>7. \A i \in 1 .. Len(mainTasks) :
        /\ mainTasks[i].worker \in 1 .. Len(workers)
        /\ mainTasks[i].listener \in 1 .. Len(listeners[mainTasks[i].worker])
  BY DEF WorkersInv, TasksOK
<1>8. TasksOK'
  <2>1. mainTasks \in Seq(Task)
    BY DEF WorkersInv, TasksOK
  <2>2. ASSUME NEW v \in 1 .. Len(workers), NEW l \in 1 .. Len(listeners[v])
        PROVE  l \in 1 .. Len(listeners'[v])
    <3>1. CASE v = w
      BY <1>4, <3>1
    <3>2. CASE v # w
      BY <1>4, <3>2
    <3> QED
      BY <3>1, <3>2
  <2> QED
    BY <1>1, <1>7, <2>1, <2>2 DEF TasksOK
<1>9. ListenersOK'
  <2>1. ASSUME NEW v \in 1 .. Len(workers), NEW l \in 1 .. Len(listeners'[v])
        PROVE  ListenerOK(mainTasks, v, l, listeners'[v][l], heard'[v][l], workers[v].inbound)
    <3>1. CASE v = w /\ l = k + 1
      <4>1. \A i \in 1 .. Len(mainTasks) : ~(mainTasks[i].worker = w /\ mainTasks[i].listener = l)
        BY <1>4, <1>7, <3>1
      <4>2. Carries(mainTasks, w, l, from, from)
        BY <1>2, <4>1, CarriesNone
      <4>3. from + 0 = from /\ from <= from
        BY <1>2
      <4>4. \A i \in 1 .. Len(none) : none[i] = from + i
        BY <1>2
      <4>5. ListenerOK(mainTasks, w, l, from, none, from)
        BY <1>2, <4>2, <4>3, <4>4 DEF ListenerOK
      <4> QED
        BY <1>4, <1>5, <3>1, <4>5 DEF from
    <3>2. CASE v = w /\ l # k + 1
      <4>1. l \in 1 .. k
        BY <1>4, <3>2
      <4>2. ListenerOK(mainTasks, v, l, listeners[v][l], heard[v][l], workers[v].inbound)
        BY <3>2, <4>1 DEF WorkersInv, ListenersOK
      <4> QED
        BY <1>4, <1>5, <3>2, <4>1, <4>2
    <3>3. CASE v # w
      BY <1>4, <1>5, <3>3 DEF WorkersInv, ListenersOK
    <3> QED
      BY <3>1, <3>2, <3>3
  <2> QED
    BY <1>1, <2>1 DEF ListenersOK
<1> QED
  BY <1>6, <1>8, <1>9 DEF WorkersInv

LEMMA FailedWorkerInv ==
  ASSUME WorkersInv, NEW w \in 1 .. Len(workers), NEW run \in WorkerRun,
         PostMessageToWorker(w, run), run.throws
  PROVE  WorkersInv'
<1> DEFINE old == workers[w]
           scope == ScopeAfter(old.scope, run)
           none == <<>>
           drained == [scope EXCEPT !.outbox = none]
           failed == [old EXCEPT !.state = "failed"]
           counted == [failed EXCEPT !.received = @ + 1]
           worker == [counted EXCEPT !.scope = drained]
           Rec == [state : {"active"} \cup Ended, received : Nat, inbound : Nat, scope : WorkerScope]
<1>1. old \in Rec /\ WorkerOK(old) /\ old.state = "active" /\ old.scope \in WorkerScope /\ old.inbound \in Nat
  BY WorkersFacts DEF WorkerStateData, PostMessageToWorker, CanReceive
<1>2. workers' = [workers EXCEPT ![w] = worker] /\ UNCHANGED <<listeners, mainTasks, heard>>
  BY <1>1, WorkersFacts DEF PostMessageToWorker, FailedWorker
<1>3. scope \in WorkerScope
  BY <1>1, ScopeAfterFacts DEF WorkerOK
<1> HIDE DEF old, scope
<1>4. drained \in WorkerScope
  <2>1. none \in Seq(Nat)
    OBVIOUS
  <2> HIDE DEF none
  <2> QED
    BY <1>3, <2>1 DEF WorkerScope
<1> HIDE DEF drained
<1>5. failed \in Rec /\ failed.inbound = old.inbound /\ failed.state = "failed"
  BY <1>1 DEF Ended
<1> HIDE DEF failed
<1>6. counted \in Rec /\ counted.inbound = old.inbound /\ counted.state = "failed"
  BY <1>5
<1> HIDE DEF counted
<1>7. worker \in Rec /\ worker.inbound = old.inbound /\ worker.state = "failed"
  BY <1>4, <1>6
<1> HIDE DEF worker
<1>8. WorkerOK(worker)
  BY <1>7 DEF WorkerOK, WorkerStateData
<1> QED
  BY <1>2, <1>7, <1>8, OneWorkerChanges DEF old

\* What the worker that took a message looks like, and what it handed over.
LEMMA ServedWorkerFacts ==
  ASSUME NEW old, WorkerOK(old), old.state = "active", NEW run \in WorkerRun
  PROVE  LET scope == ScopeAfter(old.scope, run)
             served == ServedWorker(old, scope)
         IN  /\ scope.outbox \in Seq(Nat) /\ Len(scope.outbox) \in Nat
             /\ \A i \in 1 .. Len(scope.outbox) : scope.outbox[i] = old.inbound + i
             /\ old.inbound \in Nat /\ served.inbound = old.inbound + Len(scope.outbox)
             /\ WorkerOK(served)
<1> DEFINE scope == ScopeAfter(old.scope, run)
           served == ServedWorker(old, scope)
           n == Len(scope.outbox)
           none == <<>>
           drained == [scope EXCEPT !.outbox = none]
<1>1. /\ old \in [state : {"active"} \cup Ended, received : Nat, inbound : Nat, scope : WorkerScope]
      /\ Numbered(old.scope, old.inbound)
  BY DEF WorkerOK, WorkerStateData
<1>2. old.inbound \in Nat /\ old.received \in Nat /\ old.scope \in WorkerScope
  BY <1>1
<1>3. scope \in WorkerScope /\ Numbered(scope, old.inbound)
  BY <1>1, <1>2, ScopeAfterFacts
<1>4. /\ served.state = IF scope.closeRequested THEN "terminated" ELSE "active"
      /\ served.inbound = old.inbound + n
      /\ served.scope = IF scope.closeRequested THEN NoRuntime ELSE drained
      /\ served = [state |-> IF scope.closeRequested THEN "terminated" ELSE "active",
                   received |-> old.received + 1,
                   inbound |-> old.inbound + n,
                   scope |-> IF scope.closeRequested THEN NoRuntime ELSE drained]
  BY DEF ServedWorker
<1> HIDE DEF scope, served
<1>5. scope.outbox \in Seq(Nat) /\ n \in Nat
  BY <1>3, LenProperties DEF WorkerScope
<1>6. none \in Seq(Nat) /\ Len(none) = 0
  OBVIOUS
<1>7. scope.posted = old.inbound + n /\ \A i \in 1 .. n : scope.outbox[i] = old.inbound + i
  BY <1>3 DEF Numbered
<1> HIDE DEF none
<1>8. /\ drained \in WorkerScope /\ drained.outbox = none /\ drained.posted = scope.posted
      /\ drained.closeRequested = scope.closeRequested
  BY <1>3, <1>6 DEF WorkerScope
<1> HIDE DEF drained, n
<1>9. NoRuntime \in WorkerScope
  BY NewScopeFacts DEF NoRuntime
<1>10. served \in WorkerStateData
  BY <1>2, <1>4, <1>5, <1>8, <1>9 DEF WorkerStateData, Ended
<1>11. ASSUME served.state = "active"
       PROVE  Numbered(served.scope, served.inbound) /\ ~served.scope.closeRequested
  BY <1>2, <1>4, <1>5, <1>6, <1>7, <1>8, <1>11 DEF Numbered
<1>12. WorkerOK(served)
  BY <1>10, <1>11 DEF WorkerOK
<1> QED
  BY <1>2, <1>4, <1>5, <1>7, <1>12 DEF scope, served, n

LEMMA ServedWorkerInv ==
  ASSUME WorkersInv, NEW w \in 1 .. Len(workers), NEW run \in WorkerRun,
         PostMessageToWorker(w, run), ~run.throws
  PROVE  WorkersInv'
<1> DEFINE old == workers[w]
           scope == ScopeAfter(old.scope, run)
           worker == ServedWorker(old, scope)
           n == Len(scope.outbox)
           base == old.inbound
           tasks == WorkerMessageTasks(w, scope.outbox)
           some == Len(listeners[w])
<1>1. WorkerOK(old) /\ old.state = "active"
  BY WorkersFacts DEF PostMessageToWorker, CanReceive
<1>2. /\ workers' = [workers EXCEPT ![w] = worker] /\ mainTasks' = mainTasks \o tasks
      /\ listeners' = listeners /\ heard' = heard
  BY DEF PostMessageToWorker
<1>3. /\ scope.outbox \in Seq(Nat) /\ n \in Nat
      /\ \A i \in 1 .. n : scope.outbox[i] = base + i
      /\ base \in Nat /\ worker.inbound = base + n /\ WorkerOK(worker)
  BY <1>1, ServedWorkerFacts
<1>4. w \in Nat /\ some \in Nat
  BY WorkersFacts
<1>5. /\ tasks \in Seq(Task)
      /\ \A i \in 1 .. Len(tasks) : tasks[i].worker = w /\ tasks[i].listener \in 1 .. some
      /\ \A l \in 1 .. some : Carries(tasks, w, l, base, base + n)
  BY <1>3, <1>4, MessageTasksFacts
<1> HIDE DEF worker, tasks, n, base, some
<1>6. worker \in WorkerStateData /\ workers \in Seq(WorkerStateData)
  BY <1>3 DEF WorkerOK, WorkersInv, ShapesOK
<1>7. /\ workers' \in Seq(WorkerStateData) /\ Len(workers') = Len(workers) /\ workers'[w] = worker
      /\ \A v \in 1 .. Len(workers) : v # w => workers'[v] = workers[v]
  BY <1>2, <1>6, ExceptSeq
<1>8. ShapesOK'
  BY <1>2, <1>3, <1>7, WorkersFacts DEF WorkersInv, ShapesOK
<1>9. /\ mainTasks \in Seq(Task)
      /\ \A i \in 1 .. Len(mainTasks) :
           /\ mainTasks[i].worker \in 1 .. Len(workers)
           /\ mainTasks[i].listener \in 1 .. Len(listeners[mainTasks[i].worker])
  BY DEF WorkersInv, TasksOK
<1>10. TasksOK'
  <2>1. /\ mainTasks' \in Seq(Task)
        /\ \A i \in 1 .. Len(mainTasks') :
             \/ \E j \in 1 .. Len(mainTasks) : mainTasks'[i] = mainTasks[j]
             \/ \E j \in 1 .. Len(tasks) : mainTasks'[i] = tasks[j]
    <3>1. Len(mainTasks) \in Nat /\ Len(tasks) \in Nat
      BY <1>5, <1>9, LenProperties
    <3>2. /\ mainTasks' \in Seq(Task) /\ Len(mainTasks') = Len(mainTasks) + Len(tasks)
          /\ \A i \in 1 .. Len(mainTasks) + Len(tasks) :
               mainTasks'[i] = IF i <= Len(mainTasks) THEN mainTasks[i]
                                                      ELSE tasks[i - Len(mainTasks)]
      BY <1>2, <1>5, <1>9, ConcatProperties
    <3>3. \A i \in 1 .. Len(mainTasks) + Len(tasks) :
            i \in 1 .. Len(mainTasks) \/ (i > Len(mainTasks) /\ i - Len(mainTasks) \in 1 .. Len(tasks))
      BY <3>1
    <3>4. \A i \in 1 .. Len(mainTasks) : i <= Len(mainTasks)
      OBVIOUS
    <3>5. \A i \in 1 .. Len(mainTasks) + Len(tasks) : i > Len(mainTasks) => ~(i <= Len(mainTasks))
      BY <3>1
    <3> QED
      BY <3>2, <3>3, <3>4, <3>5
  <2>2. w \in 1 .. Len(workers) /\ some = Len(listeners[w])
    BY DEF some
  <2>3. \A i \in 1 .. Len(mainTasks') :
          /\ mainTasks'[i].worker \in 1 .. Len(workers)
          /\ mainTasks'[i].listener \in 1 .. Len(listeners[mainTasks'[i].worker])
    BY <1>5, <1>9, <2>1, <2>2
  <2> QED
    BY <1>2, <1>7, <2>1, <2>3 DEF TasksOK
<1>11. ListenersOK'
  <2>1. ASSUME NEW v \in 1 .. Len(workers), NEW l \in 1 .. Len(listeners[v])
        PROVE  ListenerOK(mainTasks', v, l, listeners[v][l], heard[v][l], workers'[v].inbound)
    <3> DEFINE from == listeners[v][l]
               told == heard[v][l]
               so == from + Len(told)
               inbound == workers[v].inbound
               later == workers'[v].inbound
    <3>1. ListenerOK(mainTasks, v, l, from, told, inbound)
      BY DEF WorkersInv, ListenersOK
    <3>2. inbound \in Nat
      BY WorkersFacts
    <3>3. so \in Nat /\ so <= inbound /\ Carries(mainTasks, v, l, so, inbound)
      BY <3>1, LenProperties DEF ListenerOK
    <3>4. later \in Nat /\ inbound <= later /\ Carries(tasks, v, l, inbound, later)
      <4>1. CASE v = w
        BY <1>3, <1>5, <1>7, <4>1 DEF base, some
      <4>2. CASE v # w
        <5>1. later = inbound
          BY <1>7, <4>2
        <5>2. \A i \in 1 .. Len(tasks) : ~(tasks[i].worker = v /\ tasks[i].listener = l)
          BY <1>5, <4>2
        <5>3. Carries(tasks, v, l, inbound, inbound)
          BY <3>2, <5>2, CarriesNone
        <5> QED
          BY <3>2, <5>1, <5>3
      <4> QED
        BY <4>1, <4>2
    <3> HIDE DEF so, inbound, later
    <3>5. Carries(mainTasks \o tasks, v, l, so, later)
      BY <1>5, <1>9, <3>2, <3>3, <3>4, CarriesBoth
    <3>6. so <= later
      BY <3>2, <3>3, <3>4
    <3>7. so = from + Len(told) /\ inbound = workers[v].inbound /\ later = workers'[v].inbound
      BY DEF so, inbound, later
    <3> QED
      BY <1>2, <3>1, <3>5, <3>6, <3>7 DEF ListenerOK
  <2> QED
    BY <1>2, <1>7, <2>1 DEF ListenersOK
<1> QED
  BY <1>8, <1>10, <1>11 DEF WorkersInv

LEMMA RunMainTaskInv ==
  ASSUME WorkersInv, RunMainTask
  PROVE  WorkersInv'
<1> DEFINE task == Head(mainTasks)
           rest == Tail(mainTasks)
           u == task.worker
           k == task.listener
           mine == heard[u]
           longer == [mine EXCEPT ![k] = Append(@, task.message)]
<1>1. /\ mainTasks # <<>> /\ mainTasks' = rest /\ workers' = workers /\ listeners' = listeners
      /\ heard' = [heard EXCEPT ![u] = longer]
  BY DEF RunMainTask
<1>2. /\ mainTasks \in Seq(Task)
      /\ \A i \in 1 .. Len(mainTasks) :
           /\ mainTasks[i].worker \in 1 .. Len(workers)
           /\ mainTasks[i].listener \in 1 .. Len(listeners[mainTasks[i].worker])
  BY DEF WorkersInv, TasksOK
<1>3. /\ 1 \in 1 .. Len(mainTasks) /\ task = mainTasks[1] /\ task \in Task
      /\ rest \in Seq(Task) /\ Len(rest) = Len(mainTasks) - 1 /\ Len(mainTasks) \in Nat
      /\ \A i \in 1 .. Len(rest) : rest[i] = mainTasks[i + 1] /\ i + 1 \in 1 .. Len(mainTasks)
  <2>1. Len(mainTasks) \in Nat /\ Len(mainTasks) # 0
    BY <1>1, <1>2, LenProperties, EmptySeq
  <2>2. /\ task = mainTasks[1] /\ rest \in Seq(Task) /\ Len(rest) = Len(mainTasks) - 1
        /\ \A i \in 1 .. Len(rest) : rest[i] = mainTasks[i + 1]
    BY <1>1, <1>2, HeadTailProperties
  <2>3. 1 \in 1 .. Len(mainTasks)
    BY <2>1
  <2>4. \A i \in 1 .. Len(rest) : i + 1 \in 1 .. Len(mainTasks)
    BY <2>1, <2>2
  <2>5. mainTasks[1] \in Task
    BY <1>2, <2>3, ElementOfSeq
  <2> QED
    BY <2>1, <2>2, <2>3, <2>4, <2>5
<1>4. /\ u \in 1 .. Len(workers) /\ k \in 1 .. Len(listeners[u]) /\ task.message \in Nat
  BY <1>2, <1>3 DEF Task
<1>5. /\ heard \in Seq(Seq(Seq(Nat))) /\ Len(heard) = Len(workers)
      /\ mine \in Seq(Seq(Nat)) /\ Len(mine) = Len(listeners[u])
  BY <1>4, WorkersFacts DEF WorkersInv, ShapesOK
<1> HIDE DEF mine
<1>6. k \in 1 .. Len(mine)
  BY <1>4, <1>5
<1>7. /\ longer \in Seq(Seq(Nat)) /\ Len(longer) = Len(mine)
      /\ longer[k] \in Seq(Nat) /\ Len(longer[k]) = Len(mine[k]) + 1
      /\ Len(mine[k]) \in Nat /\ longer[k][Len(mine[k]) + 1] = task.message
      /\ \A i \in 1 .. Len(mine[k]) : longer[k][i] = mine[k][i]
      /\ \A l \in 1 .. Len(mine) : l # k => longer[l] = mine[l]
  <2> DEFINE message == task.message
  <2>1. longer = [mine EXCEPT ![k] = Append(@, message)] /\ message \in Nat
    BY <1>4
  <2> HIDE DEF longer, message, k
  <2>2. /\ longer \in Seq(Seq(Nat)) /\ Len(longer) = Len(mine)
        /\ longer[k] \in Seq(Nat) /\ Len(longer[k]) = Len(mine[k]) + 1
        /\ Len(mine[k]) \in Nat /\ longer[k][Len(mine[k]) + 1] = message
        /\ \A i \in 1 .. Len(mine[k]) : longer[k][i] = mine[k][i]
        /\ \A l \in 1 .. Len(mine) : l # k => longer[l] = mine[l]
    BY <1>5, <1>6, <2>1, LongerList
  <2> QED
    BY <2>2 DEF message
<1> HIDE DEF longer
<1>8. /\ heard' \in Seq(Seq(Seq(Nat))) /\ Len(heard') = Len(workers) /\ heard'[u] = longer
      /\ \A w \in 1 .. Len(workers) : w # u => heard'[w] = heard[w]
  BY <1>1, <1>4, <1>5, <1>7, ExceptSeq
<1> HIDE DEF task, rest
<1>9. ShapesOK'
  BY <1>1, <1>5, <1>7, <1>8, WorkersFacts DEF mine, WorkersInv, ShapesOK
<1>10. TasksOK'
  BY <1>1, <1>2, <1>3 DEF TasksOK
<1>11. ListenersOK'
  <2>1. ASSUME NEW w \in 1 .. Len(workers), NEW l \in 1 .. Len(listeners[w])
        PROVE  ListenerOK(rest, w, l, listeners[w][l], heard'[w][l], workers[w].inbound)
    <3> DEFINE from == listeners[w][l]
               told == heard[w][l]
               so == from + Len(told)
               inbound == workers[w].inbound
    <3>1. ListenerOK(mainTasks, w, l, from, told, inbound)
      BY DEF WorkersInv, ListenersOK
    <3>2. inbound \in Nat
      BY WorkersFacts
    <3>3. /\ so \in Nat /\ so <= inbound /\ Carries(mainTasks, w, l, so, inbound)
          /\ from \in Nat /\ told \in Seq(Nat) /\ Len(told) \in Nat
          /\ \A i \in 1 .. Len(told) : told[i] = from + i
      <4>1. told \in Seq(Nat)
        BY <3>1 DEF ListenerOK
      <4>2. Len(told) \in Nat
        BY <4>1, LenProperties
      <4>3. from \in Nat /\ so <= inbound
        BY <3>1 DEF ListenerOK
      <4>4. Carries(mainTasks, w, l, so, inbound) /\ \A i \in 1 .. Len(told) : told[i] = from + i
        BY <3>1 DEF ListenerOK
      <4>5. so \in Nat
        BY <4>2, <4>3
      <4> QED
        BY <4>1, <4>2, <4>3, <4>4, <4>5
    <3> DEFINE len == Len(told)
    <3>4. len \in Nat /\ so = from + len
      BY <3>3
    <3> HIDE DEF so, inbound
    <3>5. IF u = w /\ k = l
          THEN /\ task.message = so + 1 /\ so + 1 <= inbound
               /\ Carries(rest, w, l, so + 1, inbound)
          ELSE Carries(rest, w, l, so, inbound)
      BY <1>1, <1>2, <3>2, <3>3, CarriesRest DEF task, rest
    <3>6. CASE u = w /\ k = l
      <4> DEFINE now == longer[k]
      <4>1. heard'[w][l] = now /\ told = mine[k]
        BY <1>8, <3>6 DEF mine
      <4>2. /\ now \in Seq(Nat) /\ Len(now) = len + 1 /\ now[len + 1] = so + 1
            /\ \A i \in 1 .. len : now[i] = told[i]
        BY <1>7, <3>5, <3>6, <4>1
      <4> HIDE DEF now, len
      <4>3. \A i \in 1 .. len + 1 : i \in 1 .. len \/ i = len + 1
        BY <3>4
      <4>4. so + 1 = from + (len + 1)
        <5>1. from \in Nat /\ len \in Nat /\ so = from + len
          BY <3>3, <3>4
        <5> HIDE DEF from
        <5> QED
          BY <5>1
      <4>5. \A i \in 1 .. len + 1 : now[i] = from + i
        BY <3>3, <4>2, <4>3, <4>4 DEF len
      <4>6. ListenerOK(rest, w, l, from, now, inbound)
        BY <3>3, <3>5, <3>6, <4>2, <4>4, <4>5 DEF ListenerOK
      <4> QED
        BY <4>1, <4>6 DEF inbound
    <3>7. CASE ~(u = w /\ k = l)
      <4>1. heard'[w][l] = told
        <5>1. CASE w = u
          BY <1>5, <1>7, <1>8, <3>7, <5>1 DEF mine
        <5>2. CASE w # u
          BY <1>8, <5>2
        <5> QED
          BY <5>1, <5>2
      <4>2. Carries(rest, w, l, so, inbound)
        BY <3>5, <3>7
      <4>3. ListenerOK(rest, w, l, from, told, inbound)
        BY <3>3, <4>2 DEF ListenerOK, so
      <4> QED
        BY <4>1, <4>3 DEF inbound
    <3> QED
      BY <3>6, <3>7
  <2> QED
    BY <1>1, <2>1 DEF ListenersOK
<1> QED
  BY <1>9, <1>10, <1>11 DEF WorkersInv

LEMMA WorkersInitInv == WorkersInit => WorkersInv
<1> SUFFICES ASSUME WorkersInit PROVE WorkersInv
  OBVIOUS
<1>1. workers = <<>> /\ listeners = <<>> /\ mainTasks = <<>> /\ heard = <<>>
  BY DEF WorkersInit
<1>2. /\ workers \in Seq(WorkerStateData) /\ Len(workers) = 0
      /\ listeners \in Seq(Seq(Nat)) /\ Len(listeners) = 0
      /\ heard \in Seq(Seq(Seq(Nat))) /\ Len(heard) = 0
      /\ mainTasks \in Seq(Task) /\ Len(mainTasks) = 0
  BY <1>1
<1>3. 0 \in 0 .. MaxWorkers /\ \A i \in 1 .. 0 : FALSE
  BY WorkersAssumption
<1> QED
  BY <1>2, <1>3 DEF WorkersInv, ShapesOK, TasksOK, ListenersOK

LEMMA WorkersStep ==
  ASSUME WorkersInv, [WorkersNext]_workersVars
  PROVE  WorkersInv'
<1>1. CASE UNCHANGED workersVars
  BY <1>1 DEF workersVars, WorkersInv, ShapesOK, TasksOK, ListenersOK
<1>2. ASSUME NEW run \in WorkerRun, CreateWorker(run) PROVE WorkersInv'
  BY <1>2, CreateWorkerInv
<1>3. ASSUME NEW w \in DOMAIN workers, AddMainEventListener(w) PROVE WorkersInv'
  BY <1>3, WorkersFacts, AddMainEventListenerInv
<1>4. ASSUME NEW w \in DOMAIN workers, Terminate(w) PROVE WorkersInv'
  BY <1>4, WorkersFacts, TerminateInv
<1>5. ASSUME NEW w \in DOMAIN workers, NEW run \in WorkerRun, PostMessageToWorker(w, run)
      PROVE  WorkersInv'
  BY <1>5, WorkersFacts, FailedWorkerInv, ServedWorkerInv
<1>6. CASE RunMainTask
  BY <1>6, RunMainTaskInv
<1> QED
  BY <1>1, <1>2, <1>3, <1>4, <1>5, <1>6 DEF WorkersNext

\* WorkersInv: the message order of a queue read off as OnTheWay reads it.
LEMMA OnTheWayFacts ==
  ASSUME mainTasks \in Seq(Task), NEW w, NEW l, NEW lo \in Nat, NEW hi \in Nat, lo <= hi,
         Carries(mainTasks, w, l, lo, hi)
  PROVE  /\ OnTheWay(w, l) \in Seq(Nat) /\ Len(OnTheWay(w, l)) = hi - lo
         /\ \A i \in 1 .. hi - lo : OnTheWay(w, l)[i] = lo + i
<1> DEFINE S == {i \in 1 .. Len(mainTasks) : mainTasks[i].worker = w /\ mainTasks[i].listener = l}
           mine == InOrder(S)
           k == Len(mine)
           list == [n \in 1 .. k |-> mainTasks[mine[n]].message]
<1>1. OnTheWay(w, l) = list
  BY DEF OnTheWay
<1>2. Len(mainTasks) \in Nat
  BY LenProperties
<1>3. S \in SUBSET Int /\ IsFiniteSet(S)
  <2>1. IsFiniteSet(1 .. Len(mainTasks))
    BY <1>2, FS_Interval
  <2> QED
    BY <2>1, FS_Subset
<1>4. EnumeratesInOrder(mine, S) /\ mine \in Seq(S) /\ k = Cardinality(S)
  BY <1>3, InOrderEnumerates
<1>5. k \in Nat
  BY <1>4, LenProperties
<1>6. /\ \A n \in 1 .. k : mine[n] \in S
      /\ \A x \in S : \E n \in 1 .. k : mine[n] = x
      /\ \A n, m \in 1 .. k : n < m => mine[n] < mine[m]
  BY <1>4 DEF EnumeratesInOrder
<1>7. \A i \in 1 .. Len(mainTasks) : mainTasks[i].message \in Nat
  <2>1. \A i \in 1 .. Len(mainTasks) : mainTasks[i] \in Task
    BY ElementOfSeq
  <2> QED
    BY <2>1 DEF Task
<1>8. \A n \in 1 .. k :
        /\ mine[n] \in 1 .. Len(mainTasks)
        /\ mainTasks[mine[n]].worker = w /\ mainTasks[mine[n]].listener = l
        /\ list[n] = mainTasks[mine[n]].message
  BY <1>6
<1>9. \A i \in 1 .. Len(mainTasks) :
        mainTasks[i].worker = w /\ mainTasks[i].listener = l => \E n \in 1 .. k : mine[n] = i
  BY <1>6
<1>10. list \in Seq(Nat) /\ Len(list) = k
  BY <1>5, <1>7, <1>8
<1> HIDE DEF S, mine, k, list
<1>11. \A n, m \in 1 .. k : n < m => list[n] < list[m]
  BY <1>6, <1>8 DEF Carries
<1>12. \A n \in 1 .. k : list[n] \in lo + 1 .. hi
  BY <1>7, <1>8 DEF Carries
<1>13. \A x \in lo + 1 .. hi : \E n \in 1 .. k : list[n] = x
  <2> SUFFICES ASSUME NEW x \in lo + 1 .. hi
               PROVE  \E n \in 1 .. k : list[n] = x
    OBVIOUS
  <2>1. x \in Nat
    OBVIOUS
  <2>2. PICK i \in 1 .. Len(mainTasks) : /\ mainTasks[i].worker = w /\ mainTasks[i].listener = l
                                         /\ mainTasks[i].message = x
    BY <2>1 DEF Carries
  <2>3. PICK n \in 1 .. k : mine[n] = i
    BY <1>9, <2>2
  <2> QED
    BY <1>8, <2>2, <2>3
<1>14. CountsUp(k, list, lo, hi)
  BY <1>5, <1>11, <1>12, <1>13, CountThrough
<1> QED
  BY <1>1, <1>10, <1>14 DEF CountsUp

\* ListenersHearEveryMessage is WorkersInv read through OnTheWay.
LEMMA ListenersAreTold ==
  ASSUME WorkersInv
  PROVE  ListenersHearEveryMessage
<1> SUFFICES ASSUME NEW w \in DOMAIN workers, NEW l \in DOMAIN listeners[w]
             PROVE  heard[w][l] \o OnTheWay(w, l)
                      = [i \in 1 .. workers[w].inbound - listeners[w][l] |-> listeners[w][l] + i]
  BY DEF ListenersHearEveryMessage
<1> DEFINE from == listeners[w][l]
           told == heard[w][l]
           h == Len(told)
           inbound == workers[w].inbound
           rest == OnTheWay(w, l)
           both == told \o rest
           all == inbound - from
<1>1. w \in 1 .. Len(workers) /\ inbound \in Nat /\ listeners[w] \in Seq(Nat)
  BY WorkersFacts
<1>2. l \in 1 .. Len(listeners[w])
  BY <1>1, LenProperties
<1>3. ListenerOK(mainTasks, w, l, from, told, inbound)
  BY <1>1, <1>2 DEF WorkersInv, ListenersOK
<1>4. /\ from \in Nat /\ told \in Seq(Nat) /\ from + h <= inbound /\ h \in Nat
      /\ \A i \in 1 .. h : told[i] = from + i
      /\ Carries(mainTasks, w, l, from + h, inbound)
  BY <1>3, LenProperties DEF ListenerOK
<1> HIDE DEF inbound, h
<1>5. from + h \in Nat /\ mainTasks \in Seq(Task)
  BY <1>4 DEF WorkersInv, TasksOK
<1> DEFINE so == from + h
<1>6. so \in Nat /\ so <= inbound /\ Carries(mainTasks, w, l, so, inbound) /\ inbound \in Nat
  BY <1>1, <1>4, <1>5 DEF inbound
<1> HIDE DEF so
<1>7. /\ rest \in Seq(Nat) /\ Len(rest) = inbound - so
      /\ \A i \in 1 .. inbound - so : rest[i] = so + i
  BY <1>5, <1>6, OnTheWayFacts
<1> HIDE DEF rest
<1>8. /\ both \in Seq(Nat) /\ Len(both) = h + (inbound - so)
      /\ \A i \in 1 .. h + (inbound - so) : both[i] = IF i <= h THEN told[i] ELSE rest[i - h]
  <2>1. /\ both \in Seq(Nat) /\ Len(both) = Len(told) + Len(rest)
        /\ \A i \in 1 .. Len(told) + Len(rest) :
             both[i] = IF i <= Len(told) THEN told[i] ELSE rest[i - Len(told)]
    BY <1>4, <1>7, ConcatProperties
  <2> QED
    BY <1>7, <2>1 DEF h
<1>9. h + (inbound - so) = all /\ so = from + h /\ all \in Nat
  <2>1. from \in Nat /\ h \in Nat /\ inbound \in Nat /\ so = from + h /\ so <= inbound
    BY <1>4, <1>6 DEF so
  <2> HIDE DEF from
  <2> QED
    BY <2>1
<1> HIDE DEF both, all
<1>10. \A i \in 1 .. all : both[i] = from + i
  <2> SUFFICES ASSUME NEW i \in 1 .. all PROVE both[i] = from + i
    OBVIOUS
  <2>0. i \in Int /\ h \in Int /\ from \in Int /\ so \in Int /\ inbound \in Int
    BY <1>4, <1>6
  <2>1. CASE i <= h
    <3>1. i \in 1 .. h
      BY <1>4, <2>1
    <3>2. both[i] = told[i]
      BY <1>8, <1>9, <2>1
    <3> QED
      BY <1>4, <3>1, <3>2
  <2>2. CASE ~(i <= h)
    <3>1. i - h \in 1 .. inbound - so
      BY <1>9, <2>0, <2>2
    <3>2. both[i] = rest[i - h]
      BY <1>8, <1>9, <2>2
    <3>3. rest[i - h] = so + (i - h)
      BY <1>7, <3>1
    <3> QED
      BY <1>9, <2>0, <3>2, <3>3
  <2> QED
    BY <2>1, <2>2
<1>11. DOMAIN both = 1 .. all /\ both = [i \in DOMAIN both |-> both[i]]
  BY <1>8, <1>9, LenProperties
<1>12. both = [i \in 1 .. all |-> from + i]
  BY <1>10, <1>11
<1> QED
  BY <1>12 DEF both, all, inbound, rest

\* A step of an ended worker, and what asking to close leads to.
LEMMA EndedStep ==
  ASSUME WorkersInv, [WorkersNext]_workersVars, NEW w \in DOMAIN workers
  PROVE  /\ workers[w].state \in Ended =>
              /\ workers'[w].state \in {workers[w].state, "terminated"}
              /\ workers'[w].received = workers[w].received
              /\ workers'[w].inbound = workers[w].inbound
         /\ workers'[w].state = "active" /\ workers'[w].scope.closeRequested =>
              workers'[w].received = 0
<1> USE WorkersFacts
<1>1. w \in 1 .. Len(workers) /\ workers \in Seq(WorkerStateData)
  BY DEF WorkersInv, ShapesOK
<1>2. WorkersInv' /\ Len(workers') \in Nat
  BY WorkersStep, LenProperties DEF WorkersInv, ShapesOK
<1>3. ASSUME w \in 1 .. Len(workers')
      PROVE  workers'[w].state = "active" /\ workers'[w].scope.closeRequested =>
               workers'[w].received = 0
  BY <1>2, <1>3 DEF WorkersInv, ShapesOK, WorkerOK
<1>4. ASSUME workers'[w] = workers[w], Len(workers) <= Len(workers')
      PROVE  w \in 1 .. Len(workers') /\ workers'[w] = workers[w]
  BY <1>1, <1>2, <1>4
<1>5. CASE workers' = workers
  BY <1>1, <1>3, <1>5
<1>6. ASSUME NEW run \in WorkerRun, CreateWorker(run)
      PROVE  workers'[w] = workers[w] /\ w \in 1 .. Len(workers')
  <2> DEFINE worker == [state |-> IF run.throws THEN "failed" ELSE "active",
                        received |-> 0, inbound |-> 0, scope |-> ScopeAfter(NewScope, run)]
  <2>1. workers' = Append(workers, worker)
    BY <1>6 DEF CreateWorker
  <2> HIDE DEF worker
  <2>2. Len(workers') = Len(workers) + 1 /\ workers'[w] = workers[w]
    BY <1>1, <2>1, AppendProperties
  <2> QED
    BY <1>1, <1>2, <2>2
<1>7. ASSUME NEW v \in DOMAIN workers, Terminate(v)
      PROVE  /\ w \in 1 .. Len(workers')
             /\ workers'[w].state \in {workers[w].state, "terminated"}
             /\ workers'[w].received = workers[w].received
             /\ workers'[w].inbound = workers[w].inbound
  <2> DEFINE old == workers[v]
             ended == [old EXCEPT !.state = "terminated"]
             worker == [ended EXCEPT !.scope = NoRuntime]
  <2>1. /\ old \in [state : {"active"} \cup Ended, received : Nat, inbound : Nat, scope : WorkerScope]
        /\ v \in 1 .. Len(workers)
    BY DEF WorkerStateData
  <2>2. workers' = [workers EXCEPT ![v] = worker]
    BY <1>7, <2>1 DEF Terminate
  <2> HIDE DEF old
  <2>3. /\ ended \in [state : {"active"} \cup Ended, received : Nat, inbound : Nat, scope : WorkerScope]
        /\ ended.inbound = old.inbound /\ ended.state = "terminated" /\ ended.received = old.received
    BY <2>1 DEF Ended
  <2> HIDE DEF ended
  <2>4. worker.inbound = old.inbound /\ worker.state = "terminated" /\ worker.received = old.received
    BY <2>3
  <2> HIDE DEF worker
  <2>5. DOMAIN workers = 1 .. Len(workers) /\ DOMAIN workers' = DOMAIN workers
    BY <2>2
  <2>6. DOMAIN workers' = 1 .. Len(workers')
    BY <1>2, LenProperties DEF WorkersInv, ShapesOK
  <2>7. CASE w = v
    BY <1>1, <2>1, <2>2, <2>4, <2>5, <2>6, <2>7 DEF old
  <2>8. CASE w # v
    BY <1>1, <2>1, <2>2, <2>5, <2>6, <2>8
  <2> QED
    BY <2>7, <2>8
<1>8. ASSUME NEW v \in DOMAIN workers, NEW run \in WorkerRun, PostMessageToWorker(v, run)
      PROVE  /\ w \in 1 .. Len(workers') /\ workers[v].state = "active"
             /\ w # v => workers'[w] = workers[w]
  <2>1. PICK worker : workers' = [workers EXCEPT ![v] = worker]
    BY <1>8 DEF PostMessageToWorker
  <2>2. DOMAIN workers = 1 .. Len(workers) /\ DOMAIN workers' = DOMAIN workers
    BY <2>1
  <2>3. DOMAIN workers' = 1 .. Len(workers')
    BY <1>2, LenProperties DEF WorkersInv, ShapesOK
  <2>4. workers[v].state = "active"
    BY <1>8 DEF PostMessageToWorker, CanReceive
  <2> QED
    BY <1>1, <2>1, <2>2, <2>3, <2>4
<1>9. "active" \notin Ended
  BY DEF Ended
<1>10. workers' = workers \/ (\E run \in WorkerRun : CreateWorker(run))
         \/ (\E v \in DOMAIN workers : Terminate(v))
         \/ (\E v \in DOMAIN workers, run \in WorkerRun : PostMessageToWorker(v, run))
  BY DEF WorkersNext, workersVars, AddMainEventListener, RunMainTask
<1>11. CASE \E run \in WorkerRun : CreateWorker(run)
  BY <1>3, <1>6, <1>11
<1>12. CASE \E v \in DOMAIN workers : Terminate(v)
  BY <1>3, <1>7, <1>12
<1>13. CASE \E v \in DOMAIN workers, run \in WorkerRun : PostMessageToWorker(v, run)
  BY <1>3, <1>8, <1>9, <1>13
<1> QED
  BY <1>5, <1>10, <1>11, <1>12, <1>13

\* The workers, their listeners and the page's task queue satisfy WorkersInv
\* always, and with it the type invariant.
THEOREM WorkersInvariance == WorkersSpec => []WorkersInv
<1>1. WorkersInv /\ [WorkersNext]_workersVars => WorkersInv'
  BY WorkersStep
<1> QED
  BY <1>1, WorkersInitInv, PTL DEF WorkersSpec

LEMMA WorkersTyped ==
  ASSUME WorkersInv
  PROVE  WorkersTypeOK
<1>1. DOMAIN workers = 1 .. Len(workers)
  BY WorkersFacts
<1>2. DOMAIN mainTasks = 1 .. Len(mainTasks)
  BY LenProperties DEF WorkersInv, TasksOK
<1> QED
  BY <1>1, <1>2 DEF WorkersInv, ShapesOK, TasksOK, WorkersTypeOK

\* A listener hears, once and in order, every message its worker handed over
\* since it was added, and a worker that ended takes and hands over no more
\* (queue_worker_message, drain_outbox, terminate, close).
THEOREM MessagesAreKept == WorkersSpec => WorkersKeepTheirMessages
<1> DEFINE Stays(w) ==
             /\ workers[w].state \in Ended =>
                  /\ workers'[w].state \in {workers[w].state, "terminated"}
                  /\ workers'[w].received = workers[w].received
                  /\ workers'[w].inbound = workers[w].inbound
             /\ workers'[w].state = "active" /\ workers'[w].scope.closeRequested =>
                  workers'[w].received = 0
           Stay == \A w \in DOMAIN workers : Stays(w)
           Told == WorkersTypeOK /\ ListenersHearEveryMessage
<1>1. WorkersInv /\ [WorkersNext]_workersVars => Stay
  BY EndedStep
<1>2. WorkersInv => Told
  BY ListenersAreTold, WorkersTyped
<1>3. Told' <=> (WorkersTypeOK' /\ ListenersHearEveryMessage')
  OBVIOUS
<1> HIDE DEF Told
<1>4. WorkersInv' => Told'
  BY <1>2, PTL
<1>5. WorkersSpec => [][Stay]_workersVars /\ [][Told']_workersVars
  BY <1>1, <1>2, WorkersInvariance, PTL DEF WorkersSpec
<1> QED
  BY <1>3, <1>5, PTL DEF WorkersKeepTheirMessages, EndedWorkersStayEnded

-----------------------------------------------------------------------------
(* Media elements                                                          *)

\* An empty sequence at the end adds nothing.
LEMMA FlattenEmpty ==
  ASSUME NEW T, NEW seqs \in Seq(Seq(T)), NEW none, none = <<>>
  PROVE  FlattenSeq(Append(seqs, none)) = FlattenSeq(seqs)
<1> DEFINE more == Append(seqs, none)
           n == Len(seqs)
<1>1. none \in Seq(T) /\ Len(none) = 0
  OBVIOUS
<1>2. /\ more \in Seq(Seq(T)) /\ Len(more) = n + 1 /\ more[n + 1] = none /\ n \in Nat
      /\ \A i \in 1 .. n : more[i] = seqs[i]
      /\ more # <<>>
  <2>1. /\ more \in Seq(Seq(T)) /\ Len(more) = n + 1 /\ more[n + 1] = none /\ n \in Nat
        /\ \A i \in 1 .. n : more[i] = seqs[i]
    BY <1>1, AppendProperties, LenProperties
  <2> HIDE DEF more, n
  <2>2. more # <<>>
    BY <2>1, EmptySeq
  <2> QED
    BY <2>1, <2>2
<1> HIDE DEF more
<1> DEFINE last == n + 1
<1>3. PICK g : Joins(T, more, g) /\ FlattenSeq(more) = g[last]
  BY <1>2, FlattenFacts
<1>4. /\ g \in [1 .. last -> Seq(T)] /\ last \in 1 .. last /\ last - 1 = n
      /\ \A i \in 1 .. last : g[i] = IF i = 1 THEN more[i] ELSE g[i - 1] \o more[i]
  <2>1. last \in 1 .. last /\ last - 1 = n /\ Len(more) = last
    BY <1>2
  <2> HIDE DEF last
  <2> QED
    BY <1>3, <2>1 DEF Joins
<1>5. CASE seqs = <<>>
  BY <1>2, <1>3, <1>4, <1>5 DEF FlattenSeq, more
<1>6. CASE seqs # <<>>
  <2>1. PICK f : Joins(T, seqs, f) /\ FlattenSeq(seqs) = f[n]
    BY <1>6, FlattenFacts
  <2>2. /\ f \in [1 .. n -> Seq(T)] /\ n # 0
        /\ \A i \in 1 .. n : f[i] = IF i = 1 THEN seqs[i] ELSE f[i - 1] \o seqs[i]
    BY <1>6, <2>1, EmptySeq, LenProperties DEF Joins
  <2> DEFINE S == {i \in 1 .. n : f[i] = g[i]}
             one == 1
  <2>3. one \in Nat /\ n \in Nat /\ n \in 1 .. n /\ n \in 1 .. last /\ last # 1 /\ one = 1
    BY <1>2, <2>2
  <2> HIDE DEF last, one, n
  <2>4. \A i \in 1 .. n : i \in 1 .. last /\ more[i] = seqs[i]
    BY <1>2, <1>4, <2>3 DEF last
  <2>5. one \in S
    <3>1. one \in 1 .. n
      BY <2>3
    <3>2. f[one] = seqs[one]
      BY <2>2, <2>3, <3>1
    <3>3. g[one] = more[one]
      BY <1>4, <2>3, <2>4, <3>1
    <3> QED
      BY <2>4, <3>1, <3>2, <3>3
  <2>6. \A i \in one .. n - 1 : i \in S => i + 1 \in S
    <3> SUFFICES ASSUME NEW i \in one .. n - 1, f[i] = g[i]
                 PROVE  i + 1 \in S
      OBVIOUS
    <3> DEFINE j == i + 1
    <3>1. j \in 1 .. n /\ j # 1 /\ j - 1 = i
      BY <2>3
    <3>2. f[j] = f[i] \o seqs[j] /\ g[j] = g[i] \o more[j]
      BY <1>4, <2>2, <2>4, <3>1
    <3>3. f[j] = g[j]
      BY <2>4, <3>1, <3>2
    <3> QED
      BY <3>1, <3>3
  <2> HIDE DEF S
  <2>7. one .. n \subseteq S
    BY <2>3, <2>5, <2>6, CountingUp
  <2>8. f[n] = g[n]
    BY <2>3, <2>7 DEF S
  <2>9. g[last] = g[n] \o none /\ g[n] \in Seq(T)
    BY <1>2, <1>4, <2>3 DEF last
  <2>10. g[n] \o none = g[n]
    BY <1>1, <2>9, ConcatEmptySeq
  <2> QED
    BY <1>3, <2>1, <2>8, <2>9, <2>10 DEF more
<1> QED
  BY <1>5, <1>6

-----------------------------------------------------------------------------
(* Media elements                                                          *)

\* The largest end, or zero.
LEMMA LatestEndFacts ==
  ASSUME NEW ranges \in Seq(BufferedRange)
  PROVE  /\ LatestEnd(ranges) \in Nat
         /\ \A i \in 1 .. Len(ranges) : ranges[i].end <= LatestEnd(ranges)
         /\ \/ LatestEnd(ranges) = 0
            \/ \E i \in 1 .. Len(ranges) : LatestEnd(ranges) = ranges[i].end
<1> DEFINE n == Len(ranges)
           end == [i \in 1 .. n |-> ranges[i].end]
           Ends == {0} \cup {end[i] : i \in 1 .. n}
           Tops(k) == {m \in Ends : \A i \in 1 .. k : end[i] <= m}
           S == {k \in 0 .. n : Tops(k) # {}}
           zero == 0
<1>1. n \in Nat /\ DOMAIN ranges = 1 .. n /\ \A i \in 1 .. n : ranges[i] \in BufferedRange
  BY LenProperties, ElementOfSeq
<1>2. \A i \in 1 .. n : end[i] = ranges[i].end /\ end[i] \in Nat
  BY <1>1 DEF BufferedRange
<1>3. Ends = {0} \cup {ranges[i].end : i \in DOMAIN ranges}
  BY <1>1, <1>2
<1> HIDE DEF n, end
<1>4. Ends \subseteq Nat /\ 0 \in Ends /\ \A i \in 1 .. n : end[i] \in Ends
  BY <1>2
<1>5. zero \in S /\ zero \in Nat
  BY <1>1, <1>4
<1>6. \A k \in zero .. n - 1 : k \in S => k + 1 \in S
  <2> SUFFICES ASSUME NEW k \in 0 .. n - 1, NEW m \in Tops(k)
               PROVE  k + 1 \in 0 .. n /\ Tops(k + 1) # {}
    OBVIOUS
  <2> DEFINE j == k + 1
  <2>1. j \in 1 .. n /\ j \in 0 .. n /\ \A i \in 1 .. j : i \in 1 .. n /\ (i \in 1 .. k \/ i = j)
    BY <1>1
  <2>2. m \in Ends /\ m \in Nat /\ end[j] \in Ends /\ end[j] \in Nat /\ \A i \in 1 .. k : end[i] <= m
    BY <1>2, <1>4, <2>1
  <2>3. \A i \in 1 .. j : end[i] \in Nat
    BY <1>2, <2>1
  <2> HIDE DEF j, Ends
  <2>4. CASE end[j] <= m
    BY <2>1, <2>2, <2>4 DEF j
  <2>5. CASE ~(end[j] <= m)
    BY <2>1, <2>2, <2>3, <2>5 DEF j
  <2> QED
    BY <2>4, <2>5
<1> HIDE DEF S, zero
<1>7. n \in S
  BY <1>1, <1>5, <1>6, CountingUp DEF zero
<1>8. PICK m \in Ends : \A i \in 1 .. n : end[i] <= m
  BY <1>7 DEF S
<1>9. m >= 0 /\ m \in Nat
  BY <1>4
<1>10. \A y \in Ends : m >= y
  BY <1>2, <1>8, <1>9
<1> DEFINE top == Max(Ends)
<1>11. top \in Ends /\ \A y \in Ends : top >= y
  BY <1>10 DEF Max
<1> HIDE DEF top
<1>12. top \in Nat /\ (\A i \in 1 .. n : end[i] <= top) /\ (top = 0 \/ \E i \in 1 .. n : top = end[i])
  BY <1>2, <1>4, <1>11
<1>13. LatestEnd(ranges) = top
  BY <1>3 DEF LatestEnd, top
<1> QED
  BY <1>2, <1>12, <1>13 DEF n

\* More ranges do not end earlier.
LEMMA LatestEndGrows ==
  ASSUME NEW a \in Seq(BufferedRange), NEW b \in Seq(BufferedRange),
         \A x : Lists(a, x) => Lists(b, x)
  PROVE  LatestEnd(a) <= LatestEnd(b)
<1>1. LatestEnd(a) \in Nat /\ LatestEnd(b) \in Nat
  BY LatestEndFacts
<1>2. CASE LatestEnd(a) = 0
  BY <1>1, <1>2
<1>3. CASE \E i \in 1 .. Len(a) : LatestEnd(a) = a[i].end
  <2>1. PICK i \in 1 .. Len(a) : LatestEnd(a) = a[i].end
    BY <1>3
  <2>2. Lists(a, a[i])
    BY DEF Lists
  <2>3. Lists(b, a[i])
    BY <2>2
  <2>4. PICK j \in 1 .. Len(b) : b[j] = a[i]
    BY <2>3 DEF Lists
  <2> QED
    BY <2>1, <2>4, LatestEndFacts
<1> QED
  BY <1>2, <1>3, LatestEndFacts

\* Ranges in order and apart.
Tidy(ranges) ==
  /\ \A i \in 1 .. Len(ranges) : ranges[i].start <= ranges[i].end
  /\ \A i, j \in 1 .. Len(ranges) : i < j => ranges[i].end <= ranges[j].start

\* remove leaves some of the ranges, in the order they had.
LEMMA KeptFacts ==
  ASSUME NEW ranges \in Seq(BufferedRange), Tidy(ranges), NEW start, NEW end
  PROVE  /\ Kept(ranges, start, end) \in Seq(BufferedRange) /\ Tidy(Kept(ranges, start, end))
         /\ \A x : Lists(Kept(ranges, start, end), x) => Lists(ranges, x)
<1> DEFINE S == {i \in 1 .. Len(ranges) : ranges[i].end <= start \/ ranges[i].start >= end}
           list == Picked(ranges, S)
<1>1. Kept(ranges, start, end) = list
  BY DEF Kept
<1>2. S \in SUBSET (1 .. Len(ranges))
  OBVIOUS
<1> HIDE DEF S
<1>3. list \in Seq(BufferedRange) /\ \E places : PicksFrom(ranges, S, list, places)
  BY <1>2, PickedFacts
<1>4. PICK places : PicksFrom(ranges, S, list, places)
  BY <1>3
<1>5. /\ \A n \in 1 .. Len(list) : places[n] \in 1 .. Len(ranges) /\ list[n] = ranges[places[n]]
      /\ \A n, m \in 1 .. Len(list) : n < m => places[n] < places[m]
  BY <1>2, <1>4 DEF PicksFrom
<1> HIDE DEF list
<1>6. Tidy(list)
  BY <1>5 DEF Tidy
<1>7. \A x : Lists(list, x) => Lists(ranges, x)
  BY <1>5 DEF Lists
<1> QED
  BY <1>1, <1>3, <1>6, <1>7

\* The segment appendBuffer adds starts where the ranges end.
LEMMA NextSegmentFacts ==
  ASSUME NEW buffer \in SourceBuffer, Tidy(buffer.buffered), NEW length \in Nat
  PROVE  LET longer == Append(buffer.buffered, NextSegment(buffer, length))
         IN  longer \in Seq(BufferedRange) /\ Tidy(longer)
<1> DEFINE old == buffer.buffered
           n == Len(old)
           start == IF old = <<>> THEN 0 ELSE Last(old).end
           new == NextSegment(buffer, length)
           longer == Append(old, new)
<1>1. old \in Seq(BufferedRange)
  BY DEF SourceBuffer
<1>2. n \in Nat /\ \A i \in 1 .. n : /\ old[i] \in BufferedRange
                                     /\ old[i].start \in Nat /\ old[i].end \in Nat
  <2>1. n \in Nat /\ \A i \in 1 .. n : old[i] \in BufferedRange
    BY <1>1, LenProperties, ElementOfSeq
  <2> QED
    BY <2>1 DEF BufferedRange
<1>3. Tidy(old)
  OBVIOUS
<1>4. new = [start |-> start, end |-> start + length]
  BY DEF NextSegment
<1> HIDE DEF new, old
<1>5. start \in Nat /\ \A i \in 1 .. n : old[i].end <= start
  <2>1. CASE old = <<>>
    BY <2>1
  <2>2. CASE old # <<>>
    <3>1. n # 0 /\ n \in 1 .. n
      BY <1>1, <1>2, <2>2, EmptySeq
    <3>2. start = old[n].end
      BY <2>2 DEF Last
    <3>3. old[n].start <= old[n].end
      BY <1>3, <3>1 DEF Tidy
    <3>4. \A i \in 1 .. n : i < n => old[i].end <= old[n].start
      BY <1>3, <3>1 DEF Tidy
    <3>5. \A i \in 1 .. n : i < n \/ i = n
      BY <1>2
    <3> HIDE DEF start, n
    <3> QED
      BY <1>2, <3>1, <3>2, <3>3, <3>4, <3>5
  <2> QED
    BY <2>1, <2>2
<1> HIDE DEF start
<1>6. new \in BufferedRange /\ new.start = start /\ new.start <= new.end
  BY <1>4, <1>5 DEF BufferedRange
<1>7. /\ longer \in Seq(BufferedRange) /\ Len(longer) = n + 1 /\ longer[n + 1] = new
      /\ \A i \in 1 .. n : longer[i] = old[i]
  BY <1>1, <1>6, AppendProperties
<1> HIDE DEF longer, n
<1>8. \A i \in 1 .. n + 1 : i \in 1 .. n \/ i = n + 1
  BY <1>2
<1>9. \A i \in 1 .. n : old[i].start <= old[i].end
  BY <1>3 DEF Tidy, n
<1>10. \A i, j \in 1 .. n : i < j => old[i].end <= old[j].start
  BY <1>3 DEF Tidy, n
<1>11. \A i \in 1 .. n + 1 : longer[i].start <= longer[i].end
  BY <1>6, <1>7, <1>8, <1>9
<1>12. \A i, j \in 1 .. n + 1 : i < j => longer[i].end <= longer[j].start
  <2> SUFFICES ASSUME NEW i \in 1 .. n + 1, NEW j \in 1 .. n + 1, i < j
               PROVE  longer[i].end <= longer[j].start
    OBVIOUS
  <2>1. i \in 1 .. n
    BY <1>2
  <2>2. CASE j \in 1 .. n
    BY <1>7, <1>10, <2>1, <2>2
  <2>3. CASE j = n + 1
    BY <1>5, <1>6, <1>7, <2>1, <2>3
  <2> QED
    BY <1>8, <2>2, <2>3
<1>13. Tidy(longer)
  BY <1>7, <1>11, <1>12 DEF Tidy
<1> QED
  BY <1>7, <1>13 DEF longer, old, new

\* The buffers of a source are there.
Filed(source, bufs) ==
  \A i \in 1 .. Len(source.sourceBuffers) : source.sourceBuffers[i] \in 1 .. Len(bufs)

LEMMA RangesOfFacts ==
  ASSUME NEW source \in MediaSource, NEW bufs \in Seq(SourceBuffer), Filed(source, bufs)
  PROVE  /\ RangesOf(source, bufs) \in Seq(BufferedRange)
         /\ \A b : Lists(source.sourceBuffers, b) =>
              \A x : Lists(bufs[b].buffered, x) => Lists(RangesOf(source, bufs), x)
         /\ [i \in DOMAIN source.sourceBuffers |-> bufs[source.sourceBuffers[i]].buffered]
              \in Seq(Seq(BufferedRange))
<1> DEFINE list == source.sourceBuffers
           n == Len(list)
           seqs == [i \in DOMAIN list |-> bufs[list[i]].buffered]
<1>1. list \in Seq(1 .. MaxSourceBuffers)
  BY DEF MediaSource
<1>2. n \in Nat /\ DOMAIN list = 1 .. n
  BY <1>1, LenProperties
<1>3. \A b \in 1 .. Len(bufs) : bufs[b].buffered \in Seq(BufferedRange)
  <2>1. \A b \in 1 .. Len(bufs) : bufs[b] \in SourceBuffer
    BY ElementOfSeq
  <2> QED
    BY <2>1 DEF SourceBuffer
<1>4. \A i \in 1 .. n : list[i] \in 1 .. Len(bufs)
  BY DEF Filed
<1>5. RangesOf(source, bufs) = FlattenSeq(seqs)
  BY DEF RangesOf
<1> HIDE DEF n, list
<1>6. seqs \in Seq(Seq(BufferedRange)) /\ Len(seqs) = n
  BY <1>2, <1>3, <1>4
<1>7. \A i \in 1 .. n : seqs[i] = bufs[list[i]].buffered
  BY <1>2
<1> HIDE DEF seqs
<1>8. /\ FlattenSeq(seqs) \in Seq(BufferedRange)
      /\ \A k \in 1 .. n : \A x : Lists(seqs[k], x) => Lists(FlattenSeq(seqs), x)
  BY <1>6, FlattenHolds
<1>9. \A b : Lists(list, b) => \A x : Lists(bufs[b].buffered, x) => Lists(FlattenSeq(seqs), x)
  <2> SUFFICES ASSUME NEW b, Lists(list, b), NEW x, Lists(bufs[b].buffered, x)
               PROVE  Lists(FlattenSeq(seqs), x)
    OBVIOUS
  <2>1. PICK k \in 1 .. n : list[k] = b
    BY DEF Lists, n
  <2>2. Lists(seqs[k], x)
    BY <1>7, <2>1
  <2> QED
    BY <1>8, <2>2
<1> QED
  BY <1>5, <1>6, <1>8, <1>9 DEF seqs, list

\* A source's ranges are those of its buffers and of nothing else.
LEMMA SameRanges ==
  ASSUME NEW source, NEW later, NEW bufs, NEW bufsLater,
         later.sourceBuffers = source.sourceBuffers,
         \A i \in DOMAIN source.sourceBuffers :
           bufsLater[source.sourceBuffers[i]].buffered = bufs[source.sourceBuffers[i]].buffered
  PROVE  RangesOf(later, bufsLater) = RangesOf(source, bufs)
<1>1. [i \in DOMAIN later.sourceBuffers |-> bufsLater[later.sourceBuffers[i]].buffered]
        = [i \in DOMAIN source.sourceBuffers |-> bufs[source.sourceBuffers[i]].buffered]
  OBVIOUS
<1> QED
  BY <1>1 DEF RangesOf

-----------------------------------------------------------------------------
\* An element's copy is up to date.
ElementOK(element, srcs, bufs) ==
  IF element.source # NoSource
  THEN LET ranges == RangesOf(srcs[element.source], bufs) IN
       element.buffered = ranges /\ element.duration = LatestEnd(ranges)
  ELSE element.duration \in {0, PlainLength}

ElementsOK ==
  /\ elements \in Seq(MediaElement)
  /\ \A e \in 1 .. Len(elements) : /\ elements[e].source \in 0 .. Len(sources)
                                   /\ ElementOK(elements[e], sources, buffers)

\* Every buffer is listed by its source, and a source lists no other.
BuffersBelong ==
  /\ sources \in Seq(MediaSource) /\ Len(sources) <= MaxSources
  /\ buffers \in Seq(SourceBuffer) /\ Len(buffers) <= MaxSourceBuffers
  /\ objectUrls \subseteq 1 .. Len(sources)
  /\ \A s \in 1 .. Len(sources) :
       /\ Filed(sources[s], buffers)
       /\ \A b : Lists(sources[s].sourceBuffers, b) => buffers[b].source = s
  /\ \A b \in 1 .. Len(buffers) : /\ buffers[b].source \in 1 .. Len(sources)
                                  /\ Lists(sources[buffers[b].source].sourceBuffers, b)

RangesOK ==
  \A b \in 1 .. Len(buffers) :
    /\ Tidy(buffers[b].buffered)
    /\ LatestEnd(buffers[b].buffered) <= sources[buffers[b].source].duration

MediaInv == ElementsOK /\ BuffersBelong /\ RangesOK

LEMMA MediaFacts ==
  ASSUME MediaInv
  PROVE  /\ Len(elements) \in Nat /\ Len(sources) \in Nat /\ Len(buffers) \in Nat
         /\ DOMAIN elements = 1 .. Len(elements) /\ DOMAIN sources = 1 .. Len(sources)
         /\ DOMAIN buffers = 1 .. Len(buffers)
         /\ \A e \in 1 .. Len(elements) : elements[e] \in MediaElement
         /\ \A s \in 1 .. Len(sources) :
              /\ sources[s] \in MediaSource /\ sources[s].duration \in Nat
              /\ sources[s].state \in {"open", "ended"}
              /\ sources[s].sourceBuffers \in Seq(1 .. MaxSourceBuffers)
              /\ DOMAIN sources[s].sourceBuffers = 1 .. Len(sources[s].sourceBuffers)
              /\ RangesOf(sources[s], buffers) \in Seq(BufferedRange)
         /\ \A b \in 1 .. Len(buffers) :
              buffers[b] \in SourceBuffer /\ buffers[b].buffered \in Seq(BufferedRange)
<1>1. /\ elements \in Seq(MediaElement) /\ sources \in Seq(MediaSource) /\ buffers \in Seq(SourceBuffer)
      /\ \A s \in 1 .. Len(sources) : Filed(sources[s], buffers)
  BY DEF MediaInv, ElementsOK, BuffersBelong
<1>2. /\ Len(elements) \in Nat /\ Len(sources) \in Nat /\ Len(buffers) \in Nat
      /\ DOMAIN elements = 1 .. Len(elements) /\ DOMAIN sources = 1 .. Len(sources)
      /\ DOMAIN buffers = 1 .. Len(buffers)
  BY <1>1, LenProperties
<1>3. /\ \A e \in 1 .. Len(elements) : elements[e] \in MediaElement
      /\ \A s \in 1 .. Len(sources) : sources[s] \in MediaSource
      /\ \A b \in 1 .. Len(buffers) : buffers[b] \in SourceBuffer
  BY <1>1, ElementOfSeq
<1>4. \A source \in MediaSource :
        /\ source.duration \in Nat /\ source.state \in {"open", "ended"}
        /\ source.sourceBuffers \in Seq(1 .. MaxSourceBuffers)
  BY DEF MediaSource
<1>5. \A source \in MediaSource : DOMAIN source.sourceBuffers = 1 .. Len(source.sourceBuffers)
  BY <1>4, LenProperties
<1>6. \A buffer \in SourceBuffer : buffer.buffered \in Seq(BufferedRange)
  BY DEF SourceBuffer
<1>7. \A s \in 1 .. Len(sources) : RangesOf(sources[s], buffers) \in Seq(BufferedRange)
  BY <1>1, <1>3, RangesOfFacts
<1> QED
  BY <1>2, <1>3, <1>4, <1>5, <1>6, <1>7

\* Steps that change elements only.
LEMMA ElementsChange ==
  ASSUME MediaInv, UNCHANGED <<sources, buffers, objectUrls>>, elements' \in Seq(MediaElement),
         \A e \in 1 .. Len(elements') : /\ elements'[e].source \in 0 .. Len(sources)
                                        /\ ElementOK(elements'[e], sources, buffers)
  PROVE  MediaInv'
BY DEF MediaInv, ElementsOK, BuffersBelong, RangesOK

\* Steps that change one element.
LEMMA ElementChanges ==
  ASSUME MediaInv, UNCHANGED <<sources, buffers, objectUrls>>, NEW e \in 1 .. Len(elements),
         NEW element \in MediaElement, elements' = [elements EXCEPT ![e] = element],
         element.source \in 0 .. Len(sources), ElementOK(element, sources, buffers)
  PROVE  MediaInv'
<1>1. elements \in Seq(MediaElement)
  BY DEF MediaInv, ElementsOK
<1>2. /\ elements' \in Seq(MediaElement) /\ Len(elements') = Len(elements)
      /\ elements'[e] = element
      /\ \A d \in 1 .. Len(elements) : d # e => elements'[d] = elements[d]
  BY <1>1, ExceptSeq
<1>3. ASSUME NEW d \in 1 .. Len(elements')
      PROVE  elements'[d].source \in 0 .. Len(sources) /\ ElementOK(elements'[d], sources, buffers)
  BY <1>2 DEF MediaInv, ElementsOK
<1> QED
  BY <1>2, <1>3, ElementsChange

LEMMA CreateMediaElementInv ==
  ASSUME MediaInv, CreateMediaElement
  PROVE  MediaInv'
<1> DEFINE new == NewElement
           n == Len(elements)
<1>1. elements' = Append(elements, new) /\ UNCHANGED <<sources, buffers, objectUrls>>
  BY DEF CreateMediaElement
<1>2. new \in MediaElement /\ new.source = 0 /\ new.duration = 0
  <2> DEFINE none == <<>>
  <2>1. none \in Seq(BufferedRange)
    OBVIOUS
  <2>2. new = [source |-> 0, hasSrc |-> FALSE, paused |-> TRUE,
               ready |-> "HaveNothing", buffered |-> none, duration |-> 0]
    BY DEF NewElement, NoSource
  <2>3. 0 \in 0 .. MaxSources
    BY MediaAssumption
  <2> HIDE DEF none, new
  <2> QED
    BY <2>1, <2>2, <2>3 DEF MediaElement, ReadyStates
<1> HIDE DEF new
<1>3. new.source \in 0 .. Len(sources) /\ ElementOK(new, sources, buffers)
  BY <1>2, MediaFacts DEF ElementOK, NoSource
<1>4. elements \in Seq(MediaElement) /\ n \in Nat
  BY MediaFacts DEF MediaInv, ElementsOK
<1>5. /\ elements' \in Seq(MediaElement) /\ Len(elements') = n + 1 /\ elements'[n + 1] = new
      /\ \A e \in 1 .. n : elements'[e] = elements[e]
  BY <1>1, <1>2, <1>4, AppendProperties
<1>6. \A e \in 1 .. n : elements[e].source \in 0 .. Len(sources) /\ ElementOK(elements[e], sources, buffers)
  BY DEF MediaInv, ElementsOK
<1> HIDE DEF n
<1>7. \A e \in 1 .. n + 1 : e \in 1 .. n \/ e = n + 1
  BY <1>4
<1>8. \A e \in 1 .. Len(elements') : /\ elements'[e].source \in 0 .. Len(sources)
                                     /\ ElementOK(elements'[e], sources, buffers)
  BY <1>3, <1>5, <1>6, <1>7
<1> QED
  BY <1>1, <1>5, <1>8, ElementsChange

LEMMA SetPlainSrcInv ==
  ASSUME MediaInv, NEW e \in 1 .. Len(elements), NEW given \in BOOLEAN, SetPlainSrc(e, given)
  PROVE  MediaInv'
<1> DEFINE old == elements[e]
           whole == << [start |-> 0, end |-> PlainLength] >>
           new == [source |-> NoSource, hasSrc |-> given, paused |-> old.paused,
                   ready |-> "HaveCurrentData", buffered |-> whole, duration |-> PlainLength]
<1>1. old \in MediaElement
  BY MediaFacts
<1>2. PlainSrc(old, given) = new
  <2>1. old = [source |-> old.source, hasSrc |-> old.hasSrc, paused |-> old.paused,
               ready |-> old.ready, buffered |-> old.buffered, duration |-> old.duration]
    BY <1>1 DEF MediaElement
  <2> HIDE DEF old, whole
  <2> DEFINE a == [old EXCEPT !.source = NoSource]
             b == [a EXCEPT !.hasSrc = given]
             c == [b EXCEPT !.ready = "HaveCurrentData"]
             d == [c EXCEPT !.duration = PlainLength]
  <2>2. a = [source |-> NoSource, hasSrc |-> old.hasSrc, paused |-> old.paused,
             ready |-> old.ready, buffered |-> old.buffered, duration |-> old.duration]
    BY <2>1
  <2>3. b = [source |-> NoSource, hasSrc |-> given, paused |-> old.paused,
             ready |-> old.ready, buffered |-> old.buffered, duration |-> old.duration]
    <3> HIDE DEF a
    <3> QED
      BY <2>2
  <2>4. c = [source |-> NoSource, hasSrc |-> given, paused |-> old.paused,
             ready |-> "HaveCurrentData", buffered |-> old.buffered, duration |-> old.duration]
    <3> HIDE DEF b
    <3> QED
      BY <2>3
  <2>5. d = [source |-> NoSource, hasSrc |-> given, paused |-> old.paused,
             ready |-> "HaveCurrentData", buffered |-> old.buffered, duration |-> PlainLength]
    <3> HIDE DEF c
    <3> QED
      BY <2>4
  <2>6. PlainSrc(old, given) = [d EXCEPT !.buffered = whole]
    BY DEF PlainSrc, whole
  <2> HIDE DEF d
  <2> QED
    BY <2>5, <2>6
<1>3. elements' = [elements EXCEPT ![e] = new] /\ UNCHANGED <<sources, buffers, objectUrls>>
  BY <1>2, MediaFacts DEF SetPlainSrc
<1>4. whole \in Seq(BufferedRange)
  BY MediaAssumption DEF BufferedRange
<1> HIDE DEF whole
<1>5. new \in MediaElement /\ new.source = 0 /\ new.duration = PlainLength
  <2>1. 0 \in 0 .. MaxSources /\ PlainLength \in Nat
    BY MediaAssumption
  <2>2. old.paused \in BOOLEAN
    BY <1>1 DEF MediaElement
  <2> HIDE DEF old
  <2> QED
    BY <1>4, <2>1, <2>2 DEF MediaElement, ReadyStates, NoSource
<1> HIDE DEF new
<1>6. new.source \in 0 .. Len(sources) /\ ElementOK(new, sources, buffers)
  BY <1>5, MediaFacts DEF ElementOK, NoSource
<1> QED
  BY <1>3, <1>5, <1>6, ElementChanges

\* What the ready state and the pause flag become is nothing to the copy.
SameCopy(old, new) ==
  new.source = old.source /\ new.buffered = old.buffered /\ new.duration = old.duration

LEMMA ReadyChanges ==
  ASSUME NEW old \in MediaElement, NEW ready \in ReadyStates
  PROVE  /\ [old EXCEPT !.ready = ready] \in MediaElement
         /\ SameCopy(old, [old EXCEPT !.ready = ready])
BY DEF MediaElement, SameCopy

LEMMA PauseChanges ==
  ASSUME NEW old \in MediaElement, NEW paused \in BOOLEAN
  PROVE  /\ [old EXCEPT !.paused = paused] \in MediaElement
         /\ [old EXCEPT !.paused = paused].ready = old.ready
         /\ SameCopy(old, [old EXCEPT !.paused = paused])
BY DEF MediaElement, SameCopy

LEMMA PlaybackInv ==
  ASSUME MediaInv, NEW e \in 1 .. Len(elements), Load(e) \/ Play(e) \/ Pause(e)
  PROVE  MediaInv'
<1> DEFINE old == elements[e]
<1>1. old \in MediaElement /\ old.ready \in ReadyStates
  BY MediaFacts DEF MediaElement
<1>2. \E new \in MediaElement : SameCopy(old, new) /\ elements' = [elements EXCEPT ![e] = new]
  <2>1. CASE Load(e)
    <3> DEFINE ready == IF old.hasSrc THEN "HaveMetadata" ELSE "HaveNothing"
               new == [old EXCEPT !.ready = ready]
    <3>1. elements' = [elements EXCEPT ![e] = new]
      BY <2>1, MediaFacts DEF Load
    <3>2. ready \in ReadyStates
      BY DEF ReadyStates
    <3> HIDE DEF ready, old
    <3>3. new \in MediaElement /\ SameCopy(old, new)
      BY <1>1, <3>2, ReadyChanges
    <3> QED
      BY <3>1, <3>3
  <2>2. CASE Play(e)
    <3> DEFINE ready == IF old.ready = "HaveNothing" THEN "HaveCurrentData" ELSE old.ready
               playing == [old EXCEPT !.paused = FALSE]
               new == [playing EXCEPT !.ready = ready]
    <3>1. elements' = [elements EXCEPT ![e] = new]
      BY <1>1, <2>2, MediaFacts DEF Play, MediaElement
    <3>2. ready \in ReadyStates
      BY <1>1 DEF ReadyStates
    <3> HIDE DEF ready, old
    <3>3. playing \in MediaElement /\ SameCopy(old, playing)
      BY <1>1, PauseChanges
    <3> HIDE DEF playing
    <3>4. new \in MediaElement /\ SameCopy(playing, new)
      BY <3>2, <3>3, ReadyChanges
    <3> HIDE DEF new
    <3>5. SameCopy(old, new)
      BY <3>3, <3>4 DEF SameCopy
    <3> QED
      BY <3>1, <3>4, <3>5
  <2>3. CASE Pause(e)
    <3> DEFINE new == [old EXCEPT !.paused = TRUE]
    <3>1. elements' = [elements EXCEPT ![e] = new]
      BY <2>3, MediaFacts DEF Pause
    <3> HIDE DEF old
    <3>2. new \in MediaElement /\ SameCopy(old, new)
      BY <1>1, PauseChanges
    <3> QED
      BY <3>1, <3>2
  <2> QED
    BY <2>1, <2>2, <2>3
<1>3. PICK new \in MediaElement : SameCopy(old, new) /\ elements' = [elements EXCEPT ![e] = new]
  BY <1>2
<1>4. old.source \in 0 .. Len(sources) /\ ElementOK(old, sources, buffers)
  BY DEF MediaInv, ElementsOK
<1>5. UNCHANGED <<sources, buffers, objectUrls>>
  BY DEF Load, Play, Pause
<1> HIDE DEF old
<1>6. new.source \in 0 .. Len(sources) /\ ElementOK(new, sources, buffers)
  BY <1>3, <1>4 DEF ElementOK, SameCopy
<1> QED
  BY <1>3, <1>5, <1>6, ElementChanges

\* createObjectURL and revokeObjectURL.
LEMMA ObjectUrlInv ==
  ASSUME MediaInv, NEW s \in 1 .. Len(sources), CreateObjectUrl(s) \/ RevokeObjectUrl(s)
  PROVE  MediaInv'
<1>1. /\ UNCHANGED <<elements, sources, buffers>> /\ objectUrls \subseteq 1 .. Len(sources)
      /\ objectUrls' \subseteq objectUrls \cup {s}
  BY DEF CreateObjectUrl, RevokeObjectUrl, MediaInv, BuffersBelong
<1>2. objectUrls' \subseteq 1 .. Len(sources)
  BY <1>1
<1> QED
  BY <1>1, <1>2 DEF MediaInv, ElementsOK, BuffersBelong, RangesOK

\* Sources that list the same buffers and last as long.
Alike(srcs, later) ==
  /\ Len(later) = Len(srcs)
  /\ \A s \in 1 .. Len(srcs) : /\ later[s].sourceBuffers = srcs[s].sourceBuffers
                               /\ later[s].duration = srcs[s].duration

\* What a source that lists the same buffers is mirrored by stays the same.
LEMMA AlikeMirrors ==
  ASSUME NEW element, NEW srcs, NEW later, NEW bufs, element.source # NoSource,
         later[element.source].sourceBuffers = srcs[element.source].sourceBuffers
  PROVE  ElementOK(element, srcs, bufs) <=> ElementOK(element, later, bufs)
<1>1. RangesOf(later[element.source], bufs) = RangesOf(srcs[element.source], bufs)
  BY SameRanges
<1> QED
  BY <1>1 DEF ElementOK

LEMMA AlikeSources ==
  ASSUME MediaInv, sources' \in Seq(MediaSource), Alike(sources, sources'),
         UNCHANGED <<buffers, objectUrls>>
  PROVE  /\ BuffersBelong' /\ RangesOK'
         /\ \A element : element.source \in 0 .. Len(sources) =>
              (ElementOK(element, sources', buffers) <=> ElementOK(element, sources, buffers))
<1>1. BuffersBelong'
  BY DEF MediaInv, BuffersBelong, Alike, Filed
<1>2. RangesOK'
  BY DEF MediaInv, BuffersBelong, RangesOK, Alike
<1>3. ASSUME NEW element, element.source \in 0 .. Len(sources)
      PROVE  ElementOK(element, sources', buffers) <=> ElementOK(element, sources, buffers)
  <2>1. CASE element.source = NoSource
    BY <2>1 DEF ElementOK
  <2>2. CASE element.source # NoSource
    <3> DEFINE s == element.source
    <3>1. Len(sources) \in Nat
      BY MediaFacts
    <3>2. s \in 1 .. Len(sources)
      BY <1>3, <2>2, <3>1 DEF NoSource
    <3>3. sources'[s].sourceBuffers = sources[s].sourceBuffers
      BY <3>2 DEF Alike
    <3> QED
      BY <2>2, <3>3, AlikeMirrors
  <2> QED
    BY <2>1, <2>2
<1> QED
  BY <1>1, <1>2, <1>3

\* A source that is open or ended is as before but for that.
LEMMA StateAlike ==
  ASSUME MediaInv, NEW s \in 1 .. Len(sources), NEW state \in {"open", "ended"},
         sources' = [sources EXCEPT ![s].state = state]
  PROVE  sources' \in Seq(MediaSource) /\ Alike(sources, sources')
<1> DEFINE old == sources[s]
           new == [old EXCEPT !.state = state]
<1>1. old \in MediaSource /\ sources \in Seq(MediaSource)
  BY MediaFacts DEF MediaInv, BuffersBelong
<1>2. sources' = [sources EXCEPT ![s] = new]
  BY MediaFacts
<1> HIDE DEF old
<1>3. /\ new \in MediaSource /\ new.sourceBuffers = old.sourceBuffers
      /\ new.duration = old.duration
  BY <1>1 DEF MediaSource
<1> HIDE DEF new
<1>4. /\ sources' \in Seq(MediaSource) /\ Len(sources') = Len(sources) /\ sources'[s] = new
      /\ \A r \in 1 .. Len(sources) : r # s => sources'[r] = sources[r]
  BY <1>1, <1>2, <1>3, ExceptSeq
<1> QED
  BY <1>3, <1>4 DEF Alike, old

LEMMA EndOfStreamInv ==
  ASSUME MediaInv, NEW s \in 1 .. Len(sources), EndOfStream(s)
  PROVE  MediaInv'
<1>1. /\ UNCHANGED <<elements, buffers, objectUrls>>
      /\ sources' \in Seq(MediaSource) /\ Alike(sources, sources')
  BY StateAlike DEF EndOfStream
<1>2. /\ BuffersBelong' /\ RangesOK'
      /\ \A element : element.source \in 0 .. Len(sources) =>
           (ElementOK(element, sources', buffers) <=> ElementOK(element, sources, buffers))
  BY <1>1, AlikeSources
<1>3. ElementsOK'
  BY <1>1, <1>2 DEF MediaInv, ElementsOK, Alike
<1> QED
  BY <1>2, <1>3 DEF MediaInv

\* Refreshed, the elements of a source report its ranges.
LEMMA RefreshFacts ==
  ASSUME NEW els \in Seq(MediaElement), NEW s, s # NoSource, NEW bufs,
         RangesOf(sources[s], bufs) \in Seq(BufferedRange)
  PROVE  LET later == RefreshElements(els, s, bufs) IN
         /\ later \in Seq(MediaElement) /\ Len(later) = Len(els)
         /\ \A e \in 1 .. Len(els) :
              /\ later[e].source = els[e].source
              /\ els[e].source # s => later[e] = els[e]
              /\ els[e].source = s => /\ later[e].buffered = RangesOf(sources[s], bufs)
                                      /\ later[e].duration = LatestEnd(RangesOf(sources[s], bufs))
<1> DEFINE ranges == RangesOf(sources[s], bufs)
           later == RefreshElements(els, s, bufs)
           n == Len(els)
           end == LatestEnd(ranges)
<1>1. n \in Nat /\ DOMAIN els = 1 .. n /\ \A e \in 1 .. n : els[e] \in MediaElement
  BY LenProperties, ElementOfSeq
<1>2. end \in Nat
  BY LatestEndFacts
<1>3. later = [e \in 1 .. n |-> IF els[e].source = s THEN Mirror(els[e], ranges) ELSE els[e]]
  BY <1>1 DEF RefreshElements
<1> HIDE DEF ranges, later, n
<1>4. ASSUME NEW element \in MediaElement
      PROVE  /\ Mirror(element, ranges) \in MediaElement
             /\ Mirror(element, ranges).source = element.source
             /\ Mirror(element, ranges).buffered = ranges
             /\ Mirror(element, ranges).duration = end
  <2> DEFINE told == [element EXCEPT !.buffered = ranges]
             timed == [told EXCEPT !.duration = end]
             ready == IF ranges = <<>> THEN timed.ready ELSE "HaveEnoughData"
  <2>1. Mirror(element, ranges) = [timed EXCEPT !.ready = ready]
    BY DEF Mirror
  <2>2. ranges \in Seq(BufferedRange)
    BY DEF ranges
  <2> HIDE DEF end
  <2>3. told \in MediaElement /\ told.source = element.source /\ told.buffered = ranges
    BY <2>2 DEF MediaElement
  <2> HIDE DEF told
  <2>4. /\ timed \in MediaElement /\ timed.source = element.source /\ timed.buffered = ranges
        /\ timed.duration = end
    BY <1>2, <2>3 DEF MediaElement
  <2>5. timed.ready \in ReadyStates
    BY <2>4 DEF MediaElement
  <2> HIDE DEF timed
  <2>6. ready \in ReadyStates
    BY <2>5 DEF ReadyStates
  <2> HIDE DEF ready
  <2> QED
    BY <2>1, <2>4, <2>6 DEF MediaElement
<1>5. \A e \in 1 .. n :
        /\ later[e] \in MediaElement
        /\ later[e].source = els[e].source
        /\ els[e].source # s => later[e] = els[e]
        /\ els[e].source = s => later[e].buffered = ranges /\ later[e].duration = end
  BY <1>1, <1>3, <1>4
<1>6. later \in Seq(MediaElement) /\ Len(later) = n
  BY <1>1, <1>3, <1>5
<1> QED
  BY <1>5, <1>6 DEF later, ranges, n, end

LEMMA SetSrcToSourceInv ==
  ASSUME MediaInv, NEW e \in 1 .. Len(elements), NEW s \in 1 .. Len(sources), SetSrcToSource(e, s)
  PROVE  MediaInv'
<1> DEFINE old == elements[e]
           a == [old EXCEPT !.source = s]
           b == [a EXCEPT !.hasSrc = TRUE]
           c == [b EXCEPT !.duration = 0]
           new == [c EXCEPT !.ready = "HaveMetadata"]
           els == [elements EXCEPT ![e] = new]
           ranges == RangesOf(sources[s], buffers)
<1>1. old \in MediaElement /\ elements \in Seq(MediaElement) /\ DOMAIN elements = 1 .. Len(elements)
  BY MediaFacts DEF MediaInv, ElementsOK
<1>2. elements' = RefreshElements(els, s, buffers)
  BY <1>1 DEF MediaElement, SetSrcToSource
<1>3. /\ UNCHANGED <<buffers, objectUrls>> /\ sources' = [sources EXCEPT ![s].state = "open"]
  BY DEF SetSrcToSource
<1> HIDE DEF old
<1>4. s # NoSource /\ s \in 0 .. MaxSources /\ s \in 0 .. Len(sources)
  BY MediaFacts, MediaAssumption DEF MediaInv, BuffersBelong, NoSource
<1>5. a \in MediaElement /\ a.source = s
  BY <1>1, <1>4 DEF MediaElement
<1> HIDE DEF a
<1>6. b \in MediaElement /\ b.source = s
  BY <1>5 DEF MediaElement
<1> HIDE DEF b
<1>7. c \in MediaElement /\ c.source = s
  BY <1>6 DEF MediaElement
<1> HIDE DEF c
<1>8. new \in MediaElement /\ new.source = s
  BY <1>7 DEF MediaElement, ReadyStates
<1> HIDE DEF new
<1>9. /\ els \in Seq(MediaElement) /\ Len(els) = Len(elements) /\ els[e] = new
      /\ \A d \in 1 .. Len(elements) : d # e => els[d] = elements[d]
  BY <1>1, <1>8, ExceptSeq
<1> HIDE DEF els
<1>10. ranges \in Seq(BufferedRange)
  BY MediaFacts
<1>11. /\ elements' \in Seq(MediaElement) /\ Len(elements') = Len(elements)
       /\ \A d \in 1 .. Len(elements) :
            /\ elements'[d].source = els[d].source
            /\ els[d].source # s => elements'[d] = els[d]
            /\ els[d].source = s => /\ elements'[d].buffered = ranges
                                    /\ elements'[d].duration = LatestEnd(ranges)
  BY <1>2, <1>4, <1>9, <1>10, RefreshFacts
<1>12. sources' \in Seq(MediaSource) /\ Alike(sources, sources')
  BY <1>3, StateAlike
<1>13. /\ BuffersBelong' /\ RangesOK'
       /\ \A element : element.source \in 0 .. Len(sources) =>
            (ElementOK(element, sources', buffers) <=> ElementOK(element, sources, buffers))
  BY <1>3, <1>12, AlikeSources
<1>14. ASSUME NEW d \in 1 .. Len(elements)
       PROVE  /\ elements'[d].source \in 0 .. Len(sources)
              /\ ElementOK(elements'[d], sources, buffers)
  <2>1. CASE els[d].source = s
    BY <1>4, <1>11, <2>1 DEF ElementOK
  <2>2. CASE els[d].source # s
    BY <1>8, <1>9, <1>11, <2>2 DEF MediaInv, ElementsOK
  <2> QED
    BY <2>1, <2>2
<1>15. ElementsOK'
  BY <1>3, <1>11, <1>12, <1>13, <1>14 DEF ElementsOK, Alike
<1> QED
  BY <1>13, <1>15 DEF MediaInv

\* A new source lists no buffer.
LEMMA CreateMediaSourceInv ==
  ASSUME MediaInv, CreateMediaSource
  PROVE  MediaInv'
<1> DEFINE none == <<>>
           new == [state |-> "open", duration |-> 0, sourceBuffers |-> none]
           n == Len(sources)
<1>1. sources' = Append(sources, new) /\ UNCHANGED <<elements, buffers, objectUrls>> /\ n < MaxSources
  BY DEF CreateMediaSource
<1>2. none \in Seq(1 .. MaxSourceBuffers) /\ Len(none) = 0
  OBVIOUS
<1> HIDE DEF none
<1>3. new \in MediaSource /\ Len(new.sourceBuffers) = 0
  BY <1>2 DEF MediaSource
<1> HIDE DEF new
<1>4. /\ sources \in Seq(MediaSource) /\ n \in Nat /\ objectUrls \subseteq 1 .. n
      /\ buffers \in Seq(SourceBuffer) /\ Len(buffers) <= MaxSourceBuffers
  BY MediaFacts DEF MediaInv, BuffersBelong
<1>5. /\ sources' \in Seq(MediaSource) /\ Len(sources') = n + 1 /\ sources'[n + 1] = new
      /\ \A s \in 1 .. n : sources'[s] = sources[s]
  BY <1>1, <1>3, <1>4, AppendProperties
<1>6. \A s \in 1 .. n : /\ Filed(sources[s], buffers)
                        /\ \A b : Lists(sources[s].sourceBuffers, b) => buffers[b].source = s
  BY DEF MediaInv, BuffersBelong
<1>7. \A b \in 1 .. Len(buffers) : /\ buffers[b].source \in 1 .. n
                                   /\ Lists(sources[buffers[b].source].sourceBuffers, b)
  BY DEF MediaInv, BuffersBelong
<1>8. \A e \in 1 .. Len(elements) : /\ elements[e].source \in 0 .. n
                                    /\ ElementOK(elements[e], sources, buffers)
  BY DEF MediaInv, ElementsOK
<1>9. RangesOK
  BY DEF MediaInv
<1> HIDE DEF n
<1>10. /\ \A s \in 1 .. n + 1 : s \in 1 .. n \/ s = n + 1
       /\ 1 .. n \subseteq 1 .. n + 1 /\ 0 .. n \subseteq 0 .. n + 1 /\ n + 1 <= MaxSources
  BY <1>1, <1>4, MediaAssumption
<1>11. Filed(new, buffers) /\ \A b : ~Lists(new.sourceBuffers, b)
  BY <1>3 DEF Filed, Lists
<1>12. BuffersBelong'
  BY <1>1, <1>4, <1>5, <1>6, <1>7, <1>10, <1>11 DEF BuffersBelong
<1>13. RangesOK'
  BY <1>1, <1>5, <1>7, <1>9 DEF RangesOK
<1>14. ElementsOK'
  <2>1. ASSUME NEW e \in 1 .. Len(elements)
        PROVE  elements[e].source \in 0 .. n + 1 /\ ElementOK(elements[e], sources', buffers)
    <3>1. CASE elements[e].source = NoSource
      BY <1>8, <1>10, <3>1 DEF ElementOK
    <3>2. CASE elements[e].source # NoSource
      BY <1>4, <1>5, <1>8, <1>10, <3>2, AlikeMirrors DEF NoSource
    <3> QED
      BY <3>1, <3>2
  <2> QED
    BY <1>1, <1>5, <2>1 DEF ElementsOK, MediaInv
<1> QED
  BY <1>12, <1>13, <1>14 DEF MediaInv

\* An appended buffer is found where it was put.
LEMMA ListsAppend ==
  ASSUME NEW T, NEW list \in Seq(T), NEW x \in T, NEW y
  PROVE  Lists(Append(list, x), y) <=> Lists(list, y) \/ y = x
<1> DEFINE longer == Append(list, x)
           n == Len(list)
<1>1. /\ n \in Nat /\ Len(longer) = n + 1 /\ longer[n + 1] = x
      /\ \A i \in 1 .. n : longer[i] = list[i]
  BY AppendProperties, LenProperties
<1> HIDE DEF longer
<1>2. Lists(list, y) <=> \E i \in 1 .. n : list[i] = y
  BY DEF Lists
<1> HIDE DEF n
<1>3. Lists(longer, y) <=> \E i \in 1 .. n + 1 : longer[i] = y
  BY <1>1 DEF Lists
<1>4. \A i \in 1 .. n + 1 : i \in 1 .. n \/ i = n + 1
  BY <1>1
<1>5. 1 .. n \subseteq 1 .. n + 1 /\ n + 1 \in 1 .. n + 1
  BY <1>1
<1> QED
  BY <1>1, <1>2, <1>3, <1>4, <1>5 DEF longer

\* A buffer without ranges adds none to its source.
LEMMA RangesWithNew ==
  ASSUME NEW source \in MediaSource, NEW later \in MediaSource, NEW bufs \in Seq(SourceBuffer),
         Filed(source, bufs), NEW new \in SourceBuffer, new.buffered = <<>>,
         Len(bufs) + 1 \in 1 .. MaxSourceBuffers,
         later.sourceBuffers = Append(source.sourceBuffers, Len(bufs) + 1)
  PROVE  RangesOf(later, Append(bufs, new)) = RangesOf(source, bufs)
<1> DEFINE list == source.sourceBuffers
           m == Len(list)
           n == Len(bufs)
           next == n + 1
           longer == Append(list, next)
           after == Append(bufs, new)
           none == <<>>
           seqs == [i \in DOMAIN list |-> bufs[list[i]].buffered]
           more == [i \in DOMAIN longer |-> after[longer[i]].buffered]
           grown == Append(seqs, none)
<1>1. /\ list \in Seq(1 .. MaxSourceBuffers) /\ m \in Nat /\ DOMAIN list = 1 .. m /\ n \in Nat
      /\ next \in 1 .. MaxSourceBuffers
      /\ \A i \in 1 .. m : list[i] \in 1 .. n
  BY LenProperties DEF MediaSource, Filed
<1>2. seqs \in Seq(Seq(BufferedRange))
  BY RangesOfFacts
<1>3. Len(seqs) = m /\ \A i \in 1 .. m : seqs[i] = bufs[list[i]].buffered
  BY <1>1
<1>4. RangesOf(source, bufs) = FlattenSeq(seqs) /\ RangesOf(later, after) = FlattenSeq(more)
  BY DEF RangesOf
<1>5. none \in Seq(BufferedRange) /\ new.buffered = none
  OBVIOUS
<1> HIDE DEF none, seqs, list, m, n
<1>6. /\ grown \in Seq(Seq(BufferedRange)) /\ Len(grown) = m + 1 /\ grown[m + 1] = none
      /\ \A i \in 1 .. m : grown[i] = seqs[i]
  BY <1>2, <1>3, <1>5, AppendProperties
<1>7. /\ longer \in Seq(1 .. MaxSourceBuffers) /\ Len(longer) = m + 1 /\ longer[m + 1] = next
      /\ \A i \in 1 .. m : longer[i] = list[i]
  <2> HIDE DEF next
  <2> QED
    BY <1>1, AppendProperties DEF m
<1>8. after[next] = new /\ \A b \in 1 .. n : after[b] = bufs[b]
  BY AppendProperties DEF n
<1> HIDE DEF longer, after, next
<1>9. DOMAIN longer = 1 .. m + 1
  BY <1>7, LenProperties
<1>10. \A i \in 1 .. m + 1 : i \in 1 .. m \/ i = m + 1
  BY <1>1
<1>11. \A i \in 1 .. m + 1 : more[i] = grown[i]
  <2> SUFFICES ASSUME NEW i \in 1 .. m + 1 PROVE more[i] = grown[i]
    OBVIOUS
  <2>1. more[i] = after[longer[i]].buffered
    BY <1>9
  <2> HIDE DEF more, grown
  <2>2. CASE i \in 1 .. m
    <3>1. longer[i] = list[i] /\ list[i] \in 1 .. n
      BY <1>1, <1>7, <2>2
    <3>2. after[longer[i]] = bufs[list[i]]
      BY <1>8, <3>1
    <3>3. grown[i] = bufs[list[i]].buffered
      BY <1>3, <1>6, <2>2
    <3> QED
      BY <2>1, <3>2, <3>3
  <2>3. CASE i = m + 1
    BY <1>5, <1>6, <1>7, <1>8, <2>1, <2>3
  <2> QED
    BY <1>10, <2>2, <2>3
<1> HIDE DEF grown
<1>12. \A i \in 1 .. m + 1 : grown[i] \in Seq(BufferedRange)
  BY <1>6, ElementOfSeq
<1> DEFINE k == m + 1
<1>13. more \in Seq(Seq(BufferedRange)) /\ Len(more) = m + 1
  <2>1. k \in Nat /\ more = [i \in 1 .. k |-> after[longer[i]].buffered]
    BY <1>1, <1>9
  <2>2. \A i \in 1 .. k : more[i] \in Seq(BufferedRange)
    BY <1>11, <1>12
  <2> HIDE DEF k, more
  <2>3. \A i \in 1 .. k : after[longer[i]].buffered \in Seq(BufferedRange)
    BY <2>1, <2>2
  <2> DEFINE fun == [i \in 1 .. k |-> after[longer[i]].buffered]
  <2>4. fun \in Seq(Seq(BufferedRange)) /\ Len(fun) = k
    BY <2>1, <2>3
  <2> QED
    BY <2>1, <2>4 DEF k
<1> HIDE DEF more
<1>14. more = grown
  BY <1>6, <1>11, <1>13, SeqEqual
<1>15. FlattenSeq(grown) = FlattenSeq(seqs)
  BY <1>2, <1>5, FlattenEmpty DEF grown
<1> QED
  BY <1>4, <1>14, <1>15 DEF after

LEMMA AddSourceBufferInv ==
  ASSUME MediaInv, NEW s \in 1 .. Len(sources), AddSourceBuffer(s)
  PROVE  MediaInv'
<1> DEFINE n == Len(buffers)
           next == n + 1
           none == <<>>
           new == [source |-> s, buffered |-> none]
           old == sources[s]
           longer == Append(old.sourceBuffers, next)
           listing == [old EXCEPT !.sourceBuffers = longer]
           changed == [listing EXCEPT !.state = "open"]
<1>1. /\ n < MaxSourceBuffers /\ buffers' = Append(buffers, new)
      /\ UNCHANGED <<elements, objectUrls>>
  BY DEF AddSourceBuffer
<1>2. sources' = [sources EXCEPT ![s] = changed]
  BY MediaFacts DEF AddSourceBuffer, MediaSource
<1>3. /\ sources \in Seq(MediaSource) /\ Len(sources) \in Nat /\ Len(sources) <= MaxSources
      /\ buffers \in Seq(SourceBuffer) /\ n \in Nat
      /\ old \in MediaSource /\ old.duration \in Nat /\ old.sourceBuffers \in Seq(1 .. MaxSourceBuffers)
      /\ \A b \in 1 .. n : buffers[b] \in SourceBuffer
  BY MediaFacts DEF MediaInv, BuffersBelong
<1>4. next \in 1 .. MaxSourceBuffers /\ next <= MaxSourceBuffers
  BY <1>1, <1>3, MediaAssumption
<1>5. /\ longer \in Seq(1 .. MaxSourceBuffers)
      /\ \A b : Lists(longer, b) <=> Lists(old.sourceBuffers, b) \/ b = next
      /\ \A i \in 1 .. Len(longer) : Lists(longer, longer[i])
  <2>1. \A i \in 1 .. Len(longer) : Lists(longer, longer[i])
    BY DEF Lists
  <2>2. old.sourceBuffers \in Seq(1 .. MaxSourceBuffers)
    BY <1>3
  <2> HIDE DEF next, old
  <2>3. longer \in Seq(1 .. MaxSourceBuffers)
    BY <1>4, <2>2, AppendProperties
  <2>4. \A b : Lists(longer, b) <=> Lists(old.sourceBuffers, b) \/ b = next
    BY <1>4, <2>2, ListsAppend
  <2> QED
    BY <2>1, <2>3, <2>4
<1>6. none \in Seq(BufferedRange) /\ Len(none) = 0
  OBVIOUS
<1>7. new \in SourceBuffer /\ new.buffered = none /\ new.source = s
  <2>1. s \in 1 .. MaxSources
    BY <1>3, MediaAssumption
  <2> HIDE DEF none
  <2> QED
    BY <1>6, <2>1 DEF SourceBuffer
<1> HIDE DEF longer, old, new
<1>8. listing \in MediaSource /\ listing.sourceBuffers = longer /\ listing.duration = old.duration
  BY <1>3, <1>5 DEF MediaSource
<1> HIDE DEF listing
<1>9. changed \in MediaSource /\ changed.sourceBuffers = longer /\ changed.duration = old.duration
  BY <1>8 DEF MediaSource
<1> HIDE DEF changed
<1>10. /\ sources' \in Seq(MediaSource) /\ Len(sources') = Len(sources) /\ sources'[s] = changed
       /\ \A r \in 1 .. Len(sources) : r # s => sources'[r] = sources[r]
  BY <1>2, <1>3, <1>9, ExceptSeq
<1>11. /\ buffers' \in Seq(SourceBuffer) /\ Len(buffers') = next /\ buffers'[next] = new
       /\ \A b \in 1 .. n : buffers'[b] = buffers[b]
  BY <1>1, <1>3, <1>7, AppendProperties
<1>12. /\ \A b \in 1 .. next : b \in 1 .. n \/ b = next
       /\ 1 .. n \subseteq 1 .. next /\ next \in 1 .. next
  BY <1>3
<1>13. \A r \in 1 .. Len(sources) :
         /\ \A i \in 1 .. Len(sources[r].sourceBuffers) : sources[r].sourceBuffers[i] \in 1 .. n
         /\ \A b : Lists(sources[r].sourceBuffers, b) => b \in 1 .. n /\ buffers[b].source = r
  BY DEF MediaInv, BuffersBelong, Filed, Lists
<1>14. \A b \in 1 .. n : /\ buffers[b].source \in 1 .. Len(sources)
                         /\ Lists(sources[buffers[b].source].sourceBuffers, b)
  BY DEF MediaInv, BuffersBelong
<1>15. \A r \in 1 .. Len(sources) :
         RangesOf(sources'[r], buffers') = RangesOf(sources[r], buffers)
  <2> SUFFICES ASSUME NEW r \in 1 .. Len(sources)
               PROVE  RangesOf(sources'[r], buffers') = RangesOf(sources[r], buffers)
    OBVIOUS
  <2>1. CASE r = s
    <3>1. Filed(old, buffers)
      BY DEF MediaInv, BuffersBelong, old
    <3>2. RangesOf(changed, Append(buffers, new)) = RangesOf(old, buffers)
      BY <1>3, <1>4, <1>7, <1>9, <3>1, RangesWithNew DEF longer
    <3> QED
      BY <1>1, <1>10, <2>1, <3>2 DEF old
  <2>2. CASE r # s
    <3>1. sources'[r] = sources[r] /\ sources[r] \in MediaSource
      BY <1>10, <2>2, MediaFacts
    <3>2. DOMAIN sources[r].sourceBuffers = 1 .. Len(sources[r].sourceBuffers)
      BY MediaFacts
    <3>3. \A i \in DOMAIN sources[r].sourceBuffers :
            buffers'[sources[r].sourceBuffers[i]].buffered = buffers[sources[r].sourceBuffers[i]].buffered
      BY <1>11, <1>13, <3>2
    <3> QED
      BY <3>1, <3>3, SameRanges
  <2> QED
    BY <2>1, <2>2
<1> HIDE DEF n, next
<1>16. \A r \in 1 .. Len(sources) :
         /\ sources'[r].duration = sources[r].duration
         /\ \A b : Lists(sources'[r].sourceBuffers, b)
                     <=> Lists(sources[r].sourceBuffers, b) \/ (b = next /\ r = s)
  BY <1>5, <1>9, <1>10 DEF old
<1>17. BuffersBelong'
  <2>1. ASSUME NEW r \in 1 .. Len(sources)
        PROVE  /\ Filed(sources'[r], buffers')
               /\ \A b : Lists(sources'[r].sourceBuffers, b) => buffers'[b].source = r
    <3>1. \A b : Lists(sources'[r].sourceBuffers, b) => b \in 1 .. next
      BY <1>12, <1>13, <1>16
    <3>2. \A i \in 1 .. Len(sources'[r].sourceBuffers) :
            Lists(sources'[r].sourceBuffers, sources'[r].sourceBuffers[i])
      BY DEF Lists
    <3>3. Filed(sources'[r], buffers')
      BY <1>11, <3>1, <3>2 DEF Filed
    <3>4. ASSUME NEW b, Lists(sources'[r].sourceBuffers, b) PROVE buffers'[b].source = r
      <4>1. CASE Lists(sources[r].sourceBuffers, b)
        BY <1>11, <1>13, <4>1 DEF n
      <4>2. CASE b = next /\ r = s
        BY <1>7, <1>11, <4>2
      <4> QED
        BY <1>16, <3>4, <4>1, <4>2
    <3> QED
      BY <3>3, <3>4
  <2>2. \A b \in 1 .. next : /\ buffers'[b].source \in 1 .. Len(sources)
                             /\ Lists(sources'[buffers'[b].source].sourceBuffers, b)
    BY <1>7, <1>11, <1>12, <1>14, <1>16
  <2>3. objectUrls' \subseteq 1 .. Len(sources)
    BY <1>1 DEF MediaInv, BuffersBelong
  <2> QED
    BY <1>3, <1>4, <1>10, <1>11, <2>1, <2>2, <2>3 DEF BuffersBelong
<1>18. RangesOK'
  <2>1. \A b \in 1 .. n : /\ Tidy(buffers[b].buffered)
                          /\ LatestEnd(buffers[b].buffered) <= sources[buffers[b].source].duration
    BY DEF MediaInv, RangesOK, n
  <2>2. Tidy(none) /\ LatestEnd(none) = 0
    <3> HIDE DEF none
    <3>1. LatestEnd(none) = 0
      <4>1. LatestEnd(none) = 0 \/ \E i \in 1 .. Len(none) : LatestEnd(none) = none[i].end
        BY <1>6, LatestEndFacts
      <4> QED
        BY <1>6, <4>1
    <3> QED
      BY <1>6, <3>1 DEF Tidy
  <2>3. 0 <= sources'[s].duration
    BY <1>3, <1>9, <1>10
  <2> HIDE DEF none
  <2>4. ASSUME NEW b \in 1 .. next
        PROVE  /\ Tidy(buffers'[b].buffered)
               /\ LatestEnd(buffers'[b].buffered) <= sources'[buffers'[b].source].duration
    <3>1. CASE b \in 1 .. n
      BY <1>11, <1>14, <1>16, <2>1, <3>1 DEF n
    <3>2. CASE b = next
      BY <1>7, <1>11, <2>2, <2>3, <3>2
    <3> QED
      BY <1>12, <3>1, <3>2
  <2> QED
    BY <1>11, <2>4 DEF RangesOK
<1>19. ElementsOK'
  <2>1. ASSUME NEW e \in 1 .. Len(elements)
        PROVE  /\ elements[e].source \in 0 .. Len(sources)
               /\ ElementOK(elements[e], sources', buffers')
    <3>1. elements[e].source \in 0 .. Len(sources) /\ ElementOK(elements[e], sources, buffers)
      BY DEF MediaInv, ElementsOK
    <3>2. CASE elements[e].source = NoSource
      BY <3>1, <3>2 DEF ElementOK
    <3>3. CASE elements[e].source # NoSource
      BY <1>3, <1>15, <3>1, <3>3 DEF NoSource, ElementOK
    <3> QED
      BY <3>2, <3>3
  <2> QED
    BY <1>1, <1>10, <2>1 DEF ElementsOK, MediaInv
<1> QED
  BY <1>17, <1>18, <1>19 DEF MediaInv

\* What appending to a buffer and removing from it have in common: its
\* ranges change, the elements of its source are refreshed, and the source
\* lasts at least as long as every range.
Refiles(b, ranges) ==
  /\ buffers' = [buffers EXCEPT ![b].buffered = ranges]
  /\ elements' = RefreshElements(elements, buffers[b].source, buffers')
  /\ UNCHANGED objectUrls

LEMMA BufferChanges ==
  ASSUME MediaInv, NEW b \in 1 .. Len(buffers), NEW ranges \in Seq(BufferedRange), Tidy(ranges),
         Refiles(b, ranges),
         sources' \in Seq(MediaSource), Len(sources') = Len(sources),
         \A r \in 1 .. Len(sources) :
           /\ sources'[r].sourceBuffers = sources[r].sourceBuffers
           /\ r # buffers[b].source => sources'[r].duration = sources[r].duration,
         \A c \in 1 .. Len(buffers) : buffers[c].source = buffers[b].source =>
           LatestEnd(buffers'[c].buffered) <= sources'[buffers[b].source].duration
  PROVE  MediaInv'
<1> DEFINE s == buffers[b].source
           old == buffers[b]
           new == [old EXCEPT !.buffered = ranges]
           n == Len(buffers)
           told == RangesOf(sources[s], buffers')
<1>1. /\ sources \in Seq(MediaSource) /\ Len(sources) \in Nat /\ Len(sources) <= MaxSources
      /\ buffers \in Seq(SourceBuffer) /\ n \in Nat /\ n <= MaxSourceBuffers
      /\ old \in SourceBuffer
      /\ elements \in Seq(MediaElement)
      /\ \A r \in 1 .. Len(sources) : sources[r] \in MediaSource
  BY MediaFacts DEF MediaInv, BuffersBelong, ElementsOK
<1>2. buffers' = [buffers EXCEPT ![b] = new]
  BY MediaFacts DEF Refiles
<1>3. new \in SourceBuffer /\ new.source = s /\ new.buffered = ranges
  <2>1. old.source = s
    OBVIOUS
  <2> HIDE DEF old, s
  <2> QED
    BY <1>1, <2>1 DEF SourceBuffer
<1> HIDE DEF new, old
<1>4. /\ buffers' \in Seq(SourceBuffer) /\ Len(buffers') = n /\ buffers'[b] = new
      /\ \A c \in 1 .. n : c # b => buffers'[c] = buffers[c]
  BY <1>1, <1>2, <1>3, ExceptSeq
<1>5. /\ \A r \in 1 .. Len(sources) :
           /\ Filed(sources[r], buffers)
           /\ \A c : Lists(sources[r].sourceBuffers, c) => c \in 1 .. n /\ buffers[c].source = r
      /\ \A c \in 1 .. n : /\ buffers[c].source \in 1 .. Len(sources)
                           /\ Lists(sources[buffers[c].source].sourceBuffers, c)
  <2>1. \A r \in 1 .. Len(sources) :
          /\ Filed(sources[r], buffers)
          /\ \A c : Lists(sources[r].sourceBuffers, c) => buffers[c].source = r
    BY DEF MediaInv, BuffersBelong
  <2>2. \A c \in 1 .. n : /\ buffers[c].source \in 1 .. Len(sources)
                          /\ Lists(sources[buffers[c].source].sourceBuffers, c)
    BY DEF MediaInv, BuffersBelong
  <2>3. \A r \in 1 .. Len(sources) : \A c : Lists(sources[r].sourceBuffers, c) => c \in 1 .. n
    BY <2>1 DEF Filed, Lists
  <2> QED
    BY <2>1, <2>2, <2>3
<1>6. s \in 1 .. Len(sources) /\ s # NoSource
  BY <1>1, <1>5 DEF NoSource
<1>7. \A c \in 1 .. n : buffers'[c].source = buffers[c].source
  BY <1>3, <1>4 DEF old
<1>8. BuffersBelong'
  BY <1>1, <1>4, <1>5, <1>7 DEF Filed, MediaInv, BuffersBelong, Refiles
<1>9. RangesOK'
  <2>1. ASSUME NEW c \in 1 .. n
        PROVE  /\ Tidy(buffers'[c].buffered)
               /\ LatestEnd(buffers'[c].buffered) <= sources'[buffers'[c].source].duration
    <3>1. Tidy(buffers[c].buffered) /\ LatestEnd(buffers[c].buffered) <= sources[buffers[c].source].duration
      BY DEF MediaInv, RangesOK
    <3>2. Tidy(buffers'[c].buffered)
      BY <1>3, <1>4, <3>1
    <3>3. CASE buffers[c].source = s
      BY <1>7, <3>2, <3>3
    <3>4. CASE buffers[c].source # s
      BY <1>4, <1>5, <3>1, <3>4
    <3> QED
      BY <3>3, <3>4
  <2> QED
    BY <1>4, <2>1 DEF RangesOK
<1>10. told \in Seq(BufferedRange)
  BY <1>1, <1>4, <1>5, <1>6, RangesOfFacts DEF Filed
<1>11. \A r \in 1 .. Len(sources) :
         RangesOf(sources'[r], buffers') = RangesOf(sources[r], buffers')
  BY SameRanges
<1>12. \A r \in 1 .. Len(sources) : r # s =>
         RangesOf(sources'[r], buffers') = RangesOf(sources[r], buffers)
  <2> SUFFICES ASSUME NEW r \in 1 .. Len(sources), r # s
               PROVE  RangesOf(sources'[r], buffers') = RangesOf(sources[r], buffers)
    OBVIOUS
  <2>1. DOMAIN sources[r].sourceBuffers = 1 .. Len(sources[r].sourceBuffers)
    BY MediaFacts
  <2>2. \A i \in DOMAIN sources[r].sourceBuffers :
          /\ sources[r].sourceBuffers[i] \in 1 .. n
          /\ buffers[sources[r].sourceBuffers[i]].source = r
    BY <1>5, <2>1 DEF Lists
  <2>3. \A i \in DOMAIN sources[r].sourceBuffers :
          buffers'[sources[r].sourceBuffers[i]].buffered = buffers[sources[r].sourceBuffers[i]].buffered
    BY <1>4, <2>2
  <2> QED
    BY <2>3, SameRanges
<1>13. /\ elements' \in Seq(MediaElement) /\ Len(elements') = Len(elements)
       /\ \A e \in 1 .. Len(elements) :
            /\ elements'[e].source = elements[e].source
            /\ elements[e].source # s => elements'[e] = elements[e]
            /\ elements[e].source = s => /\ elements'[e].buffered = told
                                         /\ elements'[e].duration = LatestEnd(told)
  <2>1. elements' = RefreshElements(elements, s, buffers')
    BY DEF Refiles
  <2> DEFINE later == RefreshElements(elements, s, buffers')
  <2>2. /\ later \in Seq(MediaElement) /\ Len(later) = Len(elements)
        /\ \A e \in 1 .. Len(elements) :
             /\ later[e].source = elements[e].source
             /\ elements[e].source # s => later[e] = elements[e]
             /\ elements[e].source = s => /\ later[e].buffered = told
                                           /\ later[e].duration = LatestEnd(told)
    BY <1>1, <1>6, <1>10, RefreshFacts
  <2> HIDE DEF later, told, s
  <2> QED
    BY <2>1, <2>2 DEF later
<1> HIDE DEF s, n, told
<1>14. ElementsOK'
  <2>1. ASSUME NEW e \in 1 .. Len(elements)
        PROVE  /\ elements'[e].source \in 0 .. Len(sources)
               /\ ElementOK(elements'[e], sources', buffers')
    <3>1. elements[e].source \in 0 .. Len(sources) /\ ElementOK(elements[e], sources, buffers)
      BY DEF MediaInv, ElementsOK
    <3>2. CASE elements[e].source = s
      BY <1>6, <1>11, <1>13, <3>1, <3>2 DEF told, ElementOK
    <3>3. CASE elements[e].source # s /\ elements[e].source # NoSource
      BY <1>1, <1>12, <1>13, <3>1, <3>3 DEF NoSource, ElementOK
    <3>4. CASE elements[e].source # s /\ elements[e].source = NoSource
      BY <1>13, <3>1, <3>4 DEF ElementOK
    <3> QED
      BY <3>2, <3>3, <3>4
  <2> QED
    BY <1>13, <2>1 DEF ElementsOK
<1> QED
  BY <1>8, <1>9, <1>14 DEF MediaInv

LEMMA AppendBufferInv ==
  ASSUME MediaInv, NEW b \in 1 .. Len(buffers), NEW length \in SegmentLengths, AppendBuffer(b, length)
  PROVE  MediaInv'
<1> DEFINE s == buffers[b].source
           old == buffers[b]
           ranges == Append(old.buffered, NextSegment(old, length))
           told == RangesOf(sources[s], buffers')
           end == LatestEnd(told)
           source == sources[s]
           new == [source EXCEPT !.duration = end]
           n == Len(buffers)
<1>1. /\ buffers' = [buffers EXCEPT ![b].buffered = ranges]
      /\ sources' = [sources EXCEPT ![s].duration = end]
      /\ elements' = RefreshElements(elements, s, buffers')
      /\ UNCHANGED objectUrls
  BY MediaFacts DEF AppendBuffer
<1>2. /\ old \in SourceBuffer /\ Tidy(old.buffered) /\ length \in Nat
      /\ sources \in Seq(MediaSource) /\ buffers \in Seq(SourceBuffer) /\ n \in Nat
      /\ s \in 1 .. Len(sources) /\ source \in MediaSource
  BY MediaFacts, MediaAssumption DEF MediaInv, BuffersBelong, RangesOK
<1>3. ranges \in Seq(BufferedRange) /\ Tidy(ranges)
  BY <1>2, NextSegmentFacts
<1> HIDE DEF ranges
<1> DEFINE longer == [old EXCEPT !.buffered = ranges]
<1>4. longer \in SourceBuffer /\ longer.source = s /\ longer.buffered = ranges
  <2>1. old.source = s
    OBVIOUS
  <2> HIDE DEF old, s
  <2> QED
    BY <1>2, <1>3, <2>1 DEF SourceBuffer
<1>5. buffers' = [buffers EXCEPT ![b] = longer]
  BY <1>1, MediaFacts
<1> HIDE DEF longer
<1>6. /\ buffers' \in Seq(SourceBuffer) /\ Len(buffers') = n
      /\ \A c \in 1 .. n : buffers'[c] \in SourceBuffer /\ buffers'[c].buffered \in Seq(BufferedRange)
  <2>1. buffers' \in Seq(SourceBuffer) /\ Len(buffers') = n
    BY <1>2, <1>4, <1>5, ExceptSeq
  <2>2. \A c \in 1 .. n : buffers'[c] \in SourceBuffer
    BY <2>1, ElementOfSeq
  <2> QED
    BY <2>1, <2>2 DEF SourceBuffer
<1>7. /\ \A c \in 1 .. n : Lists(sources[buffers[c].source].sourceBuffers, c)
      /\ Filed(sources[s], buffers')
  BY <1>2, <1>6 DEF MediaInv, BuffersBelong, Filed
<1>8. /\ told \in Seq(BufferedRange)
      /\ \A c : Lists(source.sourceBuffers, c) => \A x : Lists(buffers'[c].buffered, x) => Lists(told, x)
  BY <1>2, <1>6, <1>7, RangesOfFacts
<1>9. end \in Nat
  BY <1>8, LatestEndFacts
<1> HIDE DEF end, told
<1>10. \A c \in 1 .. n : buffers[c].source = s => LatestEnd(buffers'[c].buffered) <= end
  BY <1>6, <1>7, <1>8, LatestEndGrows DEF end
<1>11. sources' = [sources EXCEPT ![s] = new]
  BY <1>1, MediaFacts
<1> HIDE DEF source
<1>12. new \in MediaSource /\ new.sourceBuffers = source.sourceBuffers /\ new.duration = end
  BY <1>2, <1>9 DEF MediaSource
<1> HIDE DEF new
<1>13. /\ sources' \in Seq(MediaSource) /\ Len(sources') = Len(sources) /\ sources'[s] = new
       /\ \A r \in 1 .. Len(sources) : r # s => sources'[r] = sources[r]
  BY <1>2, <1>11, <1>12, ExceptSeq
<1>14. \A r \in 1 .. Len(sources) :
         /\ sources'[r].sourceBuffers = sources[r].sourceBuffers
         /\ r # s => sources'[r].duration = sources[r].duration
  BY <1>12, <1>13 DEF source
<1>15. \A c \in 1 .. Len(buffers) : buffers[c].source = s =>
         LatestEnd(buffers'[c].buffered) <= sources'[s].duration
  BY <1>10, <1>12, <1>13
<1> QED
  BY <1>1, <1>3, <1>13, <1>14, <1>15, BufferChanges DEF Refiles

LEMMA RemoveBufferInv ==
  ASSUME MediaInv, NEW b \in 1 .. Len(buffers), NEW start, NEW end, RemoveBuffer(b, start, end)
  PROVE  MediaInv'
<1> DEFINE s == buffers[b].source
           old == buffers[b].buffered
           ranges == Kept(old, start, end)
<1>1. /\ buffers' = [buffers EXCEPT ![b].buffered = ranges]
      /\ elements' = RefreshElements(elements, s, buffers')
      /\ UNCHANGED <<sources, objectUrls>>
  BY MediaFacts DEF RemoveBuffer
<1>2. /\ sources \in Seq(MediaSource) /\ s \in 1 .. Len(sources) /\ sources[s].duration \in Nat
      /\ old \in Seq(BufferedRange) /\ Tidy(old) /\ DOMAIN buffers = 1 .. Len(buffers)
      /\ \A c \in 1 .. Len(buffers) :
           LatestEnd(buffers[c].buffered) <= sources[buffers[c].source].duration
  BY MediaFacts DEF MediaInv, BuffersBelong, RangesOK
<1>3. ranges \in Seq(BufferedRange) /\ Tidy(ranges) /\ \A x : Lists(ranges, x) => Lists(old, x)
  BY <1>2, KeptFacts
<1> HIDE DEF ranges
<1>4. LatestEnd(ranges) <= sources[s].duration
  <2>1. LatestEnd(ranges) <= LatestEnd(old) /\ LatestEnd(old) <= sources[s].duration
    BY <1>2, <1>3, LatestEndGrows
  <2>2. LatestEnd(ranges) \in Nat /\ LatestEnd(old) \in Nat
    BY <1>2, <1>3, LatestEndFacts
  <2> QED
    BY <1>2, <2>1, <2>2
<1>5. ASSUME NEW c \in 1 .. Len(buffers), buffers[c].source = s
      PROVE  LatestEnd(buffers'[c].buffered) <= sources'[s].duration
  <2>1. CASE c = b
    BY <1>1, <1>2, <1>4, <2>1, MediaFacts DEF SourceBuffer
  <2>2. CASE c # b
    BY <1>1, <1>2, <1>5, <2>2
  <2> QED
    BY <2>1, <2>2
<1> QED
  BY <1>1, <1>2, <1>3, <1>5, BufferChanges DEF Refiles

LEMMA MediaInitInv ==
  ASSUME MediaInit
  PROVE  MediaInv
<1> DEFINE none == <<>>
<1>1. /\ elements = none /\ sources = none /\ buffers = none /\ objectUrls = {}
      /\ none \in Seq(MediaElement) /\ none \in Seq(MediaSource) /\ none \in Seq(SourceBuffer)
      /\ Len(none) = 0
  BY DEF MediaInit
<1> HIDE DEF none
<1>2. 0 <= MaxSources /\ 0 <= MaxSourceBuffers
  BY MediaAssumption
<1>3. ElementsOK
  BY <1>1 DEF ElementsOK
<1>4. BuffersBelong
  BY <1>1, <1>2 DEF BuffersBelong
<1>5. RangesOK
  BY <1>1 DEF RangesOK
<1> QED
  BY <1>3, <1>4, <1>5 DEF MediaInv

LEMMA MediaStep ==
  ASSUME MediaInv, [MediaNext]_mediaVars
  PROVE  MediaInv'
<1>1. /\ DOMAIN elements = 1 .. Len(elements) /\ DOMAIN sources = 1 .. Len(sources)
      /\ DOMAIN buffers = 1 .. Len(buffers)
  BY MediaFacts
<1>2. CASE CreateMediaElement
  BY <1>2, CreateMediaElementInv
<1>3. CASE CreateMediaSource
  BY <1>3, CreateMediaSourceInv
<1>4. ASSUME NEW s \in 1 .. Len(sources),
             CreateObjectUrl(s) \/ RevokeObjectUrl(s) \/ AddSourceBuffer(s) \/ EndOfStream(s)
      PROVE  MediaInv'
  BY <1>4, ObjectUrlInv, AddSourceBufferInv, EndOfStreamInv
<1>5. ASSUME NEW e \in 1 .. Len(elements), NEW s \in 1 .. Len(sources), SetSrcToSource(e, s)
      PROVE  MediaInv'
  BY <1>5, SetSrcToSourceInv
<1>6. ASSUME NEW e \in 1 .. Len(elements), NEW given \in BOOLEAN, SetPlainSrc(e, given)
      PROVE  MediaInv'
  BY <1>6, SetPlainSrcInv
<1>7. ASSUME NEW e \in 1 .. Len(elements), Load(e) \/ Play(e) \/ Pause(e)
      PROVE  MediaInv'
  BY <1>7, PlaybackInv
<1>8. ASSUME NEW b \in 1 .. Len(buffers), NEW length \in SegmentLengths, AppendBuffer(b, length)
      PROVE  MediaInv'
  BY <1>8, AppendBufferInv
<1>9. ASSUME NEW b \in 1 .. Len(buffers), NEW start, NEW end, RemoveBuffer(b, start, end)
      PROVE  MediaInv'
  BY <1>9, RemoveBufferInv
<1>10. CASE UNCHANGED mediaVars
  BY <1>10 DEF mediaVars, MediaInv, ElementsOK, BuffersBelong, RangesOK
<1> QED
  BY <1>1, <1>2, <1>3, <1>4, <1>5, <1>6, <1>7, <1>8, <1>9, <1>10 DEF MediaNext

\* The elements' copies, the tables of sources and buffers that point at each
\* other, and the ranges of every buffer hold together in every state.
THEOREM MediaInvariance == MediaSpec => []MediaInv
<1>1. MediaInit => MediaInv
  BY MediaInitInv
<1>2. MediaInv /\ [MediaNext]_mediaVars => MediaInv'
  BY MediaStep
<1> QED
  BY <1>1, <1>2, PTL DEF MediaSpec

LEMMA MediaInvMirrors == MediaInv => ElementsMirrorTheirSource
<1> SUFFICES ASSUME MediaInv PROVE ElementsMirrorTheirSource
  OBVIOUS
<1>1. /\ DOMAIN elements = 1 .. Len(elements) /\ DOMAIN sources = 1 .. Len(sources)
      /\ DOMAIN buffers = 1 .. Len(buffers)
      /\ \A b \in 1 .. Len(buffers) : DOMAIN buffers[b].buffered = 1 .. Len(buffers[b].buffered)
  BY MediaFacts, LenProperties
<1>2. MediaTypeOK
  BY <1>1 DEF MediaInv, ElementsOK, BuffersBelong, MediaTypeOK
<1>3. ElementsMirror
  BY <1>1 DEF MediaInv, ElementsOK, ElementOK, ElementsMirror
<1>4. RangesAreInOrder
  BY <1>1 DEF MediaInv, RangesOK, Tidy, RangesAreInOrder
<1> QED
  BY <1>2, <1>3, <1>4 DEF ElementsMirrorTheirSource

\* Whatever is appended, removed or assigned, and by whichever of the elements
\* that share a source: an element reports exactly what its source's buffers
\* hold and where it ends, and the ranges of a buffer stay in order and within
\* the duration.
THEOREM ElementsStayTrue == MediaSpec => []ElementsMirrorTheirSource
BY MediaInvariance, MediaInvMirrors, PTL
=============================================================================
