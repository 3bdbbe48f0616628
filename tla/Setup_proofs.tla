---------------------------- MODULE Setup_proofs ----------------------------
(***************************************************************************)
(* What Setup says of the devices in Configs, for every set of settings:   *)
(* the properties of the registers, the namespace and the geometry follow  *)
(* from the checks femu_realize makes, not from the values TLC tried.  An  *)
(* invariant says that what a device has is what was computed from its     *)
(* properties; the rest is arithmetic: powers of two, quotients, products  *)
(* that fit int, and the digits of a page address.                         *)
(***************************************************************************)
EXTENDS Setup, FiniteSetTheorems, TLAPS

-----------------------------------------------------------------------------
(* Arithmetic                                                               *)

\* What is less than the divisor is its own remainder.
LEMMA Modulo ==
    ASSUME NEW a \in Nat, NEW b \in Nat, a < b
    PROVE  a % b = a
OBVIOUS

\* The quotient is the greatest number of divisors that fit.
LEMMA Division ==
    ASSUME NEW a \in Nat, NEW b \in Nat \ {0}
    PROVE  /\ a \div b \in Nat
           /\ (a \div b) * b <= a
           /\ a < ((a \div b) + 1) * b
OBVIOUS

\* A part of a product is no greater than the product.
LEMMA Factor ==
    ASSUME NEW a \in Nat, NEW b \in Nat \ {0}, NEW c \in Nat, a * b < c
    PROVE  a < c
<1>1. a * b = a + a * (b - 1)
  OBVIOUS
<1>2. a * (b - 1) >= 0
  OBVIOUS
<1> QED
  BY <1>1, <1>2

\* A digit less than k and the rest determine each other.
LEMMA Digits ==
    ASSUME NEW k \in Nat, NEW x \in Nat, NEW y \in Nat, NEW r \in 0 .. k - 1, NEW s \in 0 .. k - 1,
           x * k + r = y * k + s
    PROVE  x = y /\ r = s
<1>1. ASSUME NEW u \in Nat, NEW v \in Nat, NEW e \in 0 .. k - 1, NEW f \in 0 .. k - 1,
             u * k + e = v * k + f, u < v
      PROVE  FALSE
  <2>1. PICK d \in Nat : v = u + 1 + d
    <3>1. v - u - 1 \in Nat /\ v = u + 1 + (v - u - 1)
      BY <1>1
    <3> QED
      BY <3>1
  <2>2. v * k = u * k + k + d * k
    BY <2>1
  <2>3. d * k \in Nat /\ u * k \in Nat
    OBVIOUS
  <2> QED
    BY <1>1, <2>2, <2>3
<1>2. ~ (x < y) /\ ~ (y < x)
  BY <1>1
<1> QED
  BY <1>2

\* Numbers of one digit more.
LEMMA LastDigit ==
    ASSUME NEW k \in Nat, NEW m \in Nat, NEW x \in 0 .. m - 1, NEW r \in 0 .. k - 1
    PROVE  x * k + r \in 0 .. m * k - 1
<1>1. PICK d \in Nat : m = x + 1 + d
  <2>1. m - x - 1 \in Nat /\ m = x + 1 + (m - x - 1)
    OBVIOUS
  <2> QED
    BY <2>1
<1>2. m * k = x * k + k + d * k
  BY <1>1
<1>3. d * k \in Nat /\ x * k \in Nat
  OBVIOUS
<1> QED
  BY <1>2, <1>3

\* The powers of two that the widths in the code reach: each is twice the one
\* before.
LEMMA Powers ==
    \A k \in 0 .. 31 : 2 ^ k \in Nat \ {0} /\ 2 ^ (k + 1) = 2 * 2 ^ k
<1> DEFINE Doubles(j) == 2 ^ j \in Nat \ {0} /\ 2 ^ (j + 1) = 2 * 2 ^ j
<1> SUFFICES ASSUME NEW k \in 0 .. 31 PROVE Doubles(k)
  OBVIOUS
<1>1. /\ Doubles(0) /\ Doubles(1) /\ Doubles(2) /\ Doubles(3) /\ Doubles(4) /\ Doubles(5)
      /\ Doubles(6) /\ Doubles(7) /\ Doubles(8) /\ Doubles(9) /\ Doubles(10) /\ Doubles(11)
      /\ Doubles(12) /\ Doubles(13) /\ Doubles(14) /\ Doubles(15) /\ Doubles(16) /\ Doubles(17)
      /\ Doubles(18) /\ Doubles(19) /\ Doubles(20) /\ Doubles(21) /\ Doubles(22) /\ Doubles(23)
      /\ Doubles(24) /\ Doubles(25) /\ Doubles(26) /\ Doubles(27) /\ Doubles(28) /\ Doubles(29)
      /\ Doubles(30) /\ Doubles(31)
  OBVIOUS
<1> HIDE DEF Doubles
<1>2. CASE k \in 0 .. 7
  <2>1. k = 0 \/ k = 1 \/ k = 2 \/ k = 3 \/ k = 4 \/ k = 5 \/ k = 6 \/ k = 7
    BY <1>2
  <2> QED
    BY <1>1, <2>1, Zenon
<1>3. CASE k \in 8 .. 15
  <2>1. k = 8 \/ k = 9 \/ k = 10 \/ k = 11 \/ k = 12 \/ k = 13 \/ k = 14 \/ k = 15
    BY <1>3
  <2> QED
    BY <1>1, <2>1, Zenon
<1>4. CASE k \in 16 .. 23
  <2>1. k = 16 \/ k = 17 \/ k = 18 \/ k = 19 \/ k = 20 \/ k = 21 \/ k = 22 \/ k = 23
    BY <1>4
  <2> QED
    BY <1>1, <2>1, Zenon
<1>5. CASE k \in 24 .. 31
  <2>1. k = 24 \/ k = 25 \/ k = 26 \/ k = 27 \/ k = 28 \/ k = 29 \/ k = 30 \/ k = 31
    BY <1>5
  <2> QED
    BY <1>1, <2>1, Zenon
<1> QED
  BY <1>2, <1>3, <1>4, <1>5

\* They are numbers.
LEMMA PowerType == \A k \in 0 .. 31 : 2 ^ k \in Nat
BY Powers

\* So are those pow2ceil chooses from.
LEMMA PowerSet == {2 ^ k : k \in 0 .. 30} \subseteq Nat
<1> DEFINE Pow(k) == 2 ^ k
<1>1. \A k \in 0 .. 31 : Pow(k) \in Nat
  BY PowerType
<1> HIDE DEF Pow
<1>2. {Pow(k) : k \in 0 .. 30} \subseteq Nat
  BY <1>1
<1> QED
  BY <1>2 DEF Pow

\* A shift of a page size is the sum of the exponents.
LEMMA PowerSum ==
    \A a \in 0 .. 15, b \in 12 .. 15 : 2 ^ b * 2 ^ a = 2 ^ (a + b)
<1> SUFFICES ASSUME NEW b \in 12 .. 15 PROVE \A a \in 0 .. 15 : 2 ^ b * 2 ^ a = 2 ^ (a + b)
  OBVIOUS
<1> DEFINE Sum(a) == 2 ^ b * 2 ^ a = 2 ^ (a + b)
<1>1. Sum(0)
  <2>1. 2 ^ 0 = 1 /\ 0 + b = b /\ b \in 0 .. 31
    OBVIOUS
  <2>2. 2 ^ b \in Nat
    BY <2>1, Powers, Zenon
  <2> QED
    BY <2>1, <2>2
<1>2. ASSUME NEW a \in 0 .. 14, Sum(a) PROVE Sum(a + 1)
  <2>1. a \in 0 .. 31 /\ a + b \in 0 .. 31 /\ b \in 0 .. 31 /\ (a + 1) + b = (a + b) + 1
    OBVIOUS
  <2>2. /\ 2 ^ a \in Nat \ {0} /\ 2 ^ (a + 1) = 2 * 2 ^ a
        /\ 2 ^ b \in Nat \ {0}
        /\ 2 ^ (a + b) \in Nat \ {0} /\ 2 ^ ((a + b) + 1) = 2 * 2 ^ (a + b)
    BY <2>1, Powers, Zenon
  <2>3. 2 ^ b * (2 * 2 ^ a) = 2 * (2 ^ b * 2 ^ a)
    BY <2>2
  <2> QED
    BY <1>2, <2>1, <2>2, <2>3
<1> HIDE DEF Sum
<1>3. /\ Sum(1) /\ Sum(2) /\ Sum(3) /\ Sum(4) /\ Sum(5) /\ Sum(6) /\ Sum(7) /\ Sum(8)
      /\ Sum(9) /\ Sum(10) /\ Sum(11) /\ Sum(12) /\ Sum(13) /\ Sum(14) /\ Sum(15)
  BY <1>1, <1>2
<1>4. ASSUME NEW a \in 0 .. 15 PROVE Sum(a)
  BY <1>1, <1>3
<1> QED
  BY <1>4 DEF Sum
-----------------------------------------------------------------------------
(* What femu_realize leaves behind                                          *)

\* Nothing is allocated.
Untouched == bar = None /\ ctrl = None /\ ns = None /\ spp = None /\ lm = None /\ sizes = None

\* The black-box mode has a drive, the others have none.
Drive ==
    \/ n.femu_mode # "bbssd" /\ spp = None /\ lm = None
    \/ /\ n.femu_mode = "bbssd" /\ lm = InitLines
       /\ \E low \in GcLines(n.gc_thres_pcent, TtLines),
             high \in GcLines(n.gc_thres_pcent_high, TtLines) : spp = SsdParams(low, high)

\* Everything femu_realize makes, from the properties as they are.
Made ==
    /\ Constraints /\ n.num_namespaces = 1
    /\ ctrl = InitCtrl /\ ns = InitNamespace
    /\ \E vectors \in BOOLEAN : bar = InitBar(vectors)
    /\ Drive

\* What nvme_start_ctrl derives from a page size and entry sizes in range.
Enabled ==
    \E mps \in MpsCodes, sqes, cqes \in EsCodes :
        /\ Startable(mps, sqes, cqes)
        /\ sizes = [page |-> PageSize(mps), prps |-> PageSize(mps) \div 8,
                    sqe |-> 2 ^ sqes, cqe |-> 2 ^ cqes]

\* A device has nothing or everything, a reachable one everything.
IInv ==
    /\ n \in Configs
    /\ stage \in {"new", "refused", "aborted", "off", "ready", "failed"}
    /\ stage \in {"new", "refused"} => Untouched
    /\ Made \/ Untouched
    /\ Realized => Made
    /\ stage = "ready" => Enabled

\* A new device has nothing.
LEMMA IInvInit == Init => IInv
BY DEF Init, IInv, Untouched, Realized

\* What was computed stays while the properties do.
LEMMA MadeStays ==
    ASSUME UNCHANGED <<n, bar, ctrl, ns, spp, lm>>
    PROVE  (Made <=> Made')
BY DEF Made, Drive, Constraints, QueueConstraints, FormatConstraints, DpsType, DpsFirstEight, InitCtrl,
       InitNamespace, InitBar, InitLines, SsdParams, RegSize, Flbas, NsBlocks, NsSize, Backend,
       TtLines, TtPgs, TtLuns, PgsPerLine, PgsPerCh, PgsPerLun, PgsPerPl, SecsPerCh

\* femu_realize makes all of it.
LEMMA MadeByRealize == Untouched /\ Realize => Made'
<1> SUFFICES ASSUME Untouched, Realize PROVE Made'
  OBVIOUS
<1>1. /\ Constraints' /\ n'.num_namespaces = 1
      /\ ctrl' = InitCtrl' /\ ns' = InitNamespace'
  BY DEF Realize, Constraints, QueueConstraints, FormatConstraints, DpsType, DpsFirstEight,
         InitCtrl, InitNamespace, Flbas, NsBlocks, NsSize, Backend
<1>2. \E vectors \in BOOLEAN : bar' = InitBar(vectors)'
  <2>1. \E vectors \in BOOLEAN : bar' = InitBar(vectors)
    <3>1. \E vectors \in BOOLEAN :
            /\ vectors => n.nr_io_queues + 1 <= 2048
            /\ bar' = InitBar(vectors)
      BY DEF Realize
    <3> QED
      BY <3>1
  <2>2. \A vectors : InitBar(vectors)' = InitBar(vectors)
    BY DEF Realize, InitBar, RegSize
  <2> QED
    BY <2>1, <2>2, Zenon
<1>3. Drive'
  <2>1. n' = n /\ InitDrive /\ spp = None /\ lm = None
    BY DEF Realize, Untouched
  <2>2. CASE n.femu_mode # "bbssd"
    BY <2>1, <2>2 DEF InitDrive, Drive
  <2>3. CASE n.femu_mode = "bbssd"
    BY <2>1, <2>3 DEF InitDrive, Drive, InitLines, SsdParams, TtLines, TtPgs, TtLuns, PgsPerLine,
        PgsPerCh, PgsPerLun, PgsPerPl, SecsPerCh
  <2> QED
    BY <2>2, <2>3
<1> QED
  BY <1>1, <1>2, <1>3, Zenon DEF Made

\* Every step keeps the invariant.
LEMMA IInvStep == IInv /\ [Next]_vars => IInv'
<1> SUFFICES ASSUME IInv, [Next]_vars PROVE IInv'
  OBVIOUS
<1>1. CASE Refuse
  BY <1>1, MadeStays DEF Refuse, IInv, Untouched, Realized
<1>2. CASE AbortOnNamespaces
  BY <1>2, MadeStays DEF AbortOnNamespaces, IInv, Untouched, Realized
<1>3. CASE Realize
  <2>1. n' = n /\ stage' \in {"off", "aborted"}
    BY <1>3 DEF Realize, InitDrive
  <2>2. Made'
    <3>1. stage = "new"
      BY <1>3 DEF Realize
    <3>2. Untouched
      BY <3>1 DEF IInv
    <3> QED
      BY <1>3, <3>2, MadeByRealize
  <2> QED
    BY <2>1, <2>2 DEF IInv, Realized
<1>4. ASSUME NEW mps \in MpsCodes, NEW sqes \in EsCodes, NEW cqes \in EsCodes, Start(mps, sqes, cqes)
      PROVE  IInv'
  <2>1. CASE Startable(mps, sqes, cqes)
    <3>1. Enabled'
      BY <1>4, <2>1 DEF Start, Enabled, Startable
    <3> QED
      BY <1>4, <2>1, <3>1, MadeStays DEF Start, IInv, Realized
  <2>2. CASE ~ Startable(mps, sqes, cqes)
    BY <1>4, <2>2, MadeStays DEF Start, IInv, Untouched, Realized
  <2> QED
    BY <2>1, <2>2
<1>5. CASE Disable
  BY <1>5, MadeStays DEF Disable, IInv, Untouched, Realized
<1>6. CASE UNCHANGED vars
  BY <1>6, MadeStays DEF vars, IInv, Untouched, Realized, Enabled, Startable
<1> QED
  BY <1>1, <1>2, <1>3, <1>4, <1>5, <1>6 DEF Next

\* What a device has is what femu_realize computed from its properties, and what
\* a started one derived is from page and entry sizes it announces.
THEOREM Inductive == Spec => []IInv
<1>1. Init => IInv
  BY IInvInit
<1>2. IInv /\ [Next]_vars => IInv'
  BY IInvStep
<1> QED
  BY <1>1, <1>2, PTL DEF Spec

\* A device exists in full or not at all, for every setting of the properties
\* (the early returns of femu_realize).
THEOREM TypeCorrect == Spec => []TypeOK
<1>1. IInv => TypeOK
  <2> SUFFICES ASSUME IInv PROVE TypeOK
    OBVIOUS
  <2>1. CASE Untouched
    <3>1. ~ Made
      BY <2>1 DEF Untouched, Made, None, InitCtrl
    <3> QED
      BY <2>1, <3>1 DEF IInv, TypeOK, Untouched, Realized
  <2>2. CASE Made
    <3>1. bar # None /\ ctrl # None /\ ns # None
      BY <2>2 DEF Made, InitBar, InitCtrl, InitNamespace, None
    <3>2. /\ (spp # None) <=> (n.femu_mode = "bbssd")
          /\ (spp # None) <=> (lm # None)
      BY <2>2 DEF Made, Drive, SsdParams, InitLines, None
    <3>3. lm # None => lm.free_line_cnt \in 0 .. lm.tt_lines
      <4>1. n.blks_per_pl \in Nat \ {0}
        BY ConfigsAssumption DEF IInv
      <4> QED
        BY <2>2, <4>1 DEF Made, Drive, InitLines
    <3>4. stage = "ready" => sizes # None
      BY DEF IInv, Enabled, None
    <3>5. ~ Untouched
      BY <3>1 DEF Untouched
    <3> QED
      BY <3>1, <3>2, <3>3, <3>4, <3>5 DEF IInv, TypeOK, Realized
  <2> QED
    BY <2>1, <2>2 DEF IInv
<1> QED
  BY <1>1, Inductive, PTL
-----------------------------------------------------------------------------
(* The registers                                                            *)

\* pow2ceil of a size of the register block is at least that size.
LEMMA Pow2ceil ==
    ASSUME NEW x \in Nat, 4096 < x, x <= 32768
    PROVE  pow2ceil(x) \in Nat /\ pow2ceil(x) >= x
<1> DEFINE Pow(k) == 2 ^ k
           Fits(p) == p >= x /\ p < 2 * x
<1>1. pow2ceil(x) = CHOOSE p \in {Pow(k) : k \in 0 .. 30} : Fits(p)
  BY DEF pow2ceil
<1>2. /\ Pow(13) = 8192 /\ Pow(14) = 16384 /\ Pow(15) = 32768
      /\ 13 \in 0 .. 30 /\ 14 \in 0 .. 30 /\ 15 \in 0 .. 30
  OBVIOUS
<1>3. {Pow(k) : k \in 0 .. 30} \subseteq Nat
  BY PowerSet
<1>4. Fits(8192) \/ Fits(16384) \/ Fits(32768)
  OBVIOUS
<1> HIDE DEF Pow
<1>5. \E p \in {Pow(k) : k \in 0 .. 30} : Fits(p)
  <2> HIDE DEF Fits
  <2>1. {Pow(13), Pow(14), Pow(15)} \subseteq {Pow(k) : k \in 0 .. 30}
    BY <1>2
  <2> QED
    BY <1>2, <1>4, <2>1
<1>6. pow2ceil(x) \in {Pow(k) : k \in 0 .. 30} /\ Fits(pow2ceil(x))
  <2> HIDE DEF Fits
  <2> QED
    BY <1>1, <1>5
<1> QED
  BY <1>3, <1>6

\* The registers and the doorbells of k I/O queues.
RegBytes(k) == 4100 + 2 * (k + 1) * 4

\* The doorbells of queue q end before size.
Reached(q, size) == 4096 + (2 * q + 1) * 4 * 1 + 4 <= size

\* Both doorbells of queue q lie within the register block (reg_size).
LEMMA RegBlock ==
    ASSUME NEW k \in 1 .. NVME_MAX_QS, NEW q \in 0 .. k
    PROVE  Reached(q, pow2ceil(RegBytes(k)))
<1>1. RegBytes(k) \in Nat /\ 4096 < RegBytes(k) /\ RegBytes(k) <= 32768
  <2>1. RegBytes(k) = 4108 + 8 * k /\ k \in 1 .. 2047
    BY DEF RegBytes, NVME_MAX_QS
  <2> QED
    BY <2>1
<1>2. pow2ceil(RegBytes(k)) \in Nat /\ pow2ceil(RegBytes(k)) >= RegBytes(k)
  BY <1>1, Pow2ceil
<1>3. 4096 + (2 * q + 1) * 4 * 1 + 4 <= RegBytes(k)
  BY DEF RegBytes, NVME_MAX_QS
<1> QED
  BY <1>1, <1>2, <1>3 DEF Reached

\* Whatever number of queues the checks let through, each has its doorbells in
\* the register block, with the default stride (femu.c:551).
THEOREM QueuesAlwaysReachable == Spec => []QueuesReachable
<1>1. IInv => QueuesReachable
  <2> SUFFICES ASSUME IInv, Realized, n.db_stride = 0, NEW q \in 0 .. n.nr_io_queues
               PROVE  4096 + (2 * q + 1) * 4 * 2 ^ bar.dstrd + 4 <= bar.reg_size
    BY DEF QueuesReachable
  <2>1. Made
    BY DEF IInv
  <2>2. bar.reg_size = RegSize /\ bar.dstrd = 0
    BY <2>1 DEF Made, InitBar
  <2>3. 2 ^ bar.dstrd = 1
    BY <2>2
  <2>4. n.nr_io_queues \in 1 .. NVME_MAX_QS
    BY <2>1 DEF Made, Constraints, QueueConstraints
  <2>5. RegSize = pow2ceil(RegBytes(n.nr_io_queues))
    BY DEF RegSize, RegBytes
  <2>6. Reached(q, RegSize)
    BY <2>4, <2>5, RegBlock, Zenon
  <2> QED
    BY <2>2, <2>3, <2>6 DEF Reached
<1> QED
  BY <1>1, Inductive, PTL
-----------------------------------------------------------------------------
(* The namespace                                                            *)

\* The format chosen by flbas is the one lba_index asked for, and there is one
\* namespace of the size of the memory.
LEMMA Index ==
    ASSUME IInv, Made
    PROVE  /\ n.lba_index \in 0 .. 15
           /\ Flbas % 16 = n.lba_index
           /\ ns.flbas % 16 = n.lba_index
           /\ ns.nsze = NsBlocks(n.lba_index)
           /\ ns.ns_blks = Backend \div (2 ^ Lbads(n.lba_index) + n.meta)
           /\ ns.ms = n.meta /\ n.meta \in Nat
           /\ NsSize = Backend /\ Backend \in Nat
<1>1. /\ n.lba_index \in Nat /\ n.nlbaf \in Nat /\ n.extended \in Nat /\ n.meta \in Nat
      /\ n.memsz \in Nat
  BY ConfigsAssumption DEF IInv
<1>2. /\ n.lba_index < n.nlbaf /\ n.nlbaf <= 16 /\ n.num_namespaces = 1
  BY DEF Made, Constraints, FormatConstraints
<1>3. n.lba_index \in 0 .. 15
  BY <1>1, <1>2
<1>4. Backend \in Nat /\ NsSize = Backend
  BY <1>1, <1>2 DEF Backend, NsSize
<1>5. Flbas % 16 = n.lba_index
  <2>1. n.lba_index \div 16 = 0 /\ 0 % 2 # 1
    BY <1>3
  <2>2. Flbas = n.lba_index + 16 * n.extended
    BY <2>1 DEF Flbas
  <2> QED
    BY <1>1, <1>3, <2>2
<1>6. ns = InitNamespace
  BY DEF Made
<1> QED
  BY <1>1, <1>3, <1>4, <1>5, <1>6 DEF InitNamespace

\* A block is a sector or more.
LEMMA BlockSize ==
    ASSUME NEW i \in 0 .. 15
    PROVE  2 ^ Lbads(i) \in Nat /\ 2 ^ Lbads(i) >= 512
<1> DEFINE OK(j) == 2 ^ (9 + j) \in Nat /\ 2 ^ (9 + j) >= 512
<1>1. OK(0)
  OBVIOUS
<1>2. ASSUME NEW j \in 0 .. 14, OK(j) PROVE OK(j + 1)
  <2>1. 9 + j \in 0 .. 31 /\ 9 + (j + 1) = (9 + j) + 1
    OBVIOUS
  <2>2. 2 ^ ((9 + j) + 1) = 2 * 2 ^ (9 + j)
    BY <2>1, Powers, Zenon
  <2> QED
    BY <1>2, <2>1, <2>2
<1> HIDE DEF OK
<1>3. /\ OK(1) /\ OK(2) /\ OK(3) /\ OK(4) /\ OK(5) /\ OK(6) /\ OK(7) /\ OK(8)
      /\ OK(9) /\ OK(10) /\ OK(11) /\ OK(12) /\ OK(13) /\ OK(14) /\ OK(15)
  BY <1>1, <1>2
<1>4. OK(i)
  BY <1>1, <1>3
<1> QED
  BY <1>4 DEF OK, Lbads

\* The namespace that Identify announces lies in the memory behind it and leaves
\* less than a block unused, for every format and size of memory (femu.c:360).
THEOREM NamespaceAlwaysFits == Spec => []NamespaceFits
<1>1. IInv => NamespaceFits
  <2> SUFFICES ASSUME IInv, Realized PROVE NamespaceFits
    BY DEF NamespaceFits
  <2>1. Made
    BY DEF IInv
  <2> DEFINE block == 2 ^ Lbads(n.lba_index)
  <2>2. block \in Nat \ {0}
    BY <2>1, Index, BlockSize
  <2>3. /\ Backend \in Nat /\ n.meta \in Nat /\ ns.ms = n.meta
        /\ ns.nsze = Backend \div block
        /\ ns.ns_blks = Backend \div (block + n.meta)
        /\ 2 ^ Lbads(ns.flbas % 16) = block
    BY <2>1, Index DEF NsBlocks
  <2> HIDE DEF block
  <2>4. /\ (Backend \div block) * block <= Backend
        /\ Backend < ((Backend \div block) + 1) * block
    BY <2>2, <2>3, Division
  <2>5. (Backend \div (block + n.meta)) * (block + n.meta) <= Backend
    <3>1. block + n.meta \in Nat \ {0}
      BY <2>2, <2>3
    <3> QED
      BY <2>3, <3>1, Division
  <2>6. n.meta = 0 => block + n.meta = block
    BY <2>2
  <2> QED
    BY <2>3, <2>4, <2>5, <2>6 DEF NamespaceFits
<1> QED
  BY <1>1, Inductive, PTL
-----------------------------------------------------------------------------
(* The limit on transfers                                                   *)

\* Sixteen bits hold the page sizes up to 32 KiB.
LEMMA PageSizeFits == \A m \in 0 .. 3 : PageSize(m) = 2 ^ (12 + m)
<1> DEFINE Same(m) == PageSize(m) = 2 ^ (12 + m)
<1>1. Same(0) /\ Same(1) /\ Same(2) /\ Same(3)
  BY DEF PageSize
<1>2. \A m \in 0 .. 3 : m = 0 \/ m = 1 \/ m = 2 \/ m = 3
  OBVIOUS
<1> HIDE DEF Same
<1>3. \A m \in 0 .. 3 : Same(m)
  BY <1>1, <1>2
<1> QED
  BY <1>3 DEF Same

\* Of larger ones they hold nothing.
LEMMA PageSizeLost == \A m \in 4 .. 15 : PageSize(m) = 0
<1> DEFINE Lost(m) == PageSize(m) = 0
<1>1. /\ Lost(4) /\ Lost(5) /\ Lost(6) /\ Lost(7) /\ Lost(8) /\ Lost(9)
      /\ Lost(10) /\ Lost(11) /\ Lost(12) /\ Lost(13) /\ Lost(14) /\ Lost(15)
  BY DEF PageSize
<1> HIDE DEF Lost
<1>2. \A m \in 4 .. 15 :
        \/ m = 4 \/ m = 5 \/ m = 6 \/ m = 7 \/ m = 8 \/ m = 9
        \/ m = 10 \/ m = 11 \/ m = 12 \/ m = 13 \/ m = 14 \/ m = 15
  OBVIOUS
<1>3. \A m \in 4 .. 15 : Lost(m)
  BY <1>1, <1>2, Zenon
<1> QED
  BY <1>3 DEF Lost

\* Lengths are positive numbers.
LEMMA LengthType == \A len \in Lengths : len \in Nat \ {0}
<1> DEFINE Pow(k) == 2 ^ k
<1>1. \A k \in 0 .. 31 : Pow(k) \in Nat \ {0}
  BY Powers
<1> HIDE DEF Pow
<1>2. \A len \in {Pow(k) + d : k \in 9 .. 29, d \in {0, 1}} : len \in Nat \ {0}
  BY <1>1
<1> QED
  BY <1>2 DEF Lengths, Pow

\* 2^a pages of a size that sixteen bits hold, and of a smaller one.
LEMMA LimitGrows ==
    ASSUME NEW a \in 0 .. 15, NEW m \in 0 .. 3, NEW c \in 0 .. m
    PROVE  /\ PageSize(m) \in Nat \ {0}
           /\ PageSize(m) * 2 ^ a = 2 ^ (a + (12 + m))
           /\ 2 ^ (a + (12 + c)) \in Nat /\ 2 ^ (a + (12 + m)) \in Nat
           /\ 2 ^ (a + (12 + c)) <= 2 ^ (a + (12 + m))
<1> DEFINE Pow(k) == 2 ^ k
<1>1. \A k \in 0 .. 31 : Pow(k) \in Nat \ {0} /\ Pow(k + 1) = 2 * Pow(k)
  BY Powers
<1>2. \A i \in 0 .. 15, j \in 12 .. 15 : Pow(j) * Pow(i) = Pow(i + j)
  BY PowerSum
<1>3. PageSize(m) = Pow(12 + m)
  BY PageSizeFits, Zenon
<1> HIDE DEF Pow
<1>4. 12 + m \in 12 .. 15 /\ 12 + c \in 12 .. 15 /\ c <= m
  OBVIOUS
<1>5. Pow(13) = 2 * Pow(12) /\ Pow(14) = 2 * Pow(13) /\ Pow(15) = 2 * Pow(14)
  <2>1. Pow(12 + 1) = 2 * Pow(12) /\ Pow(13 + 1) = 2 * Pow(13) /\ Pow(14 + 1) = 2 * Pow(14)
    BY <1>1
  <2> QED
    BY <2>1
<1>6. Pow(12) \in Nat /\ Pow(13) \in Nat /\ Pow(14) \in Nat /\ Pow(15) \in Nat
  BY <1>1
<1>7. Pow(12 + c) <= Pow(12 + m)
  <2>1. \A i, j \in 12 .. 15 : i <= j => Pow(i) <= Pow(j)
    BY <1>5, <1>6
  <2> QED
    BY <1>4, <2>1
<1>8. /\ Pow(a) \in Nat /\ Pow(12 + c) \in Nat /\ Pow(12 + m) \in Nat \ {0}
      /\ Pow(a + (12 + c)) \in Nat /\ Pow(a + (12 + m)) \in Nat
  BY <1>1, <1>4
<1>9. Pow(12 + c) * Pow(a) = Pow(a + (12 + c)) /\ Pow(12 + m) * Pow(a) = Pow(a + (12 + m))
  BY <1>2, <1>4
<1>10. \A x, y, z \in Nat : x <= y => x * z <= y * z
  OBVIOUS
<1>11. Pow(a + (12 + c)) <= Pow(a + (12 + m))
  BY <1>7, <1>8, <1>9, <1>10
<1> QED
  BY <1>3, <1>8, <1>9, <1>11 DEF Pow

\* nvme_check_mdts allows what Identify announces, and nothing longer while mpsmin
\* fits CAP, with every page size that can be started and that sixteen bits hold;
\* with a larger one it allows nothing.
THEOREM MdtsAlwaysAsAnnounced == Spec => []MdtsAsAnnounced
<1>1. IInv => MdtsAsAnnounced
  <2> DEFINE Announced(len) == len <= 2 ^ (ctrl.mdts + 12 + bar.mpsmin)
  <2> SUFFICES ASSUME IInv, stage = "ready", ctrl.mdts # 0, NEW len \in Lengths
               PROVE  /\ sizes.page # 0 /\ Announced(len) => TransferAllowed(len)
                      /\ sizes.page = 0 => ~ TransferAllowed(len)
                      /\ n.mpsmin <= 15 /\ ~ Announced(len) => ~ TransferAllowed(len)
    BY DEF MdtsAsAnnounced
  <2>1. Made /\ Enabled
    BY DEF IInv, Realized
  <2>2. PICK mps \in MpsCodes :
            /\ bar.mpsmin <= mps /\ mps <= bar.mpsmax
            /\ sizes.page = PageSize(mps)
    BY <2>1 DEF Enabled, Startable
  <2>3. /\ mps \in 0 .. 15 /\ n.mpsmin \in Nat /\ n.mpsmax \in 0 .. 15 /\ n.mdts \in 0 .. 15
        /\ n.mpsmax <= n.mpsmin
    BY <2>1, <2>2, HostAssumption, ConfigsAssumption DEF IInv, Made, Constraints
  <2>4. /\ ctrl.mdts = n.mdts
        /\ bar.mpsmin = n.mpsmin % 16 /\ bar.mpsmax = n.mpsmax % 16
    BY <2>1 DEF Made, InitCtrl, InitBar
  <2>5. bar.mpsmin \in 0 .. mps /\ (n.mpsmin <= 15 => bar.mpsmin = mps)
    BY <2>2, <2>3, <2>4
  <2>6. len \in Nat \ {0}
    BY LengthType
  <2>7. TransferAllowed(len) <=> len <= sizes.page * 2 ^ n.mdts
    BY <2>4 DEF TransferAllowed
  <2>8. CASE mps \in 4 .. 15
    <3>1. sizes.page = 0
      BY <2>2, <2>8, PageSizeLost, Zenon
    <3>2. 2 ^ n.mdts \in Nat
      <4>1. n.mdts \in 0 .. 31
        BY <2>3
      <4> QED
        BY <4>1, Powers, Zenon
    <3> QED
      BY <2>6, <2>7, <3>1, <3>2
  <2>9. CASE mps \in 0 .. 3
    <3> DEFINE limit == 2 ^ (n.mdts + (12 + mps))
               promised == 2 ^ (n.mdts + (12 + bar.mpsmin))
    <3>1. /\ sizes.page \in Nat \ {0} /\ sizes.page * 2 ^ n.mdts = limit
          /\ promised \in Nat /\ limit \in Nat /\ promised <= limit
      BY <2>2, <2>3, <2>5, <2>9, LimitGrows, Zenon
    <3>2. n.mpsmin <= 15 => promised = limit
      BY <2>5
    <3>3. ctrl.mdts + 12 + bar.mpsmin = n.mdts + (12 + bar.mpsmin)
      BY <2>3, <2>4, <2>5
    <3>4. Announced(len) <=> len <= promised
      BY <3>3
    <3> HIDE DEF limit, promised, Announced
    <3> QED
      BY <2>6, <2>7, <3>1, <3>2, <3>4
  <2> QED
    BY <2>3, <2>8, <2>9
<1> QED
  BY <1>1, Inductive, PTL
-----------------------------------------------------------------------------
(* The geometry                                                             *)

\* The first number that int does not hold.
Half == 2 ^ (IntBits - 1)

\* int reaches from -Half to Half - 1.
LEMMA HalfType == Half \in Nat /\ 2 ^ IntBits = 2 * Half
<1> DEFINE k == IntBits - 1
<1>1. k \in 0 .. 31 /\ IntBits = k + 1
  BY WidthsAssumption
<1> HIDE DEF k
<1>2. 2 ^ k \in Nat \ {0} /\ 2 ^ (k + 1) = 2 * 2 ^ k
  BY <1>1, Powers, Zenon
<1>3. Half = 2 ^ k
  BY DEF Half, k
<1>4. 2 ^ IntBits = 2 * Half
  BY <1>1, <1>2, <1>3
<1> QED
  BY <1>2, <1>3, <1>4

\* What fits into an int is kept.
LEMMA Kept ==
    ASSUME NEW x \in Nat, x < Half
    PROVE  Wrap(x) = x
<1>1. Half \in Nat /\ 2 ^ IntBits = 2 * Half
  BY HalfType
<1>2. Wrap(x) = ((x + Half) % (2 * Half)) - Half
  BY <1>1 DEF Wrap, Half
<1>3. (x + Half) % (2 * Half) = x + Half
  BY <1>1, Modulo
<1> QED
  BY <1>1, <1>2, <1>3

\* The geometry has at least one of everything.
LEMMA GeometryType ==
    ASSUME IInv
    PROVE  /\ n.secs_per_pg \in Nat \ {0} /\ n.pgs_per_blk \in Nat \ {0} /\ n.blks_per_pl \in Nat \ {0}
           /\ n.pls_per_lun \in Nat \ {0} /\ n.luns_per_ch \in Nat \ {0} /\ n.nchs \in Nat \ {0}
BY ConfigsAssumption DEF IInv

\* The number of pages fits int;
ProductFits(p, b, l, u, h) == p * b * l * u * h < Half

\* then so do its parts, in the order the code multiplies them.
ProductsExact(p, b, l, u, h) ==
    /\ Mul(p, b) = p * b
    /\ Mul(p * b, l) = p * b * l
    /\ Mul(p * b * l, u) = p * b * l * u
    /\ Mul(p * b * l * u, h) = p * b * l * u * h
    /\ Mul(u, h) = u * h
    /\ Mul(u * h, p) = u * h * p
    /\ Mul(b, l) = b * l

\* The products of ssd_init_params, as numbers.
LEMMA ProductsKept ==
    ASSUME NEW p \in Nat \ {0}, NEW b \in Nat \ {0}, NEW l \in Nat \ {0}, NEW u \in Nat \ {0},
           NEW h \in Nat \ {0}, ProductFits(p, b, l, u, h)
    PROVE  ProductsExact(p, b, l, u, h)
<1>0. Half \in Nat
  BY HalfType
<1>1. /\ p * b \in Nat \ {0} /\ p * b * l \in Nat \ {0} /\ p * b * l * u \in Nat \ {0}
      /\ u * h \in Nat \ {0} /\ u * h * p \in Nat \ {0} /\ b * l \in Nat \ {0}
      /\ p * b * l * u * h \in Nat \ {0} /\ u * h * p * (b * l) \in Nat
  OBVIOUS
<1>2. p * b * l * u < Half
  BY <1>0, <1>1, Factor DEF ProductFits
<1>3. p * b * l < Half
  BY <1>0, <1>1, <1>2, Factor
<1>4. p * b < Half
  BY <1>0, <1>1, <1>3, Factor
<1>5. u * h * p < Half
  <2>1. (u * h * p) * (b * l) = p * b * l * u * h
    OBVIOUS
  <2> QED
    BY <1>0, <1>1, <2>1, Factor DEF ProductFits
<1>6. u * h < Half
  BY <1>0, <1>1, <1>5, Factor
<1>7. b * l < Half
  <2>1. (b * l) * (u * h * p) = p * b * l * u * h
    OBVIOUS
  <2> QED
    BY <1>0, <1>1, <2>1, Factor DEF ProductFits
<1> QED
  BY <1>1, <1>2, <1>3, <1>4, <1>5, <1>6, <1>7, Kept DEF Mul, ProductFits, ProductsExact

\* What ssd_init_params computes when int holds the number of pages.
LEMMA DriveParams ==
    ASSUME IInv, HasDrive, FitsInt
    PROVE  /\ spp.pgs_per_pl = n.pgs_per_blk * n.blks_per_pl
           /\ spp.pgs_per_lun = n.pgs_per_blk * n.blks_per_pl * n.pls_per_lun
           /\ spp.pgs_per_ch = n.pgs_per_blk * n.blks_per_pl * n.pls_per_lun * n.luns_per_ch
           /\ spp.tt_pgs = Pages
           /\ spp.tt_luns = n.luns_per_ch * n.nchs
           /\ spp.pgs_per_line = n.luns_per_ch * n.nchs * n.pgs_per_blk
           /\ spp.tt_lines = n.blks_per_pl * n.pls_per_lun
           /\ lm = InitLines
           /\ spp.gc_thres_lines \in GcLines(n.gc_thres_pcent, n.blks_per_pl * n.pls_per_lun)
           /\ spp.gc_thres_lines_high \in GcLines(n.gc_thres_pcent_high, n.blks_per_pl * n.pls_per_lun)
           /\ Made
<1>1. Made /\ spp # None
  BY DEF IInv, HasDrive
<1>2. PICK low \in GcLines(n.gc_thres_pcent, TtLines),
           high \in GcLines(n.gc_thres_pcent_high, TtLines) : spp = SsdParams(low, high)
  BY <1>1 DEF Made, Drive
<1>3. lm = InitLines
  BY <1>1 DEF Made, Drive
<1>4. /\ Mul(n.pgs_per_blk, n.blks_per_pl) = n.pgs_per_blk * n.blks_per_pl
      /\ Mul(n.pgs_per_blk * n.blks_per_pl, n.pls_per_lun)
            = n.pgs_per_blk * n.blks_per_pl * n.pls_per_lun
      /\ Mul(n.pgs_per_blk * n.blks_per_pl * n.pls_per_lun, n.luns_per_ch)
            = n.pgs_per_blk * n.blks_per_pl * n.pls_per_lun * n.luns_per_ch
      /\ Mul(n.pgs_per_blk * n.blks_per_pl * n.pls_per_lun * n.luns_per_ch, n.nchs)
            = n.pgs_per_blk * n.blks_per_pl * n.pls_per_lun * n.luns_per_ch * n.nchs
      /\ Mul(n.luns_per_ch, n.nchs) = n.luns_per_ch * n.nchs
      /\ Mul(n.luns_per_ch * n.nchs, n.pgs_per_blk) = n.luns_per_ch * n.nchs * n.pgs_per_blk
      /\ Mul(n.blks_per_pl, n.pls_per_lun) = n.blks_per_pl * n.pls_per_lun
  <2>1. ProductFits(n.pgs_per_blk, n.blks_per_pl, n.pls_per_lun, n.luns_per_ch, n.nchs)
    BY DEF FitsInt, Pages, Half, ProductFits
  <2>2. ProductsExact(n.pgs_per_blk, n.blks_per_pl, n.pls_per_lun, n.luns_per_ch, n.nchs)
    BY <2>1, GeometryType, ProductsKept
  <2> QED
    BY <2>2 DEF ProductsExact
<1>5. TtLines = n.blks_per_pl * n.pls_per_lun
  BY <1>4 DEF TtLines
<1>6. /\ PgsPerPl = n.pgs_per_blk * n.blks_per_pl
      /\ PgsPerLun = n.pgs_per_blk * n.blks_per_pl * n.pls_per_lun
      /\ PgsPerCh = n.pgs_per_blk * n.blks_per_pl * n.pls_per_lun * n.luns_per_ch
      /\ TtPgs = Pages
      /\ TtLuns = n.luns_per_ch * n.nchs
      /\ PgsPerLine = n.luns_per_ch * n.nchs * n.pgs_per_blk
  BY <1>4, Zenon DEF PgsPerPl, PgsPerLun, PgsPerCh, TtPgs, TtLuns, PgsPerLine, Pages
<1>7. /\ spp.pgs_per_pl = PgsPerPl /\ spp.pgs_per_lun = PgsPerLun /\ spp.pgs_per_ch = PgsPerCh
      /\ spp.tt_pgs = TtPgs /\ spp.tt_luns = TtLuns /\ spp.pgs_per_line = PgsPerLine
      /\ spp.tt_lines = TtLines /\ spp.gc_thres_lines = low /\ spp.gc_thres_lines_high = high
  BY <1>2 DEF SsdParams
<1>8. /\ spp.gc_thres_lines \in GcLines(n.gc_thres_pcent, TtLines)
      /\ spp.gc_thres_lines_high \in GcLines(n.gc_thres_pcent_high, TtLines)
  BY <1>2, <1>7
<1> QED
  BY <1>1, <1>3, <1>5, <1>6, <1>7, <1>8, Zenon

\* If int holds the number of pages, every other product of ssd_init_params is
\* exact, but the number of sectors.
THEOREM OverflowAlwaysOnlyInSectors == Spec => []OverflowOnlyInSectors
<1>1. IInv => OverflowOnlyInSectors
  <2> SUFFICES ASSUME IInv, HasDrive, FitsInt PROVE OverflowOnlyInSectors
    BY DEF OverflowOnlyInSectors
  <2>1. \A p, b, l, u, h \in Nat :
            /\ p * b * l * u * h = (u * h) * l * (p * b)
            /\ (b * l) * (u * h * p) = p * b * l * u * h
    OBVIOUS
  <2>2. /\ n.pgs_per_blk \in Nat /\ n.blks_per_pl \in Nat /\ n.pls_per_lun \in Nat
        /\ n.luns_per_ch \in Nat /\ n.nchs \in Nat
    BY GeometryType
  <2>3. /\ Pages = (n.luns_per_ch * n.nchs) * n.pls_per_lun * (n.pgs_per_blk * n.blks_per_pl)
        /\ (n.blks_per_pl * n.pls_per_lun) * (n.luns_per_ch * n.nchs * n.pgs_per_blk) = Pages
    BY <2>1, <2>2 DEF Pages
  <2> QED
    BY <2>3, DriveParams, Zenon DEF OverflowOnlyInSectors
<1> QED
  BY <1>1, Inductive, PTL

\* The thresholds.
Percent == 0 .. 100

\* A threshold in lines, t, of a percentage.
Bounded(t, pcent, lines) ==
    /\ t \in Int
    /\ 100 * t <= (100 - pcent) * lines
    /\ 100 * t >= (100 - pcent) * lines - 100

\* (int)((1 - pcent / 100.0) * lines) is the exact value, rounded down or one less.
LEMMA GcLinesBounds ==
    ASSUME NEW pcent \in Percent, NEW lines \in Nat, NEW t \in GcLines(pcent, lines)
    PROVE  Bounded(t, pcent, lines)
<1> DEFINE exact == (100 - pcent) * lines
<1>1. exact \in Nat
  BY DEF Percent
<1>2. t = exact \div 100 \/ (exact % 100 = 0 /\ t = exact \div 100 - 1)
  BY DEF GcLines
<1> HIDE DEF exact
<1>3. t \in Int /\ 100 * t <= exact /\ 100 * t >= exact - 100
  BY <1>1, <1>2
<1> QED
  BY <1>3 DEF exact, Bounded

\* With one plane a unit, the thresholds of ssd_init_params are below the free
\* lines of a new drive, ordered, and not 0 if the percentage is worth two lines.
THEOREM CollectionAlwaysStartsInTime == Spec => []CollectionStartsInTime
<1>1. IInv => CollectionStartsInTime
  <2> SUFFICES ASSUME IInv, HasDrive, FitsInt, n.pls_per_lun = 1 PROVE CollectionStartsInTime
    BY Zenon DEF CollectionStartsInTime
  <2> DEFINE b == n.blks_per_pl
             p == n.gc_thres_pcent
             q == n.gc_thres_pcent_high
             low == spp.gc_thres_lines
             high == spp.gc_thres_lines_high
  <2>1. b \in Nat \ {0} /\ p \in Percent /\ q \in Percent
    <3>1. b \in Nat \ {0}
      BY GeometryType
    <3>2. p \in Percent /\ q \in Percent
      BY ConfigsAssumption DEF IInv, Percent
    <3> QED
      BY <3>1, <3>2
  <2>2. lm.tt_lines = b /\ lm.free_line_cnt = b - 1
    BY DriveParams DEF InitLines
  <2>3. low \in GcLines(p, b) /\ high \in GcLines(q, b)
    <3>1. b * n.pls_per_lun = b
      BY <2>1
    <3>2. low \in GcLines(p, b * n.pls_per_lun) /\ high \in GcLines(q, b * n.pls_per_lun)
      BY DriveParams, Zenon
    <3> QED
      BY <3>1, <3>2
  <2>4. /\ lm.tt_lines = b /\ spp.gc_thres_lines = low /\ spp.gc_thres_lines_high = high
        /\ n.gc_thres_pcent = p /\ n.gc_thres_pcent_high = q
    BY <2>2
  <2> HIDE DEF b, p, q, low, high
  <2>5. /\ low \in Int /\ high \in Int
        /\ 100 * low <= (100 - p) * b /\ 100 * high <= (100 - q) * b
        /\ 100 * low >= (100 - p) * b - 100 /\ 100 * high >= (100 - q) * b - 100
    <3>1. b \in Nat
      BY <2>1
    <3>2. Bounded(low, p, b) /\ Bounded(high, q, b)
      BY <2>1, <2>3, <3>1, GcLinesBounds, Zenon
    <3> QED
      BY <3>2 DEF Bounded
  <2>6. (100 - p) * b = 100 * b - p * b /\ (100 - q) * b = 100 * b - q * b
    BY <2>1 DEF Percent
  <2>7. p * b \in Int /\ q * b \in Int
    BY <2>1 DEF Percent
  <2>8. p * b > 100 => b - 1 > low
    BY <2>1, <2>5, <2>6, <2>7
  <2>9. p < q => high <= low
    <3> SUFFICES ASSUME p < q PROVE high <= low
      OBVIOUS
    <3>1. PICK d \in Nat : q = p + 1 + d
      <4>1. q - p - 1 \in Nat /\ q = p + 1 + (q - p - 1)
        BY <2>1 DEF Percent
      <4> QED
        BY <4>1
    <3>2. q * b = p * b + b + d * b
      BY <2>1, <3>1 DEF Percent
    <3>3. d * b \in Nat
      BY <2>1 DEF Percent
    <3> QED
      BY <2>1, <2>5, <2>6, <2>7, <3>2, <3>3
  <2>10. (100 - q) * b >= 200 => high >= 1
    BY <2>1, <2>5, <2>6, <2>7 DEF Percent
  <2> QED
    BY <2>1, <2>2, <2>4, <2>8, <2>9, <2>10 DEF CollectionStartsInTime
<1> QED
  BY <1>1, Inductive, PTL
-----------------------------------------------------------------------------
(* The table                                                                *)

\* No block a host may name is beyond maptbl, on a drive as large as its memory.
THEOREM BlocksAlwaysHaveEntries == Spec => []BlocksHaveEntries
<1>1. IInv => BlocksHaveEntries
  <2> SUFFICES ASSUME IInv, HasDrive, FitsInt, Backend <= Pages * n.secs_per_pg * 512,
                      NEW slba \in 0 .. ns.nsze - 1
               PROVE  Lpn(slba) \in 0 .. spp.tt_pgs - 1
    BY DEF BlocksHaveEntries
  <2>1. Made /\ spp.tt_pgs = Pages
    BY DriveParams
  <2>2. PICK s \in Nat \ {0} : s = n.secs_per_pg
    BY GeometryType
  <2>3. PICK size \in Nat : size = Pages
    BY GeometryType DEF Pages
  <2> DEFINE block == 2 ^ Lbads(n.lba_index)
  <2>4. block \in Nat /\ block >= 512
    BY <2>1, Index, BlockSize
  <2>5. /\ Backend \in Nat /\ ns.nsze = Backend \div block
    BY <2>1, Index DEF NsBlocks
  <2> HIDE DEF block
  <2>6. PICK k \in Nat : k = ns.nsze /\ k * block <= Backend
    BY <2>4, <2>5, Division
  <2>7. k * 512 <= k * block
    <3>1. PICK d \in Nat : block = 512 + d
      <4>1. block - 512 \in Nat /\ block = 512 + (block - 512)
        BY <2>4
      <4> QED
        BY <4>1
    <3>2. k * block = k * 512 + k * d /\ k * d \in Nat
      BY <2>6, <3>1
    <3> QED
      BY <2>6, <3>2
  <2>8. k <= size * s
    <3>1. Backend <= size * s * 512
      BY <2>2, <2>3
    <3>2. size * s \in Nat
      BY <2>2, <2>3
    <3> HIDE DEF Backend
    <3> QED
      BY <2>4, <2>5, <2>6, <2>7, <3>1, <3>2
  <2>9. slba \in Nat /\ slba < size * s
    BY <2>2, <2>3, <2>6, <2>8
  <2>10. slba \div s \in Nat /\ (slba \div s) * s <= slba
    BY <2>2, <2>9, Division
  <2>11. slba \div s < size
    <3> DEFINE q == slba \div s
    <3>1. q \in Nat /\ q * s < size * s
      BY <2>2, <2>3, <2>9, <2>10
    <3> HIDE DEF q
    <3> SUFFICES ASSUME q >= size PROVE FALSE
      BY <2>3, <3>1 DEF q
    <3>2. PICK d \in Nat : q = size + d
      <4>1. q - size \in Nat /\ q = size + (q - size)
        BY <2>3, <3>1
      <4> QED
        BY <4>1
    <3>3. q * s = size * s + d * s /\ d * s \in Nat
      BY <2>2, <2>3, <3>2
    <3> QED
      BY <2>2, <2>3, <3>1, <3>3
  <2> QED
    BY <2>1, <2>2, <2>3, <2>10, <2>11 DEF Lpn
<1> QED
  BY <1>1, Inductive, PTL
-----------------------------------------------------------------------------
(* The lines                                                                *)

\* ppa2pgidx without its width, for h channels of u units of k pages.
Place(c, i, j, g, u, k, p) == c * (k * u) + i * k + 0 + j * p + g

\* h channels of u units of k pages, b blocks of p pages in each.
Sizes(h, u, b, k, p) ==
    h \in Nat \ {0} /\ u \in Nat \ {0} /\ b \in Nat \ {0} /\ k \in Nat \ {0} /\ p \in Nat \ {0} /\ b * p <= k

\* A place the write pointer reaches.
Position(c, i, j, g, h, u, b, p) ==
    c \in 0 .. h - 1 /\ i \in 0 .. u - 1 /\ j \in 0 .. b - 1 /\ g \in 0 .. p - 1

\* The page in its unit,
InUnit(j, g, p) == j * p + g
\* and in its channel.
InCh(i, j, g, k, p) == i * k + InUnit(j, g, p)

\* A position of the write pointer is a page of the drive,
LEMMA PlaceRange ==
    ASSUME NEW h, NEW u, NEW b, NEW k, NEW p, Sizes(h, u, b, k, p),
           NEW c, NEW i, NEW j, NEW g, Position(c, i, j, g, h, u, b, p)
    PROVE  /\ InUnit(j, g, p) \in 0 .. k - 1
           /\ InCh(i, j, g, k, p) \in 0 .. u * k - 1
           /\ Place(c, i, j, g, u, k, p) = c * (u * k) + InCh(i, j, g, k, p)
           /\ Place(c, i, j, g, u, k, p) \in 0 .. (k * u) * h - 1
<1> USE DEF Sizes, Position
<1>1. InUnit(j, g, p) \in 0 .. k - 1
  <2>1. j * p + g \in 0 .. b * p - 1
    BY LastDigit
  <2> QED
    BY <2>1 DEF InUnit
<1>2. InCh(i, j, g, k, p) \in 0 .. u * k - 1
  BY <1>1, LastDigit DEF InCh
<1>3. c * (u * k) + InCh(i, j, g, k, p) \in 0 .. h * (u * k) - 1
  <2> DEFINE w == u * k
  <2>1. w \in Nat /\ InCh(i, j, g, k, p) \in 0 .. w - 1
    BY <1>2
  <2> HIDE DEF w
  <2>2. c * w + InCh(i, j, g, k, p) \in 0 .. h * w - 1
    BY <2>1, LastDigit
  <2> QED
    BY <2>2 DEF w
<1>4. Place(c, i, j, g, u, k, p) = c * (u * k) + InCh(i, j, g, k, p)
  BY DEF Place, InCh, InUnit
<1>5. h * (u * k) = (k * u) * h
  OBVIOUS
<1> QED
  BY <1>1, <1>2, <1>3, <1>4, <1>5

\* and no two are the same page.
LEMMA PlaceInjective ==
    ASSUME NEW h, NEW u, NEW b, NEW k, NEW p, Sizes(h, u, b, k, p),
           NEW c, NEW i, NEW j, NEW g, Position(c, i, j, g, h, u, b, p),
           NEW c2, NEW i2, NEW j2, NEW g2, Position(c2, i2, j2, g2, h, u, b, p),
           Place(c, i, j, g, u, k, p) = Place(c2, i2, j2, g2, u, k, p)
    PROVE  c = c2 /\ i = i2 /\ j = j2 /\ g = g2
<1> DEFINE r == InUnit(j, g, p)
           r2 == InUnit(j2, g2, p)
           t == InCh(i, j, g, k, p)
           t2 == InCh(i2, j2, g2, k, p)
           w == u * k
<1>1. r \in 0 .. k - 1 /\ t \in 0 .. w - 1 /\ Place(c, i, j, g, u, k, p) = c * w + t
  BY PlaceRange
<1>2. r2 \in 0 .. k - 1 /\ t2 \in 0 .. w - 1 /\ Place(c2, i2, j2, g2, u, k, p) = c2 * w + t2
  BY PlaceRange
<1>3. /\ w \in Nat /\ k \in Nat /\ p \in Nat
      /\ c \in Nat /\ c2 \in Nat /\ i \in Nat /\ i2 \in Nat /\ j \in Nat /\ j2 \in Nat
      /\ g \in 0 .. p - 1 /\ g2 \in 0 .. p - 1
  BY DEF Sizes, Position
<1>4. t = i * k + r /\ t2 = i2 * k + r2 /\ r = j * p + g /\ r2 = j2 * p + g2
  BY DEF InCh, InUnit
<1> HIDE DEF w, t, t2, r, r2
<1>5. c = c2 /\ t = t2
  <2>1. c * w + t = c2 * w + t2
    BY <1>1, <1>2
  <2> QED
    BY <1>1, <1>2, <1>3, <2>1, Digits
<1>6. i = i2 /\ r = r2
  <2>1. i * k + r = i2 * k + r2
    BY <1>4, <1>5
  <2> QED
    BY <1>1, <1>2, <1>3, <2>1, Digits
<1>7. j = j2 /\ g = g2
  <2>1. j * p + g = j2 * p + g2
    BY <1>4, <1>6
  <2> QED
    BY <1>3, <2>1, Digits
<1> QED
  BY <1>5, <1>6, <1>7

\* The positions of the write pointer on the drive.
Positions(h, u, b, p) == (((0 .. h - 1) \X (0 .. u - 1)) \X (0 .. b - 1)) \X (0 .. p - 1)

\* There are as many positions as pages of the lines.
LEMMA PositionsCount ==
    ASSUME NEW h \in Nat, NEW u \in Nat, NEW b \in Nat, NEW p \in Nat
    PROVE  /\ IsFiniteSet(Positions(h, u, b, p))
           /\ Cardinality(Positions(h, u, b, p)) = ((h * u) * b) * p
<1>1. \A m \in Nat : IsFiniteSet(0 .. m - 1) /\ Cardinality(0 .. m - 1) = m
  <2> SUFFICES ASSUME NEW m \in Nat PROVE IsFiniteSet(0 .. m - 1) /\ Cardinality(0 .. m - 1) = m
    OBVIOUS
  <2>1. 0 \in Int /\ m - 1 \in Int
    OBVIOUS
  <2>2. /\ IsFiniteSet(0 .. m - 1)
        /\ Cardinality(0 .. m - 1) = IF 0 > m - 1 THEN 0 ELSE (m - 1) - 0 + 1
    BY <2>1, FS_Interval
  <2> QED
    BY <2>2
<1> DEFINE A == 0 .. h - 1
           B == 0 .. u - 1
           C == 0 .. b - 1
           D == 0 .. p - 1
<1>2. /\ IsFiniteSet(A) /\ Cardinality(A) = h /\ IsFiniteSet(B) /\ Cardinality(B) = u
      /\ IsFiniteSet(C) /\ Cardinality(C) = b /\ IsFiniteSet(D) /\ Cardinality(D) = p
  BY <1>1
<1>3. Positions(h, u, b, p) = ((A \X B) \X C) \X D
  BY DEF Positions
<1> HIDE DEF A, B, C, D
<1> DEFINE AB == A \X B
           ABC == AB \X C
<1>4. IsFiniteSet(AB) /\ Cardinality(AB) = h * u
  BY <1>2, FS_Product
<1> HIDE DEF AB
<1>5. IsFiniteSet(ABC) /\ Cardinality(ABC) = (h * u) * b
  BY <1>2, <1>4, FS_Product
<1> HIDE DEF ABC
<1>6. IsFiniteSet(ABC \X D) /\ Cardinality(ABC \X D) = ((h * u) * b) * p
  BY <1>2, <1>5, FS_Product
<1> QED
  BY <1>3, <1>6 DEF AB, ABC

\* The fields of struct ppa hold the position of the write pointer.
LEMMA FieldKept ==
    ASSUME NEW w \in 1 .. 32, NEW m \in Nat, m <= 2 ^ w, NEW x \in 0 .. m - 1
    PROVE  x % 2 ^ w = x
<1> DEFINE k == w - 1
<1>1. k \in 0 .. 31 /\ w = k + 1
  OBVIOUS
<1> HIDE DEF k
<1>2. 2 ^ k \in Nat \ {0} /\ 2 ^ (k + 1) = 2 * 2 ^ k
  BY <1>1, Powers, Zenon
<1>3. PICK y \in Nat : y = 2 ^ w
  BY <1>1, <1>2
<1>4. x \in Nat /\ x < y
  BY <1>3
<1>5. x % y = x
  BY <1>4, Modulo
<1> QED
  BY <1>3, <1>5

\* The factors of ppa2pgidx are those of Place.
LEMMA DriveSizes ==
    ASSUME IInv, HasDrive, FitsInt
    PROVE  /\ Sizes(n.nchs, n.luns_per_ch, n.blks_per_pl, spp.pgs_per_lun, n.pgs_per_blk)
           /\ spp.pgs_per_ch = spp.pgs_per_lun * n.luns_per_ch
           /\ Pages = (spp.pgs_per_lun * n.luns_per_ch) * n.nchs
           /\ Pages \in Nat /\ Pages < Half
           /\ lm.tt_lines = n.blks_per_pl
<1>1. PICK h \in Nat \ {0}, u \in Nat \ {0}, b \in Nat \ {0}, l \in Nat \ {0}, p \in Nat \ {0} :
        h = n.nchs /\ u = n.luns_per_ch /\ b = n.blks_per_pl /\ l = n.pls_per_lun /\ p = n.pgs_per_blk
  BY GeometryType
<1>2. /\ spp.pgs_per_lun = p * b * l /\ spp.pgs_per_ch = p * b * l * u /\ lm = InitLines
  BY <1>1, DriveParams
<1>3. b * p <= p * b * l
  <2>1. PICK d \in Nat : l = 1 + d
    <3>1. l - 1 \in Nat /\ l = 1 + (l - 1)
      BY <1>1
    <3> QED
      BY <3>1
  <2>2. p * b * l = b * p + (p * b) * d /\ (p * b) * d \in Nat /\ b * p \in Nat
    BY <1>1, <2>1
  <2> QED
    BY <2>2
<1>4. p * b * l \in Nat \ {0}
  BY <1>1
<1>5. Sizes(h, u, b, p * b * l, p)
  BY <1>1, <1>3, <1>4 DEF Sizes
<1>6. Pages = (p * b * l * u) * h /\ Pages \in Nat
  BY <1>1 DEF Pages
<1>7. Pages < Half
  BY DEF FitsInt, Half
<1> QED
  BY <1>1, <1>2, <1>5, <1>6, <1>7 DEF InitLines

\* ppa2pgidx computes the place of the page get_new_page makes.
LEMMA PageIndex ==
    ASSUME IInv, HasDrive, FitsInt, FitsPpa, NEW c, NEW i, NEW j, NEW g,
           Position(c, i, j, g, n.nchs, n.luns_per_ch, n.blks_per_pl, n.pgs_per_blk)
    PROVE  /\ ppa2pgidx(NewPage(c, i, j, g))
                = Place(c, i, j, g, n.luns_per_ch, spp.pgs_per_lun, n.pgs_per_blk)
           /\ Place(c, i, j, g, n.luns_per_ch, spp.pgs_per_lun, n.pgs_per_blk) \in 0 .. Pages - 1
<1> DEFINE place == Place(c, i, j, g, n.luns_per_ch, spp.pgs_per_lun, n.pgs_per_blk)
<1>1. place \in 0 .. (spp.pgs_per_lun * n.luns_per_ch) * n.nchs - 1
  BY DriveSizes, PlaceRange
<1>2. place \in 0 .. Pages - 1
  BY <1>1, DriveSizes
<1>3. place \in Nat /\ place < Half
  <2>1. Half \in Nat /\ Pages \in Nat /\ Pages < Half
    BY HalfType, DriveSizes
  <2> HIDE DEF place
  <2> QED
    BY <1>2, <2>1
<1>4. Wrap(place) = place
  BY <1>3, Kept
<1>5. NewPage(c, i, j, g) = [ch |-> c, lun |-> i, pl |-> 0, blk |-> j, pg |-> g]
  <2>1. /\ n.nchs \in Nat /\ n.luns_per_ch \in Nat /\ n.blks_per_pl \in Nat /\ n.pgs_per_blk \in Nat
    BY GeometryType
  <2>2. /\ ChBits \in 1 .. 32 /\ LunBits \in 1 .. 32 /\ BlkBits \in 1 .. 32 /\ PgBits \in 1 .. 32
    BY WidthsAssumption
  <2>3. c % 2 ^ ChBits = c
    BY <2>1, <2>2, FieldKept DEF FitsPpa, Position
  <2>4. i % 2 ^ LunBits = i
    BY <2>1, <2>2, FieldKept DEF FitsPpa, Position
  <2>5. j % 2 ^ BlkBits = j
    BY <2>1, <2>2, FieldKept DEF FitsPpa, Position
  <2>6. g % 2 ^ PgBits = g
    BY <2>1, <2>2, FieldKept DEF FitsPpa, Position
  <2> QED
    BY <2>3, <2>4, <2>5, <2>6 DEF NewPage
<1>6. ppa2pgidx(NewPage(c, i, j, g)) = Wrap(place)
  <2>1. ppa2pgidx(NewPage(c, i, j, g))
            = Wrap(c * spp.pgs_per_ch + i * spp.pgs_per_lun + 0 * spp.pgs_per_pl + j * n.pgs_per_blk + g)
    BY <1>5 DEF ppa2pgidx
  <2>2. spp.pgs_per_pl \in Nat
    BY GeometryType, DriveParams
  <2>3. 0 * spp.pgs_per_pl = 0
    BY <2>2
  <2>4. spp.pgs_per_ch = spp.pgs_per_lun * n.luns_per_ch
    BY DriveSizes
  <2> QED
    BY <2>1, <2>3, <2>4 DEF Place
<1> QED
  BY <1>2, <1>4, <1>6

\* The lines of every geometry that fits int and struct ppa are disjoint and, with
\* one plane a unit, cover the drive: ppa2pgidx is one to one.
THEOREM LinesAlwaysTileTheDrive == Spec => []LinesTileTheDrive
<1>1. IInv => LinesTileTheDrive
  <2> SUFFICES ASSUME IInv, HasDrive, FitsInt, FitsPpa PROVE LinesTileTheDrive
    BY DEF LinesTileTheDrive
  <2> DEFINE h == n.nchs
             u == n.luns_per_ch
             b == n.blks_per_pl
             k == spp.pgs_per_lun
             p == n.pgs_per_blk
             X == Positions(h, u, b, p)
             At(x) == Place(x[1][1][1], x[1][1][2], x[1][2], x[2], u, k, p)
             visited == UNION {PagesOfLine(line) : line \in 0 .. lm.tt_lines - 1}
             f == [x \in X |-> At(x)]
  <2>1. Sizes(h, u, b, k, p) /\ lm.tt_lines = b
    BY DriveSizes
  <2>2. ASSUME NEW x \in X
        PROVE  /\ Position(x[1][1][1], x[1][1][2], x[1][2], x[2], h, u, b, p)
               /\ x = <<<<<<x[1][1][1], x[1][1][2]>>, x[1][2]>>, x[2]>>
    BY DEF Positions, Position
  <2>3. ASSUME NEW c, NEW i, NEW j, NEW g, Position(c, i, j, g, h, u, b, p)
        PROVE  <<<<<<c, i>>, j>>, g>> \in X
    BY <2>3 DEF Positions, Position
  <2>4. visited = {At(x) : x \in X}
    <3>1. ASSUME NEW y \in visited PROVE \E x \in X : y = At(x)
      <4>1. PICK line \in 0 .. b - 1 : y \in PagesOfLine(line)
        BY <2>1
      <4>2. PICK c \in 0 .. h - 1, i \in 0 .. u - 1, g \in 0 .. p - 1 :
                y = ppa2pgidx(NewPage(c, i, line, g))
        BY <4>1 DEF PagesOfLine
      <4>3. Position(c, i, line, g, h, u, b, p)
        BY <4>1, <4>2 DEF Position
      <4>4. y = Place(c, i, line, g, u, k, p)
        BY <4>2, <4>3, PageIndex
      <4>5. y = At(<<<<<<c, i>>, line>>, g>>)
        BY <4>4
      <4> QED
        BY <2>3, <4>3, <4>5
    <3>2. ASSUME NEW x \in X PROVE At(x) \in visited
      <4>1. Position(x[1][1][1], x[1][1][2], x[1][2], x[2], h, u, b, p)
        BY <2>2
      <4>2. At(x) = ppa2pgidx(NewPage(x[1][1][1], x[1][1][2], x[1][2], x[2]))
        BY <4>1, PageIndex
      <4>3. At(x) \in PagesOfLine(x[1][2]) /\ x[1][2] \in 0 .. lm.tt_lines - 1
        BY <2>1, <4>1, <4>2 DEF PagesOfLine, Position
      <4> QED
        BY <4>3
    <3> QED
      BY <3>1, <3>2
  <2>5. visited \subseteq 0 .. Pages - 1
    BY <2>2, <2>4, PageIndex
  <2>6. f \in Bijection(X, visited)
    <3>1. ASSUME NEW x \in X, NEW y \in X, At(x) = At(y) PROVE x = y
      BY <2>1, <2>2, <3>1, PlaceInjective
    <3> HIDE DEF X, At, visited
    <3>2. f \in [X -> visited]
      BY <2>4
    <3>3. f \in Injection(X, visited)
      <4>1. \A x \in X : f[x] = At(x)
        OBVIOUS
      <4> HIDE DEF f
      <4> QED
        BY <3>1, <3>2, <4>1 DEF Injection, IsInjective
    <3>4. f \in Surjection(X, visited)
      BY <2>4, <3>2 DEF Surjection
    <3> QED
      BY <3>3, <3>4 DEF Bijection
  <2>7. IsFiniteSet(X) /\ Cardinality(X) = ((h * u) * b) * p
    <3>1. h \in Nat /\ u \in Nat /\ b \in Nat /\ p \in Nat
      BY <2>1 DEF Sizes
    <3> HIDE DEF h, u, b, p
    <3> QED
      BY <3>1, PositionsCount
  <2>8. IsFiniteSet(visited) /\ Cardinality(visited) = ((h * u) * b) * p
    <3> HIDE DEF X, visited, f
    <3>1. ExistsBijection(X, visited)
      BY <2>6 DEF ExistsBijection
    <3> QED
      BY <2>7, <3>1, FS_Bijection
  <2>9. spp.tt_pgs = Pages /\ spp.pgs_per_line = u * h * p
    BY DriveParams
  <2>10. b * (u * h * p) = ((h * u) * b) * p
    BY <2>1 DEF Sizes
  <2>11. ASSUME n.pls_per_lun = 1 PROVE visited = 0 .. Pages - 1
    <3>1. Pages = ((h * u) * b) * p /\ Pages \in Nat
      BY <2>1, <2>11 DEF Pages, Sizes
    <3>2. IsFiniteSet(0 .. Pages - 1) /\ Cardinality(0 .. Pages - 1) = Pages
      <4>1. 0 \in Int /\ Pages - 1 \in Int
        BY <3>1
      <4>2. /\ IsFiniteSet(0 .. Pages - 1)
            /\ Cardinality(0 .. Pages - 1) = IF 0 > Pages - 1 THEN 0 ELSE (Pages - 1) - 0 + 1
        BY <4>1, FS_Interval
      <4> QED
        BY <3>1, <4>2
    <3> HIDE DEF visited
    <3> QED
      BY <2>5, <2>8, <3>1, <3>2, FS_Subset
  <2> QED
    BY <2>1, <2>5, <2>8, <2>9, <2>10, <2>11 DEF LinesTileTheDrive
<1> QED
  BY <1>1, Inductive, PTL
=============================================================================
