----------------------------- MODULE SwitchMmu ------------------------------
(***************************************************************************)
(* Buffer accounting of a shared-memory switch, switch-mmu.cc: what the    *)
(* MMU charges when a packet is admitted, what it releases when the packet *)
(* leaves, and which classes it wants paused or resumed.  The operators    *)
(* map the MMU's counters to the counters after the call; PfcSwitch holds  *)
(* them in variables.                                                      *)
(*                                                                         *)
(* Only the dynamic thresholds are modelled: the attribute defaults to     *)
(* true and no configuration of the program reaches it.                    *)
(***************************************************************************)
EXTENDS Integers, FiniteSetsExt, Functions

CONSTANTS
    NPorts,                   \* m_activePortCnt
    Classes,                  \* data classes in use; class 0 is not admitted
    MTU,
    QCnt,                     \* qCnt, classes the buffer reserves for
    MaxBufferBytes,           \* m_maxBufferBytes
    HdrmLimit,                \* m_pg_hdrm_limit, entry 0 has no port
    AlphaNum, AlphaDen,       \* m_pg_shared_alpha_cell
    EgressNum, EgressDen,     \* m_pg_shared_alpha_cell_egress
    AlphaOff                  \* m_pg_shared_alpha_cell_off_diff

Ports == 1..NPorts            \* port 0 is not used
Pools == 0..1                 \* the service pools GetIngressSP, GetEgressSP name

PgMin == MTU                  \* m_pg_min_cell
PortMin == MTU                \* m_port_min_cell
QMin == 1 + MTU               \* m_q_min_cell

\* max(qCnt * m_pg_min_cell, m_port_min_cell) of every port.
Reserved == NPorts * (IF QCnt * PgMin > PortMin THEN QCnt * PgMin ELSE PortMin)

\* total_m_pg_hdrm_limit: the loop starts at port 0 and ends before NPorts.
TotalHdrmLimit == SumFunctionOnSet(HdrmLimit, 0..(NPorts - 1))

\* m_buffer_cell_limit_sp and m_op_buffer_shared_limit_cell.
BufferLimit == MaxBufferBytes - TotalHdrmLimit - Reserved
EgressLimit == MaxBufferBytes - Reserved

ASSUME MmuAssumption ==
    /\ NPorts \in Nat \ {0}
    /\ QCnt \in Nat \ {0}
    /\ Classes \subseteq 1..(QCnt - 1)
    /\ MTU \in Nat \ {0}
    /\ MaxBufferBytes \in Nat
    /\ HdrmLimit \in [0..NPorts -> Nat]
    /\ AlphaNum \in Nat \ {0} /\ AlphaDen \in Nat \ {0}
    /\ EgressNum \in Nat \ {0} /\ EgressDen \in Nat \ {0}
    /\ AlphaOff \in Nat
    /\ BufferLimit \in Nat    \* else the unsigned difference wraps

IngressSP(c) == IF c = 1 THEN 1 ELSE 0
EgressSP(c) == IF c = 0 THEN 0 ELSE 1

-----------------------------------------------------------------------------
(* The counters, as InitSwitch leaves them.                                *)

NoIngress ==
    [total |-> 0,                                      \* m_usedTotalBytes
     sp    |-> [s \in Pools |-> 0],                    \* m_usedIngressSPBytes
     port  |-> [p \in Ports |-> 0],                    \* m_usedIngressPortBytes
     pg    |-> [p \in Ports |-> [c \in Classes |-> 0]],
     hdrm  |-> [p \in Ports |-> [c \in Classes |-> 0]]]

NoEgress ==
    [qmin   |-> [p \in Ports |-> [c \in Classes |-> 0]],
     shared |-> [p \in Ports |-> [c \in Classes |-> 0]],
     port   |-> [p \in Ports |-> 0],                   \* m_usedEgressPortBytes
     sp     |-> [s \in Pools |-> 0]]                   \* m_usedEgressSPBytes

-----------------------------------------------------------------------------
(* Admission.                                                              *)

BufferFull(ig, size) == ig.total + size > MaxBufferBytes

InGuarantee(ig, p, c, size) ==
    \/ ig.pg[p][c] + size <= PgMin
    \/ ig.port[p] + size <= PortMin

IngressAdmits(ig, p, c, size) ==
    /\ ~BufferFull(ig, size)
    /\ \/ InGuarantee(ig, p, c, size)
       \/ ig.sp[IngressSP(c)] <= BufferLimit
       \/ ig.hdrm[p][c] + size <= HdrmLimit[p]

EgressAdmits(eg, p, c, size) ==
    /\ eg.sp[EgressSP(c)] + size <= EgressLimit
    /\ eg.port[p] + size <= MaxBufferBytes
    /\ eg.shared[p][c] + size <= MaxBufferBytes
    /\ EgressDen * (eg.shared[p][c] + size)
         <= EgressNum * (EgressLimit - eg.sp[EgressSP(c)])

-----------------------------------------------------------------------------
(* Charging an admitted packet and releasing one that leaves.              *)

\* Mutant: the headroom test precedes the charge, as in the admission check.
ChargeIngressTestFirst(ig, p, c, size) ==
    [total |-> ig.total + size,
     sp    |-> [ig.sp EXCEPT ![IngressSP(c)] = @ + size],
     port  |-> [ig.port EXCEPT ![p] = @ + size],
     pg    |-> [ig.pg EXCEPT ![p][c] = @ + size],
     hdrm  |-> IF ig.sp[IngressSP(c)] > BufferLimit
               THEN [ig.hdrm EXCEPT ![p][c] = @ + size] ELSE ig.hdrm]

ChargeIngress(ig, p, c, size) ==
    [total |-> ig.total + size,
     sp    |-> [ig.sp EXCEPT ![IngressSP(c)] = @ + size],
     port  |-> [ig.port EXCEPT ![p] = @ + size],
     pg    |-> [ig.pg EXCEPT ![p][c] = @ + size],
     hdrm  |-> IF ig.sp[IngressSP(c)] + size > BufferLimit
               THEN [ig.hdrm EXCEPT ![p][c] = @ + size] ELSE ig.hdrm]

\* A counter below size is reported as an illegal remove and set to 0; the
\* headroom may be, since not every byte was charged to it.
Minus(n, size) == IF n < size THEN 0 ELSE n - size

ReleaseIngress(ig, p, c, size) ==
    [total |-> Minus(ig.total, size),
     sp    |-> [ig.sp EXCEPT ![IngressSP(c)] = Minus(@, size)],
     port  |-> [ig.port EXCEPT ![p] = Minus(@, size)],
     pg    |-> [ig.pg EXCEPT ![p][c] = Minus(@, size)],
     hdrm  |-> [ig.hdrm EXCEPT ![p][c] = Minus(@, size)]]

\* What a packet adds to the shared bytes when its queue holds qmin bytes of
\* its guarantee: nothing while the guarantee lasts, else what exceeds it.
SharedPart(qmin, size) ==
    IF qmin + size < QMin THEN 0 ELSE size + qmin - QMin

ChargeEgress(eg, p, c, size) ==
    LET part == SharedPart(eg.qmin[p][c], size)
    IN  [qmin   |-> [eg.qmin EXCEPT ![p][c] = @ + size - part],
         shared |-> [eg.shared EXCEPT ![p][c] = @ + part],
         port   |-> [eg.port EXCEPT ![p] = @ + size],
         sp     |-> [eg.sp EXCEPT ![EgressSP(c)] = @ + part]]

\* Mutant: the shared bytes are taken to cover the packet.
ReleasedShareAll(eg, p, c, size) == IF eg.qmin[p][c] < QMin THEN 0 ELSE size

\* Shared bytes go first; the guarantee gives what they do not cover.
ReleasedShare(eg, p, c, size) ==
    IF eg.qmin[p][c] < QMin THEN 0
    ELSE IF eg.shared[p][c] < size THEN eg.shared[p][c] ELSE size

\* Mutant: the pool gets back the whole packet.
ReleaseEgressPool(eg, p, c, size) ==
    LET part == ReleasedShare(eg, p, c, size)
    IN  [qmin   |-> [eg.qmin EXCEPT ![p][c] = @ - (size - part)],
         shared |-> [eg.shared EXCEPT ![p][c] = @ - part],
         port   |-> [eg.port EXCEPT ![p] = @ - size],
         sp     |-> [eg.sp EXCEPT ![EgressSP(c)] = @ - size]]

ReleaseEgress(eg, p, c, size) ==
    LET part == ReleasedShare(eg, p, c, size)
    IN  [qmin   |-> [eg.qmin EXCEPT ![p][c] = @ - (size - part)],
         shared |-> [eg.shared EXCEPT ![p][c] = @ - part],
         port   |-> [eg.port EXCEPT ![p] = @ - size],
         sp     |-> [eg.sp EXCEPT ![EgressSP(c)] = @ - part]]

-----------------------------------------------------------------------------
(* Priority flow control.                                                  *)

AboveMin(ig, p, c) == ig.pg[p][c] - PgMin - PortMin

\* The pool and the headroom are those of the packet's class q, whichever
\* class c the loop looks at.
PauseClasses(ig, p, q) ==
    {c \in Classes :
       /\ AboveMin(ig, p, c) > 0
       /\ \/ AlphaDen * AboveMin(ig, p, c)
               > AlphaNum * (BufferLimit - ig.sp[IngressSP(q)])
          \/ ig.hdrm[p][q] # 0}

BelowResume(ig, p, c) ==
    /\ AlphaDen * AboveMin(ig, p, c)
         < AlphaNum * (BufferLimit - ig.sp[IngressSP(c)] - AlphaOff)
    /\ ig.hdrm[p][c] = 0

=============================================================================
