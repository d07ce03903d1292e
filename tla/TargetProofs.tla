---------------------------- MODULE TargetProofs ----------------------------
(***************************************************************************)
(* Proofs about TargetClient for any environments, hosts, name server      *)
(* answers and statuses: what Load accepts, where a request may go, and    *)
(* how its outcome is classified.                                          *)
(***************************************************************************)
EXTENDS TargetClient, NumberLemmas, TLAPS

\* While the context lives, the error and its code say what went wrong.
Coded ==
  /\ fault \in {"none", "payload", "policy", "body", "network"}
  /\ fault \in {"payload", "policy", "body"} => err /\ code = "rejected"
  /\ fault = "network" => err /\ code \in {"timeout", "unavailable"}
  /\ fault = "none" =>
       /\ status \in Statuses
       /\ \/ ~err /\ code = "" /\ status \in 200..299
          \/ /\ err /\ status \notin 200..299
             /\ code = IF RetryableStatus THEN "unavailable" ELSE "permanent"

\* What each step of the attempt finds.
AttemptInv ==
  /\ pc \in {"load", "refused", "construct", "payload", "resolve", "send", "read", "normalize", "persist", "done"}
  /\ ctx \in {"live", "cancelled", "deadline"}
  /\ err \in BOOLEAN /\ status \in Statuses \cup {0}
  /\ pc \in {"load", "construct", "payload", "resolve", "send", "read"} => code = "" /\ ~err /\ fault = "none"
  /\ pc = "read" => status \in Statuses
  /\ pc = "normalize" /\ ctx = "live" => Coded
  /\ pc = "persist" =>
       /\ seen \in {"live", "cancelled", "deadline"}
       /\ seen = "live" => Coded
       /\ seen = "cancelled" => err /\ code = "cancelled"
       /\ seen = "deadline" => err /\ code = "timeout"
  /\ ClassifiedAsDocumented

\* Every entry of an allowlist contains internal addresses only.
EntriesAreInternal(allowlist) ==
  \A x \in allowlist.entries, a \in Addresses :
    Contains(x[2], Unmap(a)) => InBlock(InternalTargetPrefixes, Unmap(a))

\* What is left of the environment, and where the request may go.
PolicyInv ==
  /\ pc \in {"load", "construct"} => env \in Environments /\ pinned = NoAddress
  /\ pc = "construct" => LoadAccepts(env) /\ policy = ParseInternalTargetAllowlist(env.allow)
  /\ policy = NoPolicy \/ EntriesAreInternal(policy)
  /\ pinned # NoAddress => (InBlock(InternalTargetPrefixes, pinned) <=> policy.on)

-----------------------------------------------------------------------------
(* Classification.                                                         *)

\* The verdict on what the attempt found is the one of the table.
LEMMA VerdictFits ==
  ASSUME AttemptInv, PersistResult
  PROVE  ClassifiedAsDocumented'
<1>1. /\ pc = "persist" /\ UNCHANGED <<seen, status, code, err, fault>>
      /\ verdict' = IF Succeeded THEN "succeeded" ELSE IF RetryableDispatch THEN "retry" ELSE "failed"
  BY DEF PersistResult
<1>2. status \in 0..999 /\ err \in BOOLEAN /\ seen \in {"live", "cancelled", "deadline"}
  BY <1>1, TargetAssumption DEF AttemptInv
<1>3. CASE seen = "cancelled"
  <2>1. err /\ code = "cancelled"
    BY <1>1, <1>3 DEF AttemptInv
  <2>2. verdict' = "failed"
    BY <1>1, <2>1 DEF Succeeded, RetryableDispatch
  <2> QED
    BY <1>1, <1>3, <2>2 DEF ClassifiedAsDocumented
<1>4. CASE seen = "deadline"
  <2>1. err /\ code = "timeout"
    BY <1>1, <1>4 DEF AttemptInv
  <2>2. verdict' = "retry"
    BY <1>1, <2>1 DEF Succeeded, RetryableDispatch
  <2> QED
    BY <1>1, <1>4, <2>2 DEF ClassifiedAsDocumented
<1>5. CASE seen = "live"
  <2>1. Coded
    BY <1>1, <1>5 DEF AttemptInv
  <2>2. CASE fault \in {"payload", "policy", "body"}
    <3>1. verdict' = "failed"
      BY <1>1, <2>1, <2>2 DEF Coded, Succeeded, RetryableDispatch
    <3> QED
      BY <1>1, <1>5, <2>2, <3>1 DEF ClassifiedAsDocumented
  <2>3. CASE fault = "network"
    <3>1. verdict' = "retry"
      BY <1>1, <2>1, <2>3 DEF Coded, Succeeded, RetryableDispatch
    <3> QED
      BY <1>1, <1>5, <2>3, <3>1 DEF ClassifiedAsDocumented
  <2>4. CASE fault = "none"
    <3>1. verdict' = IF status \in 200..299 THEN "succeeded"
                     ELSE IF status \in {408, 425, 429} \cup 500..999 THEN "retry" ELSE "failed"
      <4>1. RetryableStatus <=> status \in {408, 425, 429} \cup 500..999
        BY <1>2 DEF RetryableStatus
      <4>2. CASE status \in 200..299
        BY <1>1, <2>1, <2>4, <4>2 DEF Coded, Succeeded
      <4>3. CASE status \notin 200..299
        <5>1. err /\ code = IF RetryableStatus THEN "unavailable" ELSE "permanent"
          BY <2>1, <2>4, <4>3 DEF Coded
        <5>2. ~Succeeded /\ (RetryableDispatch <=> RetryableStatus)
          BY <5>1 DEF Succeeded, RetryableDispatch
        <5> QED
          BY <1>1, <4>1, <4>3, <5>2
      <4> QED
        BY <4>2, <4>3
    <3> QED
      BY <1>1, <1>5, <2>4, <3>1 DEF ClassifiedAsDocumented
  <2> QED
    BY <2>1, <2>2, <2>3, <2>4 DEF Coded
<1> QED
  BY <1>2, <1>3, <1>4, <1>5

\* An error that Dispatch returns before it has a response, under the code of its kind.
LEMMA FailureCoded ==
  ASSUME AttemptInv, NEW what \in {"payload", "policy", "body", "network"}, NEW c,
         ReturnError(c, what), UNCHANGED <<ctx, status>>,
         ctx = "live" => c \in (IF what = "network" THEN {"timeout", "unavailable"} ELSE {"rejected"})
  PROVE  AttemptInv'
<1>1. pc' = "normalize" /\ code' = c /\ err' = TRUE /\ fault' = what
  BY DEF ReturnError
<1>2. ctx = "live" => Coded'
  BY <1>1 DEF Coded
<1> QED
  BY <1>1, <1>2 DEF AttemptInv, ClassifiedAsDocumented

\* Every step finds what it expects.
LEMMA AttemptStep == AttemptInv /\ [Next]_vars => AttemptInv'
<1> SUFFICES ASSUME AttemptInv, [Next]_vars PROVE AttemptInv'
  OBVIOUS
<1>1. CASE Load
  BY <1>1 DEF Load, attempt, AttemptInv, ClassifiedAsDocumented
<1>2. CASE Begin
  BY <1>2 DEF Begin, attempt, AttemptInv, ClassifiedAsDocumented
<1>3. CASE ContextEnds
  <2>1. /\ UNCHANGED <<pc, seen, status, code, err, fault>> /\ pc # "done"
        /\ ctx' \in {"cancelled", "deadline"}
    BY <1>3 DEF ContextEnds
  <2>2. Coded' <=> Coded
    BY <2>1 DEF Coded, RetryableStatus
  <2>3. ClassifiedAsDocumented'
    BY <2>1 DEF ClassifiedAsDocumented
  <2> QED
    BY <2>1, <2>2, <2>3 DEF AttemptInv
<1>4. CASE CheckPayload
  <2>1. CASE pc' = "resolve" /\ UNCHANGED <<code, err, fault>>
    BY <1>4, <2>1 DEF CheckPayload, AttemptInv, ClassifiedAsDocumented
  <2>2. CASE ReturnError("rejected", "payload")
    BY <1>4, <2>2, FailureCoded DEF CheckPayload
  <2> QED
    BY <1>4, <2>1, <2>2 DEF CheckPayload
<1>5. CASE ResolveTarget
  <2>1. CASE pc' = "send" /\ UNCHANGED <<code, err, fault>>
    BY <1>5, <2>1 DEF ResolveTarget, AttemptInv, ClassifiedAsDocumented
  <2>2. ASSUME NEW what \in {"network", "policy"}, NEW c \in ClassifyTransportError(what), ReturnError(c, what)
        PROVE  AttemptInv'
    <3>1. ctx = "live" => c \in (IF what = "network" THEN {"timeout", "unavailable"} ELSE {"rejected"})
      BY <2>2 DEF ClassifyTransportError
    <3> QED
      BY <1>5, <2>2, <3>1, FailureCoded DEF ResolveTarget
  <2> QED
    BY <1>5, <2>1, <2>2 DEF ResolveTarget
<1>6. CASE DoResolved
  <2>1. CASE pc' = "read" /\ status' \in Statuses /\ UNCHANGED <<code, err, fault>>
    BY <1>6, <2>1 DEF DoResolved, AttemptInv, ClassifiedAsDocumented
  <2>2. CASE ReturnError("rejected", "payload") /\ UNCHANGED status
    BY <1>6, <2>2, FailureCoded DEF DoResolved
  <2>3. ASSUME NEW c \in ClassifyTransportError("network"), ReturnError(c, "network"), UNCHANGED status
        PROVE  AttemptInv'
    <3>1. ctx = "live" => c \in {"timeout", "unavailable"}
      BY <2>3 DEF ClassifyTransportError
    <3> QED
      BY <1>6, <2>3, <3>1, FailureCoded DEF DoResolved
  <2> QED
    BY <1>6, <2>1, <2>2, <2>3 DEF DoResolved
<1>7. CASE ReadBody
  <2>1. UNCHANGED <<ctx, seen, status, verdict>> /\ status \in Statuses /\ code = "" /\ ~err /\ fault = "none"
    BY <1>7 DEF ReadBody, AttemptInv
  <2>2. CASE ReturnError("rejected", "body")
    BY <2>1, <2>2, FailureCoded
  <2>3. CASE ReturnError("unavailable", "network")
    BY <2>1, <2>3, FailureCoded
  <2>4. CASE Succeeded /\ pc' = "normalize" /\ UNCHANGED <<code, err, fault>>
    BY <2>1, <2>4 DEF AttemptInv, Coded, Succeeded, ClassifiedAsDocumented
  <2>5. CASE ~Succeeded /\ ReturnError(IF RetryableStatus THEN "unavailable" ELSE "permanent", "none")
    <3>1. status \notin 200..299
      BY <2>1, <2>5 DEF Succeeded
    <3>2. RetryableStatus' <=> RetryableStatus
      <4>1. status' = status
        BY <2>1, Zenon
      <4> QED
        BY <4>1 DEF RetryableStatus
    <3>3. pc' = "normalize" /\ err' = TRUE /\ fault' = "none"
          /\ code' = IF RetryableStatus THEN "unavailable" ELSE "permanent"
      BY <2>5 DEF ReturnError
    <3>4. /\ status' \in Statuses /\ status' \notin 200..299
          /\ code' = IF RetryableStatus' THEN "unavailable" ELSE "permanent"
      BY <2>1, <3>1, <3>2, <3>3
    <3>5. Coded'
      BY <3>3, <3>4 DEF Coded
    <3>6. ClassifiedAsDocumented'
      BY <3>3 DEF ClassifiedAsDocumented
    <3> QED
      BY <2>1, <3>3, <3>5, <3>6 DEF AttemptInv
  <2> QED
    BY <1>7, <2>2, <2>3, <2>4, <2>5 DEF ReadBody
<1>8. CASE NormalizeAttemptResult
  <2>1. pc = "normalize" /\ pc' = "persist" /\ seen' = ctx /\ UNCHANGED <<ctx, status, fault>>
    BY <1>8 DEF NormalizeAttemptResult
  <2>2. CASE ctx = "live"
    <3>1. UNCHANGED <<code, err>>
      BY <1>8, <2>2 DEF NormalizeAttemptResult
    <3>2. Coded'
      <4>1. Coded
        BY <2>1, <2>2 DEF AttemptInv
      <4>2. Coded' <=> Coded
        BY <2>1, <3>1 DEF Coded, RetryableStatus
      <4> QED
        BY <4>1, <4>2
    <3> QED
      BY <2>1, <2>2, <3>1, <3>2 DEF AttemptInv, ClassifiedAsDocumented
  <2>3. CASE ctx # "live"
    <3>1. err' = TRUE /\ code' = IF ctx = "cancelled" THEN "cancelled" ELSE "timeout"
      BY <1>8, <2>3 DEF NormalizeAttemptResult
    <3> QED
      BY <2>1, <2>3, <3>1 DEF AttemptInv, ClassifiedAsDocumented
  <2> QED
    BY <2>2, <2>3
<1>9. CASE PersistResult
  <2>1. ClassifiedAsDocumented'
    BY <1>9, VerdictFits
  <2> QED
    BY <1>9, <2>1 DEF PersistResult, AttemptInv
<1>10. CASE UNCHANGED vars
  <2>1. UNCHANGED <<pc, ctx, seen, status, code, err, fault, verdict>>
    BY <1>10 DEF vars
  <2>2. (Coded' <=> Coded) /\ (ClassifiedAsDocumented' <=> ClassifiedAsDocumented)
    BY <2>1 DEF Coded, RetryableStatus, ClassifiedAsDocumented
  <2> QED
    BY <2>1, <2>2 DEF AttemptInv
<1> QED
  BY <1>1, <1>2, <1>3, <1>4, <1>5, <1>6, <1>7, <1>8, <1>9, <1>10 DEF Next

\* Whatever happens to the request and whenever its context ends, the dispatcher's
\* verdict is the one the retry policy documents for what happened first.
THEOREM VerdictsAsDocumented == Spec => []ClassifiedAsDocumented
<1>1. Init => AttemptInv
  BY DEF Init, AttemptInv, ClassifiedAsDocumented
<1>2. AttemptInv => ClassifiedAsDocumented
  BY DEF AttemptInv
<1>3. QED
  BY <1>1, <1>2, AttemptStep, PTL DEF Spec

-----------------------------------------------------------------------------
(* Addresses and prefixes.                                                 *)

\* The sizes of the blocks.
LEMMA BlockSizes ==
  ASSUME NEW p, p.bits \in Nat
  PROVE  /\ p.fam = 4 => /\ p.bits = 0 => BlockSize(p) = 16
                         /\ p.bits = 1 => BlockSize(p) = 8
                         /\ p.bits = 2 => BlockSize(p) = 4
                         /\ p.bits = 3 => BlockSize(p) = 2
                         /\ p.bits = 4 => BlockSize(p) = 1
         /\ p.fam = 6 => /\ p.bits = 0 => BlockSize(p) = 64
                         /\ p.bits = 1 => BlockSize(p) = 32
                         /\ p.bits = 2 => BlockSize(p) = 16
                         /\ p.bits = 3 => BlockSize(p) = 8
                         /\ p.bits = 4 => BlockSize(p) = 4
                         /\ p.bits = 5 => BlockSize(p) = 2
                         /\ p.bits = 6 => BlockSize(p) = 1
<1>1. 2^0 = 1 /\ 2^1 = 2 /\ 2^2 = 4 /\ 2^3 = 8 /\ 2^4 = 16 /\ 2^5 = 32 /\ 2^6 = 64
  OBVIOUS
<1>2. ASSUME p.fam = 4
      PROVE  /\ p.bits = 0 => BlockSize(p) = 16
             /\ p.bits = 1 => BlockSize(p) = 8
             /\ p.bits = 2 => BlockSize(p) = 4
             /\ p.bits = 3 => BlockSize(p) = 2
             /\ p.bits = 4 => BlockSize(p) = 1
  <2>1. /\ p.bits = 0 => 4 - p.bits = 4
        /\ p.bits = 1 => 4 - p.bits = 3
        /\ p.bits = 2 => 4 - p.bits = 2
        /\ p.bits = 3 => 4 - p.bits = 1
        /\ p.bits = 4 => 4 - p.bits = 0
    OBVIOUS
  <2>2. BlockSize(p) = 2^(4 - p.bits)
    BY <1>2 DEF BlockSize, Width
  <2> QED
    BY <1>1, <2>1, <2>2, Zenon
<1>3. ASSUME p.fam = 6
      PROVE  /\ p.bits = 0 => BlockSize(p) = 64
             /\ p.bits = 1 => BlockSize(p) = 32
             /\ p.bits = 2 => BlockSize(p) = 16
             /\ p.bits = 3 => BlockSize(p) = 8
             /\ p.bits = 4 => BlockSize(p) = 4
             /\ p.bits = 5 => BlockSize(p) = 2
             /\ p.bits = 6 => BlockSize(p) = 1
  <2>1. /\ p.bits = 0 => 6 - p.bits = 6
        /\ p.bits = 1 => 6 - p.bits = 5
        /\ p.bits = 2 => 6 - p.bits = 4
        /\ p.bits = 3 => 6 - p.bits = 3
        /\ p.bits = 4 => 6 - p.bits = 2
        /\ p.bits = 5 => 6 - p.bits = 1
        /\ p.bits = 6 => 6 - p.bits = 0
    OBVIOUS
  <2>2. BlockSize(p) = 2^(6 - p.bits)
    BY <1>3 DEF BlockSize, Width
  <2> QED
    BY <1>1, <2>1, <2>2, Zenon
<1> QED
  BY <1>2, <1>3

\* The internal blocks are 8..11 and 7 of IPv4, 48..63 and 1 of IPv6.
InternalBlock(q, u) ==
  \/ q.bits = 2 /\ u.fam = 4 /\ u.n \in 8..11
  \/ q.bits = 4 /\ u.fam = 4 /\ u.n = 7
  \/ q.bits = 2 /\ u.fam = 6 /\ u.n \in 48..63
  \/ q.bits = 6 /\ u.fam = 6 /\ u.n = 1

\* The addresses in them.
LEMMA InternalBlocks ==
  ASSUME NEW u, u.n \in Nat, u.zone = "none"
  PROVE  /\ \A q \in InternalTargetPrefixes : Contains(q, u) => InternalBlock(q, u)
         /\ u.fam = 4 /\ u.n \in 7..11 => InBlock(InternalTargetPrefixes, u)
         /\ u.fam = 6 /\ u.n \in {1} \cup 48..63 => InBlock(InternalTargetPrefixes, u)
         /\ InBlock(InternalTargetPrefixes, u) => IsPrivate(u) \/ IsLoopback(u)
<1>1. \A f, k, b : Prefix(f, k, b).fam = f /\ Prefix(f, k, b).n = k /\ Prefix(f, k, b).bits = b
  BY DEF Prefix
<1>2. Contains(Prefix(4, 8, 2), u) <=> u.fam = 4 /\ u.n \in 8..11
  BY <1>1, BlockSizes DEF Contains
<1>3. Contains(Prefix(4, 7, 4), u) <=> u.fam = 4 /\ u.n = 7
  BY <1>1, BlockSizes DEF Contains
<1>4. Contains(Prefix(6, 48, 2), u) <=> u.fam = 6 /\ u.n \in 48..63
  BY <1>1, BlockSizes DEF Contains
<1>5. Contains(Prefix(6, 1, 6), u) <=> u.fam = 6 /\ u.n = 1
  BY <1>1, BlockSizes DEF Contains
<1>6. \A q : q \in InternalTargetPrefixes <=>
              q = Prefix(4, 8, 2) \/ q = Prefix(4, 7, 4) \/ q = Prefix(6, 48, 2) \/ q = Prefix(6, 1, 6)
  BY Zenon DEF InternalTargetPrefixes
<1>7. \A q \in InternalTargetPrefixes : Contains(q, u) => InternalBlock(q, u)
  BY <1>1, <1>2, <1>3, <1>4, <1>5, <1>6 DEF InternalBlock
<1>8. InBlock(InternalTargetPrefixes, u) <=>
        \/ Contains(Prefix(4, 8, 2), u) \/ Contains(Prefix(4, 7, 4), u)
        \/ Contains(Prefix(6, 48, 2), u) \/ Contains(Prefix(6, 1, 6), u)
  BY <1>6, Zenon DEF InBlock
<1>9. InBlock(InternalTargetPrefixes, u) => IsPrivate(u) \/ IsLoopback(u)
  BY <1>2, <1>3, <1>4, <1>5, <1>8 DEF IsPrivate, IsLoopback
<1> QED
  BY <1>2, <1>3, <1>4, <1>5, <1>7, <1>8, <1>9

\* An unmapped address is not in the mapped range, and stays what it is.
LEMMA Unmapped ==
  ASSUME NEW a \in Addresses
  PROVE  /\ Unmap(a) \in Addresses /\ Unmap(a).n \in Nat /\ Unmap(a).zone \in {"none", "eth0"}
         /\ Unmap(a).fam = 6 => Unmap(a).n \notin 16..31
         /\ Unmap(a).fam = 4 => Unmap(a).n \in 0..15
         /\ Unmap(Unmap(a)) = Unmap(a)
<1>1. \A f, k : Addr(f, k).fam = f /\ Addr(f, k).n = k /\ Addr(f, k).zone = "none"
  BY DEF Addr
<1>2. \A k : Zoned(k).fam = 6 /\ Zoned(k).n = k /\ Zoned(k).zone = "eth0"
  BY DEF Zoned
<1>3. a.n \in Nat /\ a.zone \in {"none", "eth0"} /\ (a.fam = 4 => a.n \in 0..15)
  <2>1. CASE a = NoAddress
    BY <1>1, <2>1 DEF NoAddress
  <2>2. CASE \E k \in 0..15 : a = Addr(4, k)
    BY <1>1, <2>2
  <2>3. CASE \E k \in 0..63 : a = Addr(6, k)
    BY <1>1, <2>3
  <2>4. CASE \E k \in 0..63 : a = Zoned(k)
    BY <1>2, <2>4
  <2> QED
    BY <2>1, <2>2, <2>3, <2>4, Zenon DEF Addresses
<1>4. CASE a.fam = 6 /\ a.n \in 16..31
  <2>1. Unmap(a) = Addr(4, a.n - 16) /\ a.n - 16 \in 0..15
    BY <1>4 DEF Unmap, MappedBase
  <2>2. Unmap(Unmap(a)) = Unmap(a)
    BY <1>1, <2>1 DEF Unmap
  <2>3. Unmap(a) \in Addresses
    BY <2>1, Zenon DEF Addresses
  <2> QED
    BY <1>1, <2>1, <2>2, <2>3
<1>5. CASE ~(a.fam = 6 /\ a.n \in 16..31)
  <2>1. Unmap(a) = a
    BY <1>5 DEF Unmap, MappedBase
  <2> QED
    BY <1>3, <1>5, <2>1
<1> QED
  BY <1>4, <1>5

\* A prefix that isInternalTargetPrefix lets through contains internal addresses only,
\* although it compares lengths of different families: a prefix in the mapped range
\* contains no unmapped address at all.
LEMMA InternalPrefix ==
  ASSUME NEW p \in Prefixes, IsInternalTargetPrefix(p), NEW a \in Addresses, Contains(p, Unmap(a))
  PROVE  InBlock(InternalTargetPrefixes, Unmap(a))
<1> DEFINE u == Unmap(a)
           v == Unmap(Addr(p.fam, p.n))
<1>1. /\ p.fam = 4 => p.n \in 0..15 /\ p.bits \in 0..4
      /\ p.fam = 6 => p.n \in 0..63 /\ p.bits \in 0..6
      /\ p.fam \in {4, 6} /\ p.bits \in Nat /\ p.n \in Nat
  BY DEF Prefixes, Prefix
<1>2. /\ u.n \in Nat
      /\ u.fam = 6 => u.n \notin 16..31
      /\ u.fam = 4 => u.n \in 0..15
  BY Unmapped
<1>3. u.fam = p.fam /\ u.n \div BlockSize(p) = p.n \div BlockSize(p) /\ u.zone = "none"
  BY Unmapped DEF Contains
<1>4. /\ p.fam = 6 /\ p.n \in 16..31 => v.fam = 4 /\ v.n = p.n - 16
      /\ ~(p.fam = 6 /\ p.n \in 16..31) => v.fam = p.fam /\ v.n = p.n
  BY DEF Unmap, Addr, MappedBase
<1>5. PICK q \in InternalTargetPrefixes : p.bits >= q.bits /\ Contains(q, v)
  BY DEF IsInternalTargetPrefix
<1>6. v.n \in Nat /\ v.zone = "none"
  BY <1>1, <1>4 DEF Unmap, Addr
<1>7. InternalBlock(q, v)
  BY <1>5, <1>6, InternalBlocks
<1> HIDE DEF u, v
<1>8. CASE p.fam = 4
  <2>1. v.fam = 4 /\ v.n = p.n /\ u.fam = 4
    BY <1>3, <1>4, <1>8
  <2>2. CASE q.bits = 2 /\ v.n \in 8..11
    <3>1. BlockSize(p) \in {4, 2, 1}
      BY <1>1, <1>5, <1>8, <2>2, BlockSizes
    <3>2. u.n \in 8..11
      BY <1>2, <1>3, <2>1, <2>2, <3>1
    <3> QED
      BY <1>2, <1>3, <2>1, <3>2, InternalBlocks DEF u
  <2>3. CASE q.bits = 4 /\ v.n = 7
    <3>1. BlockSize(p) = 1
      BY <1>1, <1>5, <1>8, <2>3, BlockSizes
    <3>2. u.n = 7
      BY <1>2, <1>3, <2>1, <2>3, <3>1
    <3> QED
      BY <1>2, <1>3, <2>1, <3>2, InternalBlocks DEF u
  <2> QED
    BY <1>7, <2>1, <2>2, <2>3 DEF InternalBlock
<1>9. CASE p.fam = 6 /\ p.n \in 16..31
  <2>1. v.fam = 4 /\ q.bits \in {2, 4}
    BY <1>4, <1>7, <1>9 DEF InternalBlock
  <2>2. BlockSize(p) \in {16, 8, 4, 2, 1}
    BY <1>1, <1>5, <1>9, <2>1, BlockSizes
  <2>3. u.n \in 16..31
    BY <1>2, <1>3, <1>9, <2>2
  <2> QED
    BY <1>2, <1>3, <1>9, <2>3
<1>10. CASE p.fam = 6 /\ p.n \notin 16..31
  <2>1. v.fam = 6 /\ v.n = p.n /\ u.fam = 6
    BY <1>3, <1>4, <1>10
  <2>2. CASE q.bits = 2 /\ v.n \in 48..63
    <3>1. BlockSize(p) \in {16, 8, 4, 2, 1}
      BY <1>1, <1>5, <1>10, <2>2, BlockSizes
    <3>2. u.n \in 48..63
      BY <1>2, <1>3, <2>1, <2>2, <3>1
    <3> QED
      BY <1>2, <1>3, <2>1, <3>2, InternalBlocks DEF u
  <2>3. CASE q.bits = 6 /\ v.n = 1
    <3>1. BlockSize(p) = 1
      BY <1>1, <1>5, <1>10, <2>3, BlockSizes
    <3>2. u.n = 1
      BY <1>2, <1>3, <2>1, <2>3, <3>1
    <3> QED
      BY <1>2, <1>3, <2>1, <3>2, InternalBlocks DEF u
  <2> QED
    BY <1>7, <2>1, <2>2, <2>3 DEF InternalBlock
<1> QED
  BY <1>1, <1>8, <1>9, <1>10

\* The entries of an accepted allowlist are internal.
LEMMA AcceptedIsInternal ==
  ASSUME NEW e \in Environments, AllowlistAccepted(e.allow)
  PROVE  EntriesAreInternal(ParseInternalTargetAllowlist(e.allow))
<1> SUFFICES ASSUME NEW x \in ParseInternalTargetAllowlist(e.allow).entries, NEW a \in Addresses,
                    Contains(x[2], Unmap(a))
             PROVE  InBlock(InternalTargetPrefixes, Unmap(a))
  BY DEF EntriesAreInternal
<1> DEFINE list == e.allow.list
<1>2. x \in UNION {{<<NormalizeAllowlistHostForLookup(list[i].host), list[i].cidrs[k]>> :
                       k \in DOMAIN list[i].cidrs} : i \in DOMAIN list}
  BY DEF ParseInternalTargetAllowlist
<1>3. PICK i \in DOMAIN list : x \in {<<NormalizeAllowlistHostForLookup(list[i].host), list[i].cidrs[k]>> :
                                      k \in DOMAIN list[i].cidrs}
  BY <1>2
<1>4. PICK k \in DOMAIN list[i].cidrs : x = <<NormalizeAllowlistHostForLookup(list[i].host), list[i].cidrs[k]>>
  BY <1>3
<1>5. x[2] = list[i].cidrs[k]
  BY <1>4
<1>6. list[i].cidrs \in Seq(Prefixes)
  BY <1>3, TargetAssumption
<1>7. list[i].cidrs[k] \in Prefixes
  BY <1>4, <1>6
<1>8. IsInternalTargetPrefix(list[i].cidrs[k])
  BY <1>3, <1>4 DEF AllowlistAccepted, EntryAccepted
<1> QED
  BY <1>5, <1>7, <1>8, InternalPrefix

\* No allowlist is no exception: it has no entry.
LEMMA NoPolicyIsInternal == EntriesAreInternal(NoPolicy) /\ ~NoPolicy.on
<1>1. Blank.kind = "blank" /\ DOMAIN Blank.list = {}
  BY DEF Blank
<1>2. NoPolicy.entries = {} /\ ~NoPolicy.on
  BY <1>1 DEF NoPolicy, ParseInternalTargetAllowlist
<1> QED
  BY <1>2 DEF EntriesAreInternal

\* What the default policy lets through is not internal: netip's private and loopback
\* addresses include the configuration's internal blocks.
LEMMA SafeIsNotInternal ==
  ASSUME NEW a \in Addresses, IsSafeTargetAddress(a)
  PROVE  ~InBlock(InternalTargetPrefixes, Unmap(a))
<1>1. ~IsPrivate(Unmap(a)) /\ ~IsLoopback(Unmap(a))
  BY DEF IsSafeTargetAddress
<1>2. Unmap(a).n \in Nat /\ Unmap(a).zone \in {"none", "eth0"}
  BY Unmapped
<1>3. CASE Unmap(a).zone = "none"
  BY <1>1, <1>2, <1>3, InternalBlocks
<1>4. CASE Unmap(a).zone = "eth0"
  BY <1>4 DEF InBlock, Contains
<1> QED
  BY <1>2, <1>3, <1>4

-----------------------------------------------------------------------------
(* The policy.                                                             *)

\* resolveTarget pins an internal address under an allowlist, another one without.
LEMMA PinnedIsPermitted ==
  ASSUME NEW answer \in Answers, Permitted(answer) # {}, policy = NoPolicy \/ EntriesAreInternal(policy)
  PROVE  InBlock(InternalTargetPrefixes, Pin(answer)) <=> policy.on
<1>1. answer \in Seq(Addresses)
  BY TargetAssumption
<1>2. DOMAIN answer \subseteq Nat
  BY <1>1
<1>3. Permitted(answer) \subseteq Nat
  BY <1>2 DEF Permitted
<1>4. Min(Permitted(answer)) \in Permitted(answer)
  BY <1>3, LeastChosen DEF Min
<1>5. PICK k \in DOMAIN answer : Pin(answer) = Unmap(answer[k]) /\ TargetAddressAllowed(policy, host, Unmap(answer[k]))
  BY <1>4, Zenon DEF Permitted, Pin
<1>6. answer[k] \in Addresses
  BY <1>1, <1>5
<1> DEFINE p == Pin(answer)
<1>7. p \in Addresses /\ Unmap(p) = p /\ TargetAddressAllowed(policy, host, p)
  BY <1>5, <1>6, Unmapped, Zenon
<1> HIDE DEF p
<1>8. CASE policy.on
  <2>1. PICK x \in policy.entries : Contains(x[2], Unmap(p))
    BY <1>7, <1>8, Zenon DEF TargetAddressAllowed, Allows
  <2>2. EntriesAreInternal(policy)
    BY NoPolicyIsInternal
  <2> QED
    BY <1>7, <1>8, <2>1, <2>2, Zenon DEF EntriesAreInternal, p
<1>9. CASE ~policy.on
  <2>1. IsSafeTargetAddress(p)
    BY <1>7, <1>9, Zenon DEF TargetAddressAllowed
  <2> QED
    BY <1>7, <1>9, <2>1, SafeIsNotInternal, Zenon DEF p
<1> QED
  BY <1>8, <1>9

\* Every step keeps what it knows of the environment and of the pinned address.
LEMMA PolicyStep == PolicyInv /\ [Next]_vars => PolicyInv'
<1> SUFFICES ASSUME PolicyInv, [Next]_vars PROVE PolicyInv'
  OBVIOUS
<1>1. CASE Load
  <2>1. pc = "load" /\ env \in Environments /\ pinned = NoAddress /\ UNCHANGED <<env, pinned>>
    BY <1>1 DEF Load, PolicyInv
  <2>2. CASE pc' = "refused" /\ UNCHANGED policy
    BY <2>1, <2>2 DEF PolicyInv
  <2>3. CASE LoadAccepts(env) /\ pc' = "construct" /\ policy' = ParseInternalTargetAllowlist(env.allow)
    <3>1. EntriesAreInternal(policy')
      BY <2>1, <2>3, AcceptedIsInternal DEF LoadAccepts
    <3> QED
      BY <2>1, <2>3, <3>1 DEF PolicyInv
  <2> QED
    BY <1>1, <2>2, <2>3 DEF Load
<1>2. CASE Begin
  BY <1>2 DEF Begin, PolicyInv
<1>3. CASE ResolveTarget
  <2>1. pc = "resolve" /\ pc' \in {"send", "normalize"} /\ UNCHANGED <<policy, host>>
    BY <1>3 DEF ResolveTarget, ReturnError, loaded
  <2>2. UNCHANGED pinned \/ \E answer \in Answers : Permitted(answer) # {} /\ pinned' = Pin(answer)
    BY <1>3 DEF ResolveTarget
  <2>3. UNCHANGED pinned \/ (InBlock(InternalTargetPrefixes, pinned') <=> policy.on)
    BY <2>2, PinnedIsPermitted DEF PolicyInv
  <2> QED
    BY <2>1, <2>3 DEF PolicyInv
<1>4. CASE ContextEnds \/ CheckPayload \/ DoResolved \/ ReadBody \/ NormalizeAttemptResult \/ PersistResult
  <2>1. UNCHANGED <<env, policy, host, pinned>> /\ pc' \notin {"load", "construct"}
    BY <1>4 DEF ContextEnds, CheckPayload, DoResolved, ReadBody, NormalizeAttemptResult, PersistResult,
       ReturnError, loaded
  <2> QED
    BY <2>1 DEF PolicyInv
<1>5. CASE UNCHANGED vars
  BY <1>5 DEF vars, PolicyInv
<1> QED
  BY <1>1, <1>2, <1>3, <1>4, <1>5 DEF Next

\* The invariant of the policy.
LEMMA PolicyInvHolds == Spec => []PolicyInv
<1>1. Init => PolicyInv
  BY DEF Init, PolicyInv
<1>2. QED
  BY <1>1, PolicyStep, PTL DEF Spec

\* Any allowlist that is accepted lets through internal addresses only, the default
\* policy none of them, and so a request goes to an internal address exactly when an
\* allowlist is configured.
THEOREM PolicyIsKept == Spec => []PolicyNeverCrosses
<1>1. PolicyInv => PolicyNeverCrosses
  <2> SUFFICES ASSUME PolicyInv PROVE PolicyNeverCrosses
    OBVIOUS
  <2>1. ASSUME pc = "construct", NEW a \in Addresses, NEW h \in Hosts, policy.on /\ Allows(policy, h, a)
        PROVE  InBlock(InternalTargetPrefixes, Unmap(a))
    <3>1. EntriesAreInternal(policy)
      BY NoPolicyIsInternal DEF PolicyInv
    <3> QED
      BY <2>1, <3>1, Zenon DEF Allows, EntriesAreInternal
  <2>2. ASSUME NEW a \in Addresses, IsSafeTargetAddress(a)
        PROVE  ~InBlock(InternalTargetPrefixes, Unmap(a))
    BY <2>2, SafeIsNotInternal
  <2> QED
    BY <2>1, <2>2 DEF PolicyInv, PolicyNeverCrosses
<1>2. QED
  BY <1>1, PolicyInvHolds, PTL

\* Whatever Load accepts, the claim that the planner and the dispatcher take outlives
\* the attempt made under it, with every default filled in.
THEOREM ClaimsOutlive == Spec => []ClaimOutlivesAttempt
<1>1. PolicyInv => ClaimOutlivesAttempt
  <2> SUFFICES ASSUME LoadAccepts(env)
               PROVE  LET built == Construct(env) IN
                      /\ built.dispatcherTTL > built.attempt /\ built.attempt > 0 /\ built.client = built.attempt
                      /\ built.plannerTTL = built.dispatcherTTL /\ built.plannerBatch = built.dispatcherBatch
                      /\ ConstructAccepts(env)
    BY DEF PolicyInv, ClaimOutlivesAttempt
  <2>1. /\ DurationAccepted(env.wakeup) /\ DurationAccepted(env.claim) /\ DurationAccepted(env.dispatch)
        /\ ClaimTTL(env) > DispatchTimeout(env)
    BY DEF LoadAccepts, ClaimOutlives
  <2>2. ClaimTTL(env) \in Nat \ {0} /\ DispatchTimeout(env) \in Nat \ {0} /\ WakeupInterval(env) \in Nat \ {0}
    <3>1. \A raw, fallback : DurationAccepted(raw) /\ fallback \in Nat \ {0} => DurationValue(raw, fallback) \in Nat \ {0}
      <4>1. MaximumConfiguredDuration \in Nat
        BY DEF MaximumConfiguredDuration
      <4> QED
        BY <4>1 DEF DurationAccepted, DurationValue
    <3> QED
      BY <2>1, <3>1 DEF ClaimTTL, DispatchTimeout, WakeupInterval
  <2>3. OrDefault(ClaimTTL(env), 120) = ClaimTTL(env) /\ OrDefault(DispatchTimeout(env), 30) = DispatchTimeout(env)
    BY <2>2 DEF OrDefault
  <2> QED
    BY <2>1, <2>2, <2>3 DEF Construct, ConstructAccepts
<1>2. QED
  BY <1>1, PolicyInvHolds, PTL
=============================================================================
