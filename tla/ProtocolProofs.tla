--------------------------- MODULE ProtocolProofs ---------------------------
(***************************************************************************)
(* Proofs about Protocol, for buffers and sockets of any size, any stream  *)
(* of the peer cut anywhere, any program and handlers nested to any depth: *)
(* that no wakeup is lost, which does not depend on what arrives; the type *)
(* invariant; that doIO never reads into a full _rbuf; that _rbuf holds    *)
(* the last bytes taken from the socket without a gap; and that the        *)
(* sending side keeps command buffers whole and in order.                  *)
(*                                                                         *)
(* The first part is about FlattenSeq, by which Protocol speaks of the     *)
(* bytes of a sequence of messages: facts for sequences of any length, to  *)
(* be cited in place of its definition.  FlattenSeq is defined by a        *)
(* recursive function, and the facts need induction.  The induction        *)
(* theorems of the library have an operator as a parameter, which the      *)
(* provers cannot instantiate; but a non-empty set of natural numbers has  *)
(* a least element (LeastOf, from WFMin, whose parameters are sets), and   *)
(* the least counterexample is as good.                                    *)
(*                                                                         *)
(* The last part is about the sending side.  Connected, wire and Unsent    *)
(* are together what was flushed.  The proof has to say what is left of    *)
(* that when stop() drops a command buffer in the middle of it, and        *)
(* handlers of the same connection are still on the stack and go on to     *)
(* write what waits in _wbuf.  It rests on Nesting: an activation of doIO  *)
(* called from Flush finds the command buffer of that Flush, and none of   *)
(* its bytes written; so it cannot flush another, there are at most two    *)
(* activations, and if the inner one stops the connection whole command    *)
(* buffers are on the wire (StoppedWhole).                                 *)
(***************************************************************************)
EXTENDS Protocol, SequenceTheorems, WellFoundedInduction, TLAPS

LEMMA LeastOf ==
  ASSUME NEW T, T \subseteq Nat, T # {}
  PROVE  \E m \in T : \A k \in T : m =< k
<1> DEFINE R == {p \in Nat \X Nat : p[1] < p[2]}
<1>1. IsWellFoundedOn(R, Nat)
  BY NatLessThanWellFounded DEF OpToRel
<1>2. \E m \in T : \A k \in T : <<k, m>> \notin R
  <2> HIDE DEF R
  <2>1. QED
    BY <1>1, WFMin
<1>3. PICK m \in T : \A k \in T : <<k, m>> \notin R
  BY <1>2
<1>4. ASSUME NEW k \in T PROVE m =< k
  <2>1. ~ (k < m)
    BY <1>3, <<k, m>> \in Nat \X Nat
  <2>2. QED
    BY <2>1
<1>5. QED
  BY <1>3, <1>4

(* If no natural number up to n is the first to fail, none fails: for a    *)
(* property given by the set of numbers that have it.                      *)
LEMMA UpTo ==
  ASSUME NEW Good, NEW n \in Nat, 0 \in Good,
         \A k \in 1..n : k - 1 \in Good => k \in Good
  PROVE  n \in Good
<1> DEFINE Bad == (0..n) \ Good
<1> SUFFICES ASSUME n \notin Good PROVE FALSE
  OBVIOUS
<1>1. Bad \subseteq Nat /\ n \in Bad
  OBVIOUS
<1>2. PICK m \in Bad : \A k \in Bad : m =< k
  BY <1>1, LeastOf
<1>3. m \in 1..n
  BY <1>2
<1>4. m - 1 \in 0..n /\ m - 1 \notin Bad
  BY <1>2, <1>3
<1>5. QED
  BY <1>2, <1>3, <1>4
-----------------------------------------------------------------------------
(* The recursion: what the first i elements of s make up, for i up to n.   *)
Chain(f, s, n) == f = [i \in 1..n |-> IF i = 1 THEN s[i] ELSE f[i - 1] \o s[i]]

LEMMA ChainOne ==
  ASSUME NEW f, NEW s, NEW n \in Nat, Chain(f, s, n), NEW i \in 1..n
  PROVE  f[i] = IF i = 1 THEN s[i] ELSE f[i - 1] \o s[i]
BY Zenon DEF Chain

LEMMA ChainExists ==
  ASSUME NEW s, NEW n \in Nat
  PROVE  \E f : Chain(f, s, n)
<1> DEFINE Good == {k \in Nat : \E f : Chain(f, s, k)}
<1>1. 0 \in Good
  <2>1. Chain([i \in 1..0 |-> << >>], s, 0)
    BY DEF Chain
  <2>2. QED
    BY <2>1
<1>2. ASSUME NEW m \in 1..n, m - 1 \in Good PROVE m \in Good
  <2>1. PICK f : Chain(f, s, m - 1)
    BY <1>2
  <2> DEFINE g == [i \in 1..m |-> IF i = m THEN IF i = 1 THEN s[i] ELSE f[i - 1] \o s[i]
                                  ELSE f[i]]
  <2>2. ASSUME NEW i \in 1..m
        PROVE  g[i] = IF i = 1 THEN s[i] ELSE g[i - 1] \o s[i]
    <3>1. i = m \/ i \in 1..(m - 1)
      OBVIOUS
    <3>2. i # 1 => g[i - 1] = f[i - 1]
      OBVIOUS
    <3>3. i \in 1..(m - 1) => f[i] = IF i = 1 THEN s[i] ELSE f[i - 1] \o s[i]
      <4>1. m - 1 \in Nat
        OBVIOUS
      <4>2. QED
        BY <2>1, <4>1, ChainOne
    <3>4. QED
      BY <3>1, <3>2, <3>3
  <2>3. Chain(g, s, m)
    BY <2>2 DEF Chain
  <2>4. QED
    BY <2>3
<1>3. n \in Good
  <2> HIDE DEF Good
  <2>1. QED
    BY <1>1, <1>2, UpTo
<1>4. QED
  BY <1>3

(* It says the same of any two sequences as far as they agree. *)
LEMMA ChainUnique ==
  ASSUME NEW s, NEW t, NEW m \in Nat, NEW n \in Nat, NEW f, NEW g,
         Chain(f, s, m), Chain(g, t, n),
         NEW k \in Nat, k > 0, k =< m, k =< n, \A i \in 1..k : s[i] = t[i]
  PROVE  f[k] = g[k]
<1> DEFINE Good == {j \in Nat : j \in 1..k => f[j] = g[j]}
<1>1. 0 \in Good
  OBVIOUS
<1>2. ASSUME NEW j \in 1..k, j - 1 \in Good PROVE j \in Good
  <2>1. j \in 1..m /\ j \in 1..n
    OBVIOUS
  <2>2. /\ f[j] = IF j = 1 THEN s[j] ELSE f[j - 1] \o s[j]
        /\ g[j] = IF j = 1 THEN t[j] ELSE g[j - 1] \o t[j]
    BY <2>1, ChainOne
  <2>3. j # 1 => f[j - 1] = g[j - 1]
    BY <1>2
  <2>4. QED
    BY <2>2, <2>3
<1>3. k \in Good
  <2> HIDE DEF Good
  <2>1. QED
    BY <1>1, <1>2, UpTo
<1>4. QED
  BY <1>3

LEMMA FlattenIsChain ==
  ASSUME NEW s, Len(s) \in Nat, Len(s) # 0
  PROVE  \E f : Chain(f, s, Len(s)) /\ FlattenSeq(s) = f[Len(s)]
<1>1. FlattenSeq(s) = (CHOOSE f : Chain(f, s, Len(s)))[Len(s)]
  BY Zenon DEF FlattenSeq, Chain
<1>2. \E f : Chain(f, s, Len(s))
  BY ChainExists
<1>3. QED
  BY <1>1, <1>2, Zenon
-----------------------------------------------------------------------------
LEMMA FlattenEmpty == FlattenSeq(<< >>) = << >>
BY DEF FlattenSeq

LEMMA AppendPlaces ==
  ASSUME NEW s \in Seq(Seq(Nat)), NEW x \in Seq(Nat)
  PROVE  /\ Len(Append(s, x)) = Len(s) + 1
         /\ Append(s, x)[Len(s) + 1] = x
         /\ \A i \in 1..Len(s) : Append(s, x)[i] = s[i]
BY AppendProperties

(* One more element at the end. *)
LEMMA FlattenAppend ==
  ASSUME NEW S, NEW s \in Seq(Seq(S)), NEW x \in Seq(S)
  PROVE  FlattenSeq(Append(s, x)) = FlattenSeq(s) \o x
<1> DEFINE t == Append(s, x)
           n == Len(s)
<1>1. /\ n \in Nat /\ Len(t) = n + 1 /\ t[n + 1] = x
      /\ \A i \in 1..n : s[i] = t[i]
  BY AppendProperties
<1> HIDE DEF t, n
<1>2. PICK g : Chain(g, t, n + 1) /\ FlattenSeq(t) = g[n + 1]
  BY <1>1, FlattenIsChain
<1>3. g[n + 1] = IF n = 0 THEN x ELSE g[n] \o x
  <2>1. n + 1 \in Nat /\ n + 1 \in 1..n + 1
    BY <1>1
  <2>2. n + 1 = 1 <=> n = 0
    BY <1>1
  <2>3. (n + 1) - 1 = n
    BY <1>1
  <2>4. g[n + 1] = IF n + 1 = 1 THEN t[n + 1] ELSE g[(n + 1) - 1] \o t[n + 1]
    BY <1>2, <2>1, ChainOne
  <2>5. QED
    BY <1>1, <2>2, <2>3, <2>4, Zenon
<1>4. CASE n = 0
  <2>1. s = << >>
    BY <1>4, EmptySeq DEF n
  <2>2. << >> \o x = x
    BY ConcatEmptySeq
  <2>3. QED
    BY <1>2, <1>3, <1>4, <2>1, <2>2, FlattenEmpty DEF t
<1>5. CASE n # 0
  <2>1. PICK f : Chain(f, s, n) /\ FlattenSeq(s) = f[n]
    BY <1>1, <1>5, FlattenIsChain DEF n
  <2>2. f[n] = g[n]
    <3>1. n + 1 \in Nat /\ n > 0 /\ n =< n + 1
      BY <1>1, <1>5
    <3>2. QED
      BY <1>1, <1>2, <2>1, <3>1, ChainUnique
  <2>3. QED
    BY <1>2, <1>3, <1>5, <2>1, <2>2 DEF t
<1>6. QED
  BY <1>4, <1>5

(* The first k elements are the first k - 1 and one more. *)
LEMMA PrefixStep ==
  ASSUME NEW S, NEW s \in Seq(S), NEW k \in 1..Len(s)
  PROVE  /\ SubSeq(s, 1, k - 1) \in Seq(S)
         /\ s[k] \in S
         /\ SubSeq(s, 1, k) = Append(SubSeq(s, 1, k - 1), s[k])
<1>1. 1 \in 1..Len(s) /\ k \in 1..Len(s) /\ Len(s) \in Nat
  OBVIOUS
<1>2. s[k] \in S
  BY ElementOfSeq
<1>3. SubSeq(s, 1, k - 1) \in Seq(S)
  BY <1>1
<1>4. SubSeq(s, 1, k) = SubSeq(s, 1, k - 1) \o <<s[k]>>
  BY <1>1, SubSeqRecursiveSecond
<1>5. QED
  BY <1>2, <1>3, <1>4, AppendIsConcat

LEMMA FlattenPrefixStep ==
  ASSUME NEW S, NEW s \in Seq(Seq(S)), NEW k \in 1..Len(s)
  PROVE  FlattenSeq(SubSeq(s, 1, k)) = FlattenSeq(SubSeq(s, 1, k - 1)) \o s[k]
<1>1. PICK t \in Seq(Seq(S)) : t = SubSeq(s, 1, k - 1)
  BY PrefixStep
<1>2. s[k] \in Seq(S) /\ SubSeq(s, 1, k) = Append(t, s[k])
  BY <1>1, PrefixStep
<1>3. QED
  BY <1>1, <1>2, FlattenAppend

LEMMA FlattenPrefixType ==
  ASSUME NEW S, NEW s \in Seq(Seq(S)), NEW m \in 0..Len(s)
  PROVE  FlattenSeq(SubSeq(s, 1, m)) \in Seq(S)
<1> DEFINE Good == {k \in Nat : FlattenSeq(SubSeq(s, 1, k)) \in Seq(S)}
<1>1. 0 \in Good
  <2>1. SubSeq(s, 1, 0) = << >> /\ << >> \in Seq(S) /\ 0 \in Nat
    OBVIOUS
  <2>2. QED
    BY <2>1, FlattenEmpty
<1>2. ASSUME NEW k \in 1..m, k - 1 \in Good PROVE k \in Good
  <2>1. k \in 1..Len(s) /\ k \in Nat
    OBVIOUS
  <2>2. s[k] \in Seq(S)
    BY <2>1, ElementOfSeq
  <2>3. FlattenSeq(SubSeq(s, 1, k - 1)) \in Seq(S)
    BY <1>2
  <2>4. FlattenSeq(SubSeq(s, 1, k - 1)) \o s[k] \in Seq(S)
    BY <2>2, <2>3, ConcatProperties
  <2>5. QED
    BY <2>1, <2>4, FlattenPrefixStep
<1>3. m \in Good
  <2>1. m \in Nat
    OBVIOUS
  <2> HIDE DEF Good
  <2>2. QED
    BY <1>1, <1>2, <2>1, UpTo
<1>4. QED
  BY <1>3

(* Bytes put one after another are bytes. *)
LEMMA FlattenType ==
  ASSUME NEW S, NEW s \in Seq(Seq(S))
  PROVE  FlattenSeq(s) \in Seq(S)
<1>1. Len(s) \in 0..Len(s) /\ SubSeq(s, 1, Len(s)) = s
  BY SubSeqFull
<1>2. QED
  BY <1>1, FlattenPrefixType

(* What is only ever added to at its end begins with what it was.          *)
Grows(F, x, m, n, S) ==
  /\ m \in Nat /\ n \in Nat /\ m =< n
  /\ F[m] \in Seq(S)
  /\ \A k \in m + 1..n : F[k] = F[k - 1] \o x[k] /\ x[k] \in Seq(S)
Extends(u, w, S) == \E rest \in Seq(S) : w = u \o rest

LEMMA OnlyAdded ==
  ASSUME NEW S, NEW m, NEW n, NEW F, NEW x, Grows(F, x, m, n, S)
  PROVE  Extends(F[m], F[n], S)
<1>0. \A u, v, w \in Seq(S) : (u \o v) \o w = u \o (v \o w)
  BY ConcatAssociative
<1> DEFINE Good == {d \in Nat : m + d =< n => \E rest \in Seq(S) : F[m + d] = F[m] \o rest}
<1>1. /\ m \in Nat /\ n \in Nat /\ m =< n /\ F[m] \in Seq(S)
      /\ \A k \in m + 1..n : F[k] = F[k - 1] \o x[k] /\ x[k] \in Seq(S)
  BY DEF Grows
<1>2. 0 \in Good
  <2>1. F[m] = F[m] \o << >> /\ << >> \in Seq(S)
    BY <1>1, ConcatEmptySeq
  <2>2. m + 0 = m
    BY <1>1
  <2>3. QED
    BY <2>1, <2>2
<1>3. ASSUME NEW d \in 1..n - m, d - 1 \in Good PROVE d \in Good
  <2>1. m + d \in m + 1..n /\ m + (d - 1) =< n /\ d \in Nat /\ (m + d) - 1 = m + (d - 1)
    BY <1>1
  <2>2. PICK rest \in Seq(S) : F[m + (d - 1)] = F[m] \o rest
    BY <1>3, <2>1
  <2>3. PICK y \in Seq(S) : y = x[m + d]
    BY <1>1, <2>1
  <2>4. PICK u \in Seq(S) : u = F[m]
    BY <1>1
  <2>5. F[m + d] = (u \o rest) \o y
    BY <1>1, <2>1, <2>2, <2>3, <2>4
  <2>6. (u \o rest) \o y = u \o (rest \o y)
    BY <1>0
  <2>7. rest \o y \in Seq(S)
    BY ConcatProperties
  <2>8. QED
    BY <2>1, <2>4, <2>5, <2>6, <2>7
<1>4. n - m \in Good
  <2>1. n - m \in Nat
    BY <1>1
  <2> HIDE DEF Good
  <2>2. QED
    BY <1>2, <1>3, <2>1, UpTo
<1>5. m + (n - m) = n /\ m + (n - m) =< n
  BY <1>1
<1>6. \E rest \in Seq(S) : F[m + (n - m)] = F[m] \o rest
  BY <1>4, <1>5
<1>7. QED
  BY <1>5, <1>6, Zenon DEF Extends

(* What the first elements make up is the beginning of the whole. *)
LEMMA FlattenBegins ==
  ASSUME NEW S, NEW s \in Seq(Seq(S)), NEW m \in 0..Len(s), NEW n \in m..Len(s)
  PROVE  \E rest \in Seq(S) :
           FlattenSeq(SubSeq(s, 1, n)) = FlattenSeq(SubSeq(s, 1, m)) \o rest
<1>1. PICK F : F = [k \in 0..Len(s) |-> FlattenSeq(SubSeq(s, 1, k))]
  OBVIOUS
<1>2. F[m] \in Seq(S) /\ F[m] = FlattenSeq(SubSeq(s, 1, m))
      /\ F[n] = FlattenSeq(SubSeq(s, 1, n))
  <2>1. FlattenSeq(SubSeq(s, 1, m)) \in Seq(S)
    BY FlattenPrefixType
  <2>2. QED
    BY <1>1, <2>1
<1>3. ASSUME NEW k \in m + 1..n PROVE F[k] = F[k - 1] \o s[k] /\ s[k] \in Seq(S)
  <2>1. k \in 1..Len(s) /\ k \in 0..Len(s) /\ k - 1 \in 0..Len(s)
    OBVIOUS
  <2>2. FlattenSeq(SubSeq(s, 1, k)) = FlattenSeq(SubSeq(s, 1, k - 1)) \o s[k]
    BY <2>1, FlattenPrefixStep
  <2>3. s[k] \in Seq(S)
    BY <2>1, ElementOfSeq
  <2>4. QED
    BY <1>1, <2>1, <2>2, <2>3
<1>4. m \in Nat /\ n \in Nat /\ m =< n
  OBVIOUS
<1>5. \E rest \in Seq(S) : F[n] = F[m] \o rest
  <2>1. Grows(F, s, m, n, S)
    BY <1>2, <1>3, <1>4 DEF Grows
  <2>2. QED
    BY <2>1, OnlyAdded DEF Extends
<1>6. QED
  BY <1>2, <1>5

(* Where the m-th element is in the whole. *)
LEMMA FlattenPlace ==
  ASSUME NEW S, NEW s \in Seq(Seq(S)), NEW m \in 1..Len(s)
  PROVE  LET b == Len(FlattenSeq(SubSeq(s, 1, m - 1)))
             e == Len(FlattenSeq(SubSeq(s, 1, m)))
         IN /\ b \in Nat /\ e = b + Len(s[m]) /\ e =< Len(FlattenSeq(s))
            /\ SubSeq(FlattenSeq(s), 1, b) = FlattenSeq(SubSeq(s, 1, m - 1))
            /\ SubSeq(FlattenSeq(s), b + 1, e) = s[m]
<1>1. m - 1 \in 0..Len(s) /\ m \in 0..Len(s) /\ Len(s) \in m..Len(s) /\ s[m] \in Seq(S)
  BY ElementOfSeq
<1>2. PICK before \in Seq(S) : before = FlattenSeq(SubSeq(s, 1, m - 1))
  BY <1>1, FlattenPrefixType
<1>3. PICK x \in Seq(S) : x = s[m]
  BY <1>1
<1>4. FlattenSeq(SubSeq(s, 1, m)) = before \o x
  BY <1>2, <1>3, FlattenPrefixStep
<1>5. PICK rest \in Seq(S) : FlattenSeq(s) = (before \o x) \o rest
  <2>1. SubSeq(s, 1, Len(s)) = s
    BY SubSeqFull
  <2>2. PICK rest \in Seq(S) :
          FlattenSeq(SubSeq(s, 1, Len(s))) = FlattenSeq(SubSeq(s, 1, m)) \o rest
    BY <1>1, FlattenBegins
  <2>3. QED
    BY <1>4, <2>1, <2>2, Zenon
<1>6. /\ Len(before) \in Nat /\ Len(x) \in Nat /\ Len(rest) \in Nat
      /\ Len(before \o x) = Len(before) + Len(x)
      /\ Len((before \o x) \o rest) = Len(before) + Len(x) + Len(rest)
      /\ before \o x \in Seq(S)
  BY ConcatProperties
<1>7. SubSeq((before \o x) \o rest, 1, Len(before)) = before
  BY <1>6
<1>8. SubSeq((before \o x) \o rest, Len(before) + 1, Len(before) + Len(x)) = x
  BY <1>6
<1>9. PICK b \in Nat : b = Len(before)
  BY <1>6
<1>10. PICK e \in Nat : e = Len(before) + Len(x)
  BY <1>6
<1>11. Len(FlattenSeq(SubSeq(s, 1, m - 1))) = b /\ Len(FlattenSeq(SubSeq(s, 1, m))) = e
  BY <1>2, <1>4, <1>6, <1>9, <1>10, Zenon
<1>12. e = b + Len(s[m])
  BY <1>3, <1>9, <1>10
<1>13. e =< Len(FlattenSeq(s))
  BY <1>5, <1>6, <1>10
<1>14. SubSeq(FlattenSeq(s), 1, b) = FlattenSeq(SubSeq(s, 1, m - 1))
  BY <1>2, <1>5, <1>7, <1>9, Zenon
<1>15. SubSeq(FlattenSeq(s), b + 1, e) = s[m]
  BY <1>3, <1>5, <1>8, <1>9, <1>10, Zenon
<1>16. QED
  BY <1>11, <1>12, <1>13, <1>14, <1>15, Zenon

LEMMA BytesAssociative ==
  \A u, v, w \in Seq(Nat) : (u \o v) \o w = u \o (v \o w)
<1> SUFFICES ASSUME NEW u \in Seq(Nat), NEW v \in Seq(Nat), NEW w \in Seq(Nat)
             PROVE  (u \o v) \o w = u \o (v \o w)
  OBVIOUS
<1>1. QED
  BY ConcatAssociative, SMTT(30)

-----------------------------------------------------------------------------
(* What DawnRemoteProtocol sends. *)

LEMMA HeaderType ==
  ASSUME NEW n \in Nat
  PROVE  DawnCmdHeader(n) \in Seq(Nat) /\ Len(DawnCmdHeader(n)) = HDR
<1>1. HDR \in Nat BY ProtocolAssumption
<1>2. \A i \in 1..HDR : (IF i = 1 THEN MSGT_DAWNCMD ELSE IF i = 2 THEN n ELSE 0) \in Nat
  BY DEF MSGT_DAWNCMD
<1>3. QED BY <1>1, <1>2 DEF DawnCmdHeader

(* A command buffer is its header and its body. *)
LEMMA DawnCmdType ==
  ASSUME NEW body \in Seq(Nat)
  PROVE  DawnCmd(body) \in Seq(Nat) /\ Len(DawnCmd(body)) = HDR + Len(body)
<1>1. Len(body) \in Nat OBVIOUS
<1>2. DawnCmdHeader(Len(body)) \in Seq(Nat) /\ Len(DawnCmdHeader(Len(body))) = HDR
  BY <1>1, HeaderType
<1>3. QED BY <1>2, ConcatProperties DEF DawnCmd

(* As long as the endpoint is connected and bytes wait to be written,      *)
(* EV_WRITE is requested, however handlers and Flush are nested.           *)
THEOREM NoWakeupIsLost == Spec => []NoLostWakeup
<1>1. Init => NoLostWakeup
  BY DEF Init, NoLostWakeup, flushlen
<1>2. NoLostWakeup /\ [Next]_vars => NoLostWakeup'
  <2> SUFFICES ASSUME NoLostWakeup, [Next]_vars PROVE NoLostWakeup'
    OBVIOUS
  <2>1. CASE UNCHANGED <<running, evWrite, flushbuf, wlen>>
    BY <2>1 DEF NoLostWakeup, flushlen
  <2>2. CASE running' = FALSE
    BY <2>2 DEF NoLostWakeup
  <2>3. CASE Flush
    <3>1. running' = running BY <2>3 DEF Flush
    <3>2. CASE setNeedsWriteFlush
      BY <3>1, <3>2 DEF NoLostWakeup, setNeedsWriteFlush
    <3>3. CASE UNCHANGED <<cmdsOut, evWrite>>
      BY <2>3, <3>1, <3>3 DEF NoLostWakeup, Flush, flushlen, metaOut, cmdsOut
    <3>4. QED BY <2>3, <3>2, <3>3 DEF Flush
  <2>4. ASSUME NEW n, send(n) PROVE NoLostWakeup'
    BY <2>4 DEF NoLostWakeup, send, setNeedsWriteFlush
  <2>5. CASE doIODrain
    <3>1. flushlen' = 0 /\ running' = running BY <2>5 DEF doIODrain, flushlen
    <3>2. wlen' # 0 => wlen' = wlen /\ evWrite' = evWrite
      BY <2>5 DEF doIODrain, Drain, metaOut
    <3>3. wlen' > 0 => wlen' # 0 OBVIOUS
    <3>4. QED BY <3>1, <3>2, <3>3 DEF NoLostWakeup
  <2>6. QED
    BY <2>1, <2>2, <2>3, <2>4, <2>5
    DEF Next, doIO, App, Loop, Environment, doIORead, readMsgDone,
        readMsgFbInfo, readMsgReservation, readMsgFrameSignal, readMsgDawnCmd,
        readMsgUnexpected, doIONoWrite, doIOWriteClosed, doIOFlushMore,
        doIODrainError, GetCmdSpace, FlushTooEarly, sendFrameSignal,
        sendFramebufferInfo, sendReservation, ReturnFromApp, Poll, NestedPoll,
        NestedPollStopped, Arrive, PeerRead, PeerClose, Fail, stop, vars, loop,
        metaOut, cmdsOut
<1>3. QED BY <1>1, <1>2, PTL DEF Spec
-----------------------------------------------------------------------------
(* The bytes still to be written are what flushoffs leaves of flushbuf.    *)
LEMMA UnsentType ==
  ASSUME SendTypeOK
  PROVE  /\ Unsent \in Seq(Nat)
         /\ flushbuf = << >> => Unsent = << >>
         /\ flushbuf # << >> => Len(Unsent) = flushlen - flushoffs /\ Len(Unsent) > 0
BY DEF SendTypeOK, Unsent, flushlen

(* The outgoing command buffers as stop() leaves them. *)
LEMMA EmptyBuffers ==
  /\ HDR \in Nat
  /\ DawnCmdHeader(0) \in Seq(Nat) /\ Len(DawnCmdHeader(0)) >= HDR
  /\ << >> \in Seq(Nat)
<1>1. HDR \in Nat BY ProtocolAssumption
<1>2. DawnCmdHeader(0) \in Seq(Nat) /\ Len(DawnCmdHeader(0)) = HDR BY HeaderType
<1>3. QED BY <1>1, <1>2

(* Writing bytes of the command buffer keeps the wire a sequence of bytes. *)
LEMMA WriteOutType ==
  ASSUME SendTypeOK, NEW n \in 0..Len(Unsent), WriteOut(n)
  PROVE  wire' \in Seq(Nat) /\ flushoffs' \in Nat /\ flushoffs' = flushoffs + n
<1>1. Unsent \in Seq(Nat) /\ flushoffs \in Nat /\ wire \in Seq(Nat)
  BY UnsentType DEF SendTypeOK
<1>2. SubSeq(Unsent, 1, n) \in Seq(Nat) BY <1>1
<1>3. QED BY <1>1, <1>2 DEF WriteOut

(* What lies behind the header of a command buffer. *)
LEMMA BodyType ==
  ASSUME SendTypeOK
  PROVE  SubSeq(writebuf, HDR + 1, Len(writebuf)) \in Seq(Nat)
<1>1. HDR \in Nat BY ProtocolAssumption
<1>2. writebuf \in Seq(Nat) BY DEF SendTypeOK
<1>3. \A i \in HDR + 1 .. Len(writebuf) : writebuf[i] \in Nat
  <2>1. HDR + 1 .. Len(writebuf) \subseteq 1 .. Len(writebuf) BY <1>1, <1>2
  <2>2. QED BY <1>2, <2>1
<1>4. QED BY <1>1, <1>2, <1>3, SubSeqProperties

(* Flushing a command buffer replaces the one that is done.                *)
LEMMA FlushType ==
  ASSUME SendTypeOK, Flush
  PROVE  SendTypeOK'
<1>1. HDR \in Nat BY ProtocolAssumption
<1>2. DawnCmdHeader(0) \in Seq(Nat) /\ Len(DawnCmdHeader(0)) = HDR BY HeaderType
<1>3. UNCHANGED <<wlen, wr, running, room, wire, sentMeta>>
  BY DEF Flush, metaOut, socket
<1>4. CASE UNCHANGED <<cmdsOut, flushed, evWrite>>
  BY <1>3, <1>4 DEF SendTypeOK, flushlen, cmdsOut
<1>5. CASE Len(writebuf) > HDR
  <2> DEFINE body == SubSeq(writebuf, HDR + 1, Len(writebuf))
  <2>1. body \in Seq(Nat) BY BodyType
  <2>2. DawnCmd(body) \in Seq(Nat) /\ Len(DawnCmd(body)) >= HDR
    <3> HIDE DEF body
    <3>1. Len(body) \in Nat BY <2>1
    <3>2. DawnCmd(body) \in Seq(Nat) /\ Len(DawnCmd(body)) = HDR + Len(body)
      BY <2>1, DawnCmdType
    <3>3. QED BY <1>1, <3>1, <3>2
  <2>3. /\ flushbuf' = DawnCmd(body) /\ flushed' = Append(flushed, DawnCmd(body))
        /\ flushoffs' = 0 /\ writebuf' = DawnCmdHeader(0)
        /\ setNeedsWriteFlush
    BY <1>5 DEF Flush
  <2>4. evWrite' \in BOOLEAN
    BY <2>3 DEF setNeedsWriteFlush, SendTypeOK
  <2> HIDE DEF body
  <2>5. flushed' \in Seq(Seq(Nat)) BY <2>2, <2>3 DEF SendTypeOK
  <2>6. flushoffs' < flushlen' BY <1>1, <2>2, <2>3, ProtocolAssumption DEF flushlen
  <2>7. QED BY <1>2, <1>3, <2>2, <2>3, <2>4, <2>5, <2>6 DEF SendTypeOK
<1>6. QED BY <1>4, <1>5 DEF Flush

(* The sending side's part of the type invariant. *)
LEMMA SendTypeStep == SendTypeOK /\ [Next]_vars => SendTypeOK'
<1> SUFFICES ASSUME SendTypeOK, [Next]_vars PROVE SendTypeOK'
  OBVIOUS
<1> DEFINE Rest == <<wlen, wr, running, evWrite, room, wire, sentMeta, flushed>>
<1>1. /\ HDR \in Nat /\ WSize \in Nat /\ OutCap \in Nat /\ MaxMeta \in Nat
      /\ FbInfoSize \in Nat /\ ReservationSize \in Nat
      /\ WSize > 0
  BY ProtocolAssumption
<1>2. ASSUME writebuf' = DawnCmdHeader(0), flushbuf' = << >>, flushoffs' \in Nat
      PROVE  /\ writebuf' \in Seq(Nat) /\ Len(writebuf') >= HDR
             /\ flushbuf' \in Seq(Nat)
             /\ flushoffs' \in Nat
             /\ flushbuf' # << >> => flushoffs' < flushlen'
  BY <1>2, EmptyBuffers
<1>3. CASE UNCHANGED <<Rest, writebuf, flushbuf, flushoffs>>
  BY <1>3 DEF SendTypeOK, flushlen
<1>4. CASE stop /\ UNCHANGED <<wlen, wr, room, wire, sentMeta, flushed>>
  <2>1. flushoffs' \in Nat /\ running' \in BOOLEAN /\ evWrite' \in BOOLEAN
    BY <1>4 DEF SendTypeOK, stop
  <2>2. QED BY <1>2, <1>4, <2>1 DEF SendTypeOK, stop
<1>5. CASE Flush BY <1>5, FlushType
<1>6. ASSUME NEW size \in CmdSizes, GetCmdSpace(size) PROVE SendTypeOK'
  <2>1. [i \in 1..size |-> Len(flushed) + 1] \in Seq(Nat)
    <3>1. size \in Nat /\ Len(flushed) + 1 \in Nat
      BY ProtocolAssumption DEF SendTypeOK
    <3>2. QED BY <3>1
  <2>2. \/ writebuf' = writebuf
        \/ writebuf' = writebuf \o [i \in 1..size |-> Len(flushed) + 1]
    BY <1>6 DEF GetCmdSpace
  <2>3. writebuf' \in Seq(Nat) /\ Len(writebuf') >= HDR
    <3>1. CASE writebuf' = writebuf BY <3>1 DEF SendTypeOK
    <3>2. CASE writebuf' = writebuf \o [i \in 1..size |-> Len(flushed) + 1]
      <4> DEFINE more == [i \in 1..size |-> Len(flushed) + 1]
      <4>1. more \in Seq(Nat) /\ writebuf' = writebuf \o more BY <2>1, <3>2
      <4> HIDE DEF more
      <4>2. /\ Len(writebuf) \in Nat /\ Len(more) \in Nat
            /\ writebuf \in Seq(Nat) /\ Len(writebuf) >= HDR
        BY <4>1 DEF SendTypeOK
      <4>3. writebuf \o more \in Seq(Nat) /\ Len(writebuf \o more) = Len(writebuf) + Len(more)
        BY <4>1, <4>2, ConcatProperties
      <4>4. QED BY <1>1, <4>1, <4>2, <4>3
    <3>3. QED BY <2>2, <3>1, <3>2
  <2>4. UNCHANGED <<Rest, flushbuf, flushoffs>>
    BY <1>6 DEF GetCmdSpace, metaOut, loop, socket, program
  <2>5. QED BY <2>3, <2>4 DEF SendTypeOK, flushlen
<1>7. ASSUME NEW n \in Nat, send(n) PROVE SendTypeOK'
  <2>1. wlen' \in 0..WSize-1 /\ sentMeta' \in 0..MaxMeta
    <3>1. /\ wlen \in 0..WSize-1 /\ wlen' = wlen + n /\ WSize - 1 - wlen >= n
          /\ sentMeta \in 0..MaxMeta /\ sentMeta < MaxMeta /\ sentMeta' = sentMeta + 1
      BY <1>7 DEF send, SendTypeOK
    <3>2. QED BY <1>1, <3>1
  <2>2. evWrite' \in BOOLEAN BY <1>7 DEF send, setNeedsWriteFlush, SendTypeOK
  <2>3. UNCHANGED <<wr, running, room, wire, flushed, writebuf, flushbuf, flushoffs>>
    BY <1>7 DEF send, cmdsOut, socket
  <2>4. QED BY <2>1, <2>2, <2>3 DEF SendTypeOK, flushlen
<1>8. CASE doIOFlushMore
  <2>1. UNCHANGED <<wlen, wr, running, evWrite, sentMeta, flushed, writebuf, flushbuf>>
    BY <1>8 DEF doIOFlushMore, metaOut, loop, program
  <2>2. CASE UNCHANGED <<wire, flushoffs, room>>
    BY <2>1, <2>2 DEF SendTypeOK, flushlen
  <2>3. CASE room < Len(Unsent) /\ WriteOut(room) /\ room' = 0
    <3>1. room \in 0..Len(Unsent) BY <1>1, <2>3, UnsentType DEF SendTypeOK
    <3>2. wire' \in Seq(Nat) /\ flushoffs' \in Nat /\ flushoffs' = flushoffs + room
      BY <2>3, <3>1, WriteOutType
    <3>3. flushbuf # << >> => flushoffs + room < flushlen
      BY <2>3, <3>1, UnsentType DEF SendTypeOK, flushlen
    <3>4. QED BY <1>1, <2>1, <2>3, <3>2, <3>3 DEF SendTypeOK, flushlen
  <2>4. QED BY <1>8, <2>2, <2>3 DEF doIOFlushMore
<1>9. CASE doIODrain
  <2>1. Len(Unsent) \in 0..Len(Unsent) /\ WriteOut(Len(Unsent)) /\ room >= Len(Unsent)
    BY <1>9, UnsentType DEF doIODrain
  <2>2. wire' \in Seq(Nat) /\ flushoffs' \in Nat BY <2>1, WriteOutType
  <2>3. flushbuf' = << >> /\ UNCHANGED <<writebuf, running, flushed, sentMeta>>
    BY <1>9 DEF doIODrain, program
  <2>4. evWrite' \in BOOLEAN
    BY <1>9 DEF doIODrain, SendTypeOK
  <2>5. wlen' \in 0..WSize-1 /\ wr' \in 0..WSize-1 /\ room' \in 0..OutCap
    <3>1. /\ room - Len(Unsent) \in 0..OutCap
          /\ wlen \in 0..WSize-1 /\ wr \in 0..WSize-1
      BY <1>1, <2>1, UnsentType DEF SendTypeOK
    <3>2. CASE wlen = 0 /\ room' = room - Len(Unsent) /\ UNCHANGED metaOut
      BY <3>1, <3>2 DEF metaOut
    <3>3. CASE Drain(room - Len(Unsent))
      <4>1. wlen' \in {wlen, 0} /\ wr' \in {wr, (wr + wlen) % WSize}
        BY <3>3 DEF Drain
      <4>2. (wr + wlen) % WSize \in 0..WSize-1 BY <1>1, <3>1
      <4>3. room' \in 0..OutCap
        BY <1>1, <3>1, <3>3 DEF Drain, Smaller
      <4>4. QED BY <1>1, <3>1, <4>1, <4>2, <4>3
    <3>4. QED BY <1>9, <3>2, <3>3 DEF doIODrain
  <2>6. QED BY <2>2, <2>3, <2>4, <2>5 DEF SendTypeOK
<1>10. CASE doIODrainError
  <2>1. Len(Unsent) \in 0..Len(Unsent) /\ WriteOut(Len(Unsent)) /\ room >= Len(Unsent)
    BY <1>10, UnsentType DEF doIODrainError
  <2>2. wire' \in Seq(Nat) /\ flushoffs' \in Nat BY <2>1, WriteOutType
  <2>3. /\ flushbuf' = << >> /\ writebuf' = DawnCmdHeader(0) /\ running' = FALSE
        /\ UNCHANGED <<evWrite, wlen, wr, flushed, sentMeta>>
    BY <1>10 DEF doIODrainError, program, metaOut
  <2>4. room' \in 0..OutCap
    <3>1. WChunk \in Nat BY <1>1 DEF SendTypeOK, WChunk, Smaller
    <3>2. PICK put \in Nat : /\ put =< room - Len(Unsent)
                             /\ room' = room - Len(Unsent) - put
      BY <1>10, <3>1 DEF doIODrainError
    <3>3. QED BY <1>1, <2>1, <3>2, UnsentType DEF SendTypeOK
  <2>5. evWrite' \in BOOLEAN /\ running' \in BOOLEAN BY <2>3 DEF SendTypeOK
  <2>6. QED BY <1>2, <2>2, <2>3, <2>4, <2>5 DEF SendTypeOK
<1>11. ASSUME NEW n \in 1..OutCap, PeerRead(n) PROVE SendTypeOK'
  <2>1. room' \in 0..OutCap BY <1>1, <1>11 DEF PeerRead, SendTypeOK
  <2>2. UNCHANGED <<wlen, wr, running, evWrite, wire, sentMeta, flushed,
                    writebuf, flushbuf, flushoffs>>
    BY <1>11 DEF PeerRead, metaOut, cmdsOut, loop, program
  <2>3. QED BY <2>1, <2>2 DEF SendTypeOK, flushlen
<1>12. ASSUME doIORead \/ readMsgDone \/ readMsgFbInfo \/ readMsgReservation
              \/ readMsgFrameSignal \/ readMsgDawnCmd \/ readMsgUnexpected
              \/ doIONoWrite \/ doIOWriteClosed
       PROVE  SendTypeOK'
  BY <1>3, <1>4, <1>12
  DEF doIORead, readMsgDone, readMsgFbInfo, readMsgReservation, readMsgFrameSignal,
      readMsgDawnCmd, readMsgUnexpected, doIONoWrite, doIOWriteClosed, Deliver, Fail,
      metaOut, cmdsOut, loop, socket, program
<1>13. ASSUME FlushTooEarly \/ ReturnFromApp \/ Loop \/ PeerClose
              \/ (\E n \in 1..Len(Stream) : Arrive(n)) \/ UNCHANGED vars
       PROVE  SendTypeOK'
  BY <1>3, <1>13
  DEF FlushTooEarly, ReturnFromApp, Loop, Poll, NestedPoll, NestedPollStopped,
      PeerClose, Arrive, Fail, metaOut, cmdsOut, loop, socket, program, vars
<1>14. 1 \in Nat /\ FbInfoSize + 1 \in Nat /\ ReservationSize + 1 \in Nat
  BY <1>1
<1>15. QED
  BY <1>5, <1>6, <1>7, <1>8, <1>9, <1>10, <1>11, <1>12, <1>13, <1>14
  DEF Next, doIO, App, Environment, sendFrameSignal, sendFramebufferInfo,
      sendReservation

LEMMA SendTypeInit == Init => SendTypeOK
<1> SUFFICES ASSUME Init PROVE SendTypeOK
  OBVIOUS
<1>1. 0 \in 0..WSize-1 /\ OutCap \in 0..OutCap /\ 0 \in 0..MaxMeta
  BY ProtocolAssumption
<1>2. writebuf \in Seq(Nat) /\ Len(writebuf) >= HDR /\ flushbuf \in Seq(Nat)
  BY EmptyBuffers DEF Init
<1>3. running \in BOOLEAN /\ evWrite \in BOOLEAN BY DEF Init
<1>4. wire \in Seq(Nat) /\ flushed \in Seq(Seq(Nat)) BY DEF Init
<1>5. QED BY <1>1, <1>2, <1>3, <1>4 DEF Init, SendTypeOK

LEMMA SendTypeCorrect == Spec => []SendTypeOK
BY SendTypeInit, SendTypeStep, PTL DEF Spec
-----------------------------------------------------------------------------
(* Writing n of the unsent bytes, and going on with the same command       *)
(* buffer, leaves the others unsent.                                       *)
LEMMA UnsentAfterWrite ==
  ASSUME SendTypeOK, NEW n \in 0..Len(Unsent), WriteOut(n), flushbuf' = flushbuf
  PROVE  Unsent' = SubSeq(Unsent, n + 1, Len(Unsent))
<1>1. flushbuf \in Seq(Nat) /\ flushoffs \in Nat /\ flushoffs' = flushoffs + n
  BY DEF SendTypeOK, WriteOut
<1>2. CASE flushbuf = << >>
  <2>1. Unsent = << >> /\ Unsent' = << >> BY <1>1, <1>2 DEF Unsent, flushlen
  <2>2. QED BY <2>1
<1>3. CASE flushbuf # << >>
  <2>1. flushoffs < flushlen /\ flushlen \in Nat BY <1>1, <1>3 DEF SendTypeOK, flushlen
  <2>2. Len(Unsent) = flushlen - flushoffs BY <1>1, <2>1 DEF Unsent, flushlen
  <2>3. Unsent' = SubSeq(flushbuf, flushoffs + n + 1, flushlen)
    BY <1>1 DEF Unsent, flushlen
  <2>4. SubSeq(Unsent, n + 1, Len(Unsent)) = SubSeq(flushbuf, flushoffs + n + 1, flushlen)
    BY <1>1, <2>1, <2>2 DEF Unsent, flushlen
  <2>5. QED BY <2>3, <2>4
<1>4. QED BY <1>2, <1>3
-----------------------------------------------------------------------------
(* The receiving side.                                                     *)
(*                                                                         *)
(* _rbuf may be full while readMsg parses it, also of a nested doIO; what  *)
(* has to be shown is that there is room again whenever something else     *)
(* runs: readMsg ends with _rbuf empty, waits with less in it than one     *)
(* command buffer has, which leaves its Slack, or takes one out.  This is  *)
(* Room; it needs Frames, that the activations below the running one are   *)
(* in callbacks, where nothing is parsed.                                  *)

Frames(st) ==
  /\ st \in Seq(Frame)
  /\ \A i \in 2..Len(st) : st[i].pc \in {"app", "return"}
Reading == stack # << >> /\ Top.pc = "read" => running
Settled == stack = << >> \/ Top.pc # "parse"
Room == running /\ Settled => Len(rbuf) < RSize - 1
EndsAt(buf, s, t) == \E a \in 0..t : buf = SubSeq(s, a + 1, t)
Window == running => EndsAt(rbuf, Stream, taken)

RInv == ReceiveTypeOK /\ Frames(stack) /\ Reading /\ Room /\ Window

LEMMA Sizes ==
  /\ HDR \in Nat /\ HDR > 1 /\ MAX \in Nat /\ MAX > 0 /\ Slack \in Nat
  /\ RSize \in Nat /\ RSize > 2 /\ MAX =< RSize - 2
<1>1. HDR \in Nat /\ HDR > 1 /\ MAX \in Nat /\ MAX > 0 /\ Slack \in Nat
  BY ProtocolAssumption
<1>2. QED
  BY <1>1 DEF RSize, BufSize

LEMMA ScriptType == ASSUME script \in Scripts PROVE script \in Seq(Seq(Nat))
BY ProtocolAssumption

LEMMA StreamType ==
  ASSUME ReceiveTypeOK
  PROVE  Stream \in Seq(Nat) /\ taken \in 0..Len(Stream) /\ arrived \in taken..Len(Stream)
<1>1. Stream \in Seq(Nat)
  BY ScriptType, FlattenType DEF ReceiveTypeOK, Stream
<1>2. Len(Stream) \in Nat
  BY <1>1
<1>3. QED
  BY <1>1, <1>2 DEF ReceiveTypeOK
-----------------------------------------------------------------------------
(* Sequences: a part of a stream that ends at t. *)

LEMMA DropPrefix ==
  ASSUME NEW buf \in Seq(Nat), NEW n \in Nat
  PROVE  /\ SubSeq(buf, n + 1, Len(buf)) \in Seq(Nat)
         /\ Len(SubSeq(buf, n + 1, Len(buf))) =< Len(buf)
         /\ n =< Len(buf) => Len(SubSeq(buf, n + 1, Len(buf))) = Len(buf) - n
<1>1. Len(buf) \in Nat /\ n + 1 \in Int
  OBVIOUS
<1>2. \A i \in (n + 1)..Len(buf) : buf[i] \in Nat
  BY <1>1
<1>3. /\ SubSeq(buf, n + 1, Len(buf)) \in Seq(Nat)
      /\ Len(SubSeq(buf, n + 1, Len(buf)))
           = IF n + 1 =< Len(buf) THEN Len(buf) - (n + 1) + 1 ELSE 0
  BY <1>1, <1>2, SubSeqProperties
<1>4. QED
  BY <1>1, <1>3

(* What is left of it when its first n bytes are taken away ends there too. *)
LEMMA DropFromPart ==
  ASSUME NEW s \in Seq(Nat), NEW t \in 0..Len(s), NEW n \in Nat,
         NEW buf, EndsAt(buf, s, t)
  PROVE  EndsAt(SubSeq(buf, n + 1, Len(buf)), s, t)
<1>1. PICK a \in 0..t : buf = SubSeq(s, a + 1, t)
  BY DEF EndsAt
<1>2. Len(buf) = t - a
  BY <1>1
<1>3. CASE n =< t - a
  <2>1. SubSeq(SubSeq(s, a + 1, t), n + 1, t - a) = SubSeq(s, a + n + 1, t)
    BY <1>3
  <2>2. a + n \in 0..t
    BY <1>3
  <2>3. QED
    BY <1>1, <1>2, <2>1, <2>2 DEF EndsAt
<1>4. CASE n > t - a
  <2>1. SubSeq(buf, n + 1, Len(buf)) = << >>
    BY <1>2, <1>4, SubSeqEmpty
  <2>2. SubSeq(s, t + 1, t) = << >>
    BY SubSeqEmpty
  <2>3. t \in 0..t
    OBVIOUS
  <2>4. QED
    BY <2>1, <2>2, <2>3 DEF EndsAt
<1>5. QED
  BY <1>1, <1>3, <1>4

LEMMA FillPart ==
  ASSUME NEW s \in Seq(Nat), NEW t \in 0..Len(s), NEW g \in 0..Len(s) - t,
         NEW buf, EndsAt(buf, s, t)
  PROVE  EndsAt(buf \o SubSeq(s, t + 1, t + g), s, t + g)
<1>1. PICK a \in 0..t : buf = SubSeq(s, a + 1, t)
  BY DEF EndsAt
<1>2. a + 1 \in 1..Len(s) + 1 /\ t \in (a + 1) - 1..Len(s) /\ t + g \in t..Len(s)
  BY <1>1
<1>3. SubSeq(s, a + 1, t) \o SubSeq(s, t + 1, t + g) = SubSeq(s, a + 1, t + g)
  BY <1>2, ConcatAdjacentSubSeq
<1>4. a \in 0..t + g
  BY <1>1
<1>5. QED
  BY <1>1, <1>3, <1>4 DEF EndsAt

LEMMA EndsWithoutGap ==
  ASSUME NEW s \in Seq(Nat), NEW t \in 0..Len(s), NEW buf, EndsAt(buf, s, t)
  PROVE  buf = SubSeq(s, t - Len(buf) + 1, t)
<1>1. PICK a \in 0..t : buf = SubSeq(s, a + 1, t)
  BY DEF EndsAt
<1>2. t - Len(buf) + 1 = a + 1
  BY <1>1
<1>3. QED
  BY <1>1, <1>2
-----------------------------------------------------------------------------
(* The stack of activations. *)

PCs == {"read", "parse", "app", "poll", "return", "write"}
Vias == {"loop", "main", "readMsg", "doIO"}

(* Only the activation that runs goes on, as f. *)
LEMMA TopStack ==
  ASSUME NEW st, Frames(st), st # << >>, NEW f \in Frame, NEW new, new = [st EXCEPT ![1] = f]
  PROVE  Frames(new) /\ new # << >> /\ Head(new) = f
<1>1. st \in Seq(Frame) /\ Len(st) \in Nat /\ 1 \in 1..Len(st)
  BY DEF Frames
<1>2. new \in Seq(Frame) /\ Len(new) = Len(st) /\ new[1] = f
  BY <1>1
<1>3. \A i \in 2..Len(st) : new[i] = st[i]
  BY <1>1
<1>4. \A i \in 2..Len(st) : new[i].pc \in {"app", "return"}
  BY <1>3 DEF Frames
<1>5. new # << >> /\ Head(new) = f
  BY <1>1, <1>2
<1>6. QED
  BY <1>2, <1>4, <1>5 DEF Frames

LEMMA GotoStack ==
  ASSUME Frames(stack), stack # << >>, NEW pc \in PCs, NEW via \in Vias,
         Goto(pc) \/ stack' = [stack EXCEPT ![1].pc = pc, ![1].via = via]
  PROVE  Frames(stack)' /\ stack' # << >> /\ Head(stack').pc = pc
<1>1. stack \in Seq(Frame) /\ 1 \in 1..Len(stack) /\ stack[1] \in Frame
  BY DEF Frames
<1>2. PICK f \in Frame : f.pc = pc /\ stack' = [stack EXCEPT ![1] = f]
  <2>1. CASE Goto(pc)
    <3>1. [stack[1] EXCEPT !.pc = pc] \in Frame /\ [stack[1] EXCEPT !.pc = pc].pc = pc
      BY <1>1 DEF Frame, PCs
    <3>2. stack' = [stack EXCEPT ![1] = [stack[1] EXCEPT !.pc = pc]]
      BY <2>1 DEF Goto
    <3>3. QED
      BY <3>1, <3>2
  <2>2. CASE stack' = [stack EXCEPT ![1].pc = pc, ![1].via = via]
    <3>1. /\ [stack[1] EXCEPT !.pc = pc, !.via = via] \in Frame
          /\ [stack[1] EXCEPT !.pc = pc, !.via = via].pc = pc
      BY <1>1 DEF Frame, PCs, Vias
    <3>2. stack' = [stack EXCEPT ![1] = [stack[1] EXCEPT !.pc = pc, !.via = via]]
      BY <1>1, <2>2
    <3>3. QED
      BY <3>1, <3>2
  <2>3. QED
    BY <2>1, <2>2
<1>3. PICK new : new = stack'
  OBVIOUS
<1>4. Frames(new) /\ new # << >> /\ Head(new) = f
  BY <1>2, <1>3, TopStack
<1>5. QED
  BY <1>2, <1>3, <1>4 DEF Frames

(* What ev_run leaves on the stack while it dispatches. *)
LEMMA ResumedStack ==
  ASSUME Frames(stack), stack # << >>
  PROVE  Frames(Resumed) /\ Resumed # << >> /\ Head(Resumed).pc \in {"app", "return"}
<1>1. stack \in Seq(Frame) /\ 1 \in 1..Len(stack) /\ stack[1] \in Frame
  BY DEF Frames
<1>2. PICK f \in Frame : f.pc \in {"app", "return"} /\ Resumed = [stack EXCEPT ![1] = f]
  <2> DEFINE pc == IF Server THEN "return" ELSE "app"
  <2>1. pc \in {"app", "return"} /\ pc \in PCs
    BY DEF PCs
  <2>2. Resumed = [stack EXCEPT ![1] = [stack[1] EXCEPT !.pc = pc]]
    BY DEF Resumed
  <2> HIDE DEF pc
  <2>3. [stack[1] EXCEPT !.pc = pc] \in Frame /\ [stack[1] EXCEPT !.pc = pc].pc = pc
    BY <1>1, <2>1 DEF Frame, PCs
  <2>4. QED
    BY <2>1, <2>2, <2>3
<1>3. PICK new : new = Resumed
  OBVIOUS
<1>4. Frames(new) /\ new # << >> /\ Head(new) = f
  BY <1>2, <1>3, TopStack
<1>5. QED
  BY <1>2, <1>3, <1>4

LEMMA ReturnStack ==
  ASSUME NEW st, Frames(st), st # << >>
  PROVE  Frames(Tail(st)) /\ (Tail(st) = << >> \/ Head(Tail(st)).pc \in {"app", "return"})
<1>1. st \in Seq(Frame) /\ Len(st) \in Nat /\ Len(st) > 0
  BY DEF Frames
<1>2. /\ Tail(st) \in Seq(Frame) /\ Len(Tail(st)) = Len(st) - 1
      /\ \A i \in 1..Len(Tail(st)) : Tail(st)[i] = st[i + 1]
  BY <1>1, HeadTailProperties
<1>3. \A i \in 1..Len(Tail(st)) : Tail(st)[i].pc \in {"app", "return"}
  BY <1>1, <1>2 DEF Frames
<1>4. PICK rest : rest = Tail(st)
  OBVIOUS
<1>5. rest = << >> \/ (Head(rest) = rest[1] /\ 1 \in 1..Len(rest))
  <2>1. rest \in Seq(Frame)
    BY <1>2, <1>4
  <2>2. Len(rest) \in Nat /\ (Len(rest) = 0 => rest = << >>)
    BY <2>1, EmptySeq
  <2>3. CASE Len(rest) = 0
    BY <2>2, <2>3
  <2>4. CASE Len(rest) # 0
    <3>1. Head(rest) = rest[1]
      BY <2>1, <2>4
    <3>2. 1 \in 1..Len(rest)
      BY <2>2, <2>4
    <3>3. QED
      BY <3>1, <3>2
  <2>5. QED
    BY <2>3, <2>4
<1>6. \A i \in 2..Len(rest) : rest[i].pc \in {"app", "return"}
  BY <1>2, <1>3, <1>4
<1>7. QED
  BY <1>2, <1>3, <1>4, <1>5, <1>6 DEF Frames

LEMMA CallStack ==
  ASSUME NEW st, Frames(st), st = << >> \/ Head(st).pc \in {"app", "return"},
         NEW f \in Frame
  PROVE  /\ Frames(<<f>> \o st)
         /\ <<f>> \o st # << >>
         /\ Head(<<f>> \o st) = f
<1>1. st \in Seq(Frame) /\ Len(st) \in Nat /\ <<f>> \in Seq(Frame) /\ Len(<<f>>) = 1
  BY DEF Frames
<1>2. /\ <<f>> \o st \in Seq(Frame) /\ Len(<<f>> \o st) = 1 + Len(st)
      /\ \A i \in 1..1 + Len(st) :
           (<<f>> \o st)[i] = IF i =< 1 THEN <<f>>[i] ELSE st[i - 1]
  BY <1>1, ConcatProperties
<1>3. \A i \in 1..Len(st) : st[i].pc \in {"app", "return"}
  <2> SUFFICES ASSUME NEW i \in 1..Len(st) PROVE st[i].pc \in {"app", "return"}
    OBVIOUS
  <2>1. CASE i = 1
    BY <1>1, <2>1
  <2>2. CASE i # 1
    BY <1>1, <2>2 DEF Frames
  <2>3. QED
    BY <2>1, <2>2
<1>4. \A i \in 2..1 + Len(st) : (<<f>> \o st)[i].pc \in {"app", "return"}
  BY <1>1, <1>2, <1>3
<1>5. QED
  BY <1>1, <1>2, <1>4 DEF Frames
-----------------------------------------------------------------------------
(* The kinds of steps. *)

(* A step that takes nothing from the socket and nothing out of _rbuf, and *)
(* leaves readMsg only with an empty _rbuf or without a connection.        *)
LEMMA QuietStep ==
  ASSUME RInv, UNCHANGED <<rbuf, rw, taken, script, delivered>>,
         dawnCmdRLen' \in {dawnCmdRLen, 0}, fault' \in Faults,
         arrived' \in taken..Len(Stream), peerOpen' \in BOOLEAN,
         running' => running, Frames(stack)', Reading',
         running' /\ Settled' => Settled \/ rbuf = << >>
  PROVE  RInv'
<1>1. ReceiveTypeOK'
  <2>1. Stream' = Stream
    BY DEF Stream
  <2>2. taken' \in 0..arrived' /\ arrived' \in 0..Len(Stream')
    BY <2>1, StreamType DEF RInv
  <2>3. dawnCmdRLen' \in 0..MAX
    BY Sizes DEF RInv, ReceiveTypeOK
  <2>4. QED
    BY <2>2, <2>3 DEF RInv, ReceiveTypeOK, Frames
<1>2. Room'
  <2>1. Len(<< >>) < RSize - 1
    BY Sizes
  <2>2. QED
    BY <2>1 DEF RInv, Room
<1>3. Window'
  BY DEF RInv, Window, Stream
<1>4. QED
  BY <1>1, <1>2, <1>3 DEF RInv

(* readMsg takes a message, or the header of one, out of _rbuf.            *)
LEMMA DiscardStep ==
  ASSUME RInv, At("parse"), NEW n \in Nat, rbuf' = SubSeq(rbuf, n + 1, Len(rbuf)),
         dawnCmdRLen' \in 0..MAX, fault' \in Faults,
         UNCHANGED <<rw, taken, script, delivered, arrived, peerOpen, running, stack>>
  PROVE  RInv'
<1>1. rbuf' \in Seq(Nat) /\ Len(rbuf') =< Len(rbuf)
  BY DropPrefix DEF RInv, ReceiveTypeOK
<1>2. ReceiveTypeOK'
  <2>1. Len(rbuf) \in Nat /\ Len(rbuf') \in Nat /\ Len(rbuf) < RSize
    BY <1>1 DEF RInv, ReceiveTypeOK
  <2>2. Len(rbuf') < RSize
    BY <1>1, <2>1, Sizes
  <2>3. Stream' = Stream
    BY DEF Stream
  <2>4. QED
    BY <1>1, <2>2, <2>3 DEF RInv, ReceiveTypeOK
<1>3. Window'
  <2>1. running => EndsAt(SubSeq(rbuf, n + 1, Len(rbuf)), Stream, taken)
    BY StreamType, DropFromPart DEF RInv, Window
  <2>2. QED
    BY <2>1 DEF Window, Stream, EndsAt
<1>4. Frames(stack)' /\ Reading' /\ ~Settled'
  BY DEF RInv, Frames, Reading, Settled, At, Top
<1>5. QED
  BY <1>2, <1>3, <1>4 DEF RInv, Room

(* A command buffer is taken out of buf, which ends where the socket has   *)
(* been read to, and handed to the program.                                *)
LEMMA DeliverStep ==
  ASSUME RInv, stack # << >>, NEW buf \in Seq(Nat), Len(buf) < RSize,
         NEW n \in 0..MAX, n > 0, n =< Len(buf), NEW via \in Vias, Deliver(buf, n, via),
         rw' \in 0..RSize-1, taken' \in 0..arrived, running => EndsAt(buf, Stream, taken'),
         UNCHANGED <<script, arrived, peerOpen, running, fault>>
  PROVE  RInv'
<1>1. n \in Nat /\ Len(buf) \in Nat
  BY Sizes
<1>2. rbuf' \in Seq(Nat) /\ Len(rbuf') = Len(buf) - n
  BY <1>1, DropPrefix DEF Deliver
<1>3. Len(rbuf') < RSize - 1 /\ Len(rbuf') < RSize
  BY <1>1, <1>2, Sizes
<1>4. SubSeq(buf, 1, n) \in Seq(Nat)
  BY <1>1
<1>5. delivered' \in Seq(Seq(Nat))
  BY <1>4 DEF Deliver, RInv, ReceiveTypeOK
<1>6. Frames(stack)' /\ stack' # << >> /\ Head(stack').pc = "app"
  <2>1. "app" \in PCs
    BY DEF PCs
  <2>2. QED
    BY <2>1, GotoStack DEF RInv, Deliver
<1>7. ReceiveTypeOK'
  <2>1. Stream' = Stream
    BY DEF Stream
  <2>2. dawnCmdRLen' \in 0..MAX
    BY DEF Deliver
  <2>3. QED
    BY <1>2, <1>3, <1>5, <1>6, <2>1, <2>2 DEF RInv, ReceiveTypeOK, Frames
<1>8. Window'
  <2>1. running => EndsAt(SubSeq(buf, n + 1, Len(buf)), Stream, taken')
    <3>1. taken' \in 0..Len(Stream) /\ Stream \in Seq(Nat)
      BY StreamType DEF RInv
    <3>2. QED
      BY <1>1, <3>1, DropFromPart
  <2>2. QED
    BY <2>1 DEF Deliver, Window, Stream, EndsAt
<1>9. Reading' /\ Room'
  BY <1>3, <1>6 DEF Reading, Room, Top
<1>10. QED
  BY <1>6, <1>7, <1>8, <1>9 DEF RInv

(* What readFromFD takes from the socket fits into _rbuf.                  *)
LEMMA ReadFacts ==
  ASSUME RInv
  PROVE  /\ Got \in Nat /\ taken + Got \in 0..arrived
         /\ Filled \in Seq(Nat) /\ Len(Filled) < RSize
         /\ running => EndsAt(Filled, Stream, taken + Got)
<1>1. /\ rbuf \in Seq(Nat) /\ Len(rbuf) \in Nat /\ Len(rbuf) < RSize /\ RSize \in Nat
      /\ Stream \in Seq(Nat) /\ taken \in 0..Len(Stream) /\ arrived \in taken..Len(Stream)
  BY Sizes, StreamType DEF RInv, ReceiveTypeOK
<1>2. /\ Got \in 0..Len(Stream) - taken /\ Got =< RSize - 1 - Len(rbuf)
      /\ taken + Got \in 0..arrived
  BY <1>1 DEF Got, Smaller, Free
<1>3. PICK g \in 0..Len(Stream) - taken : g = Got
  BY <1>2
<1>4. PICK s \in Seq(Nat) : s = Stream
  BY <1>1
<1>5. PICK t \in 0..Len(s) : t = taken
  BY <1>1, <1>4
<1>6. SubSeq(s, t + 1, t + g) \in Seq(Nat) /\ Len(SubSeq(s, t + 1, t + g)) = g
  <2>1. t + g =< Len(s) /\ t \in Nat /\ g \in Nat
    BY <1>3, <1>4, <1>5
  <2>2. QED
    BY <2>1
<1>7. Filled = rbuf \o SubSeq(s, t + 1, t + g)
  BY <1>3, <1>4, <1>5 DEF Filled
<1>8. Filled \in Seq(Nat) /\ Len(Filled) = Len(rbuf) + g
  BY <1>1, <1>6, <1>7, ConcatProperties
<1>9. running => EndsAt(Filled, s, t + g)
  BY <1>3, <1>4, <1>5, <1>7, FillPart DEF RInv, Window
<1>10. QED
  BY <1>1, <1>2, <1>3, <1>4, <1>5, <1>8, <1>9

LEMMA ReadStep == RInv /\ doIORead => RInv'
<1> SUFFICES ASSUME RInv, doIORead PROVE RInv'
  OBVIOUS
<1>1. /\ stack # << >> /\ Frames(stack)
      /\ taken' = taken + Got /\ UNCHANGED <<script, arrived, peerOpen>>
  BY DEF doIORead, At, RInv, peer
<1>2. Stream' = Stream /\ taken' \in 0..arrived
  BY <1>1, ReadFacts DEF Stream
<1>3. CASE stop /\ Return /\ UNCHANGED <<reading, metaOut, program, fault>>
  <2>1. Frames(stack)' /\ (stack' = << >> \/ Head(stack').pc \in {"app", "return"})
    <3>1. PICK st : st = Tail(stack)
      OBVIOUS
    <3>2. Frames(st) /\ (st = << >> \/ Head(st).pc \in {"app", "return"})
      BY <1>1, <3>1, ReturnStack
    <3>3. QED
      BY <1>3, <3>1, <3>2 DEF Return, Frames
  <2>2. ReceiveTypeOK'
    BY <1>1, <1>2, <1>3, <2>1 DEF RInv, ReceiveTypeOK, reading, program, Frames
  <2>3. running' = FALSE
    BY <1>3 DEF stop
  <2>4. QED
    BY <2>1, <2>2, <2>3 DEF RInv, Reading, Room, Window, Top
<1> DEFINE More == /\ rbuf' = Filled /\ Goto("parse")
                   /\ UNCHANGED <<dawnCmdRLen, delivered, fault>>
           Wait == /\ dawnCmdRLen > 0 /\ ~Complete(Filled, dawnCmdRLen)
                   /\ rbuf' = Filled /\ Goto("write")
                   /\ UNCHANGED <<dawnCmdRLen, delivered, fault>>
           Hand == /\ dawnCmdRLen > 0 /\ Complete(Filled, dawnCmdRLen)
                   /\ Deliver(Filled, dawnCmdRLen, "doIO") /\ UNCHANGED fault
<1>4. CASE /\ rw' = (rw + Got) % RSize
           /\ UNCHANGED <<metaOut, cmdsOut, loop, flushed, sentMeta>>
           /\ More \/ Wait \/ Hand
  <2>1. rw' \in 0..RSize-1 /\ running' = running
    <3>1. rw + Got \in Nat /\ RSize \in Nat /\ RSize > 0
      <4>1. Got \in Nat /\ rw \in 0..RSize-1 /\ RSize \in Nat /\ RSize > 2
        BY ReadFacts, Sizes DEF RInv, ReceiveTypeOK
      <4>2. QED
        BY <4>1
    <3>2. QED
      BY <1>4, <3>1 DEF loop
  <2>2. ASSUME rbuf' = Filled, NEW pc \in PCs, Goto(pc), pc # "read",
               pc = "parse" \/ Len(Filled) < RSize - 1,
               UNCHANGED <<dawnCmdRLen, delivered, fault>>
        PROVE  RInv'
    <3>1. Frames(stack)' /\ stack' # << >> /\ Head(stack').pc = pc
      <4>1. "doIO" \in Vias
        BY DEF Vias
      <4>2. QED
        BY <1>1, <2>2, <4>1, GotoStack
    <3>2. ReceiveTypeOK'
      BY <1>1, <1>2, <2>1, <2>2, <3>1, ReadFacts DEF RInv, ReceiveTypeOK, Frames
    <3>3. Reading' /\ Room'
      BY <2>2, <3>1 DEF Reading, Room, Settled, Top
    <3>4. Window'
      BY <1>1, <1>2, <2>1, <2>2, ReadFacts DEF Window, EndsAt
    <3>5. QED
      BY <3>1, <3>2, <3>3, <3>4 DEF RInv
  <2>3. CASE More
    <3>1. "parse" \in PCs
      BY DEF PCs
    <3>2. QED
      BY <2>2, <2>3, <3>1
  <2>4. CASE Wait
    <3>1. "write" \in PCs
      BY DEF PCs
    <3>2. Len(Filled) < RSize - 1
      <4>1. Len(Filled) \in Nat /\ dawnCmdRLen \in 0..MAX
        BY ReadFacts DEF RInv, ReceiveTypeOK
      <4>2. QED
        BY <2>4, <4>1, Sizes DEF Complete
    <3>3. QED
      BY <2>2, <2>4, <3>1, <3>2
  <2>5. CASE Hand
    <3>1. dawnCmdRLen \in 0..MAX /\ dawnCmdRLen =< Len(Filled)
      BY <2>5, ReadFacts DEF RInv, ReceiveTypeOK, Complete
    <3>2. "doIO" \in Vias
      BY DEF Vias
    <3>3. running => EndsAt(Filled, Stream, taken')
      BY <1>1, ReadFacts
    <3>4. Filled \in Seq(Nat) /\ Len(Filled) < RSize
      BY ReadFacts
    <3>5. QED
      BY <1>1, <1>2, <2>1, <2>5, <3>1, <3>2, <3>3, <3>4, DeliverStep
  <2>6. QED
    BY <1>4, <2>3, <2>4, <2>5
<1>5. QED
  BY <1>3, <1>4 DEF doIORead

LEMMA ReturnStep ==
  ASSUME RInv, stack # << >>, Return, UNCHANGED <<reading, taken, script, delivered, arrived, peerOpen>>,
         fault' \in Faults, running' => running, running' => Settled
  PROVE  RInv'
<1>1. PICK st : st = Tail(stack)
  OBVIOUS
<1>2. Frames(st) /\ (st = << >> \/ Head(st).pc \in {"app", "return"})
  BY <1>1, ReturnStack DEF RInv
<1>3. Frames(stack)' /\ Reading'
  BY <1>1, <1>2 DEF Return, Frames, Reading, Top
<1>4. arrived' \in taken..Len(Stream) /\ peerOpen' \in BOOLEAN
  BY StreamType DEF RInv, ReceiveTypeOK
<1>5. QED
  BY <1>3, <1>4, QuietStep DEF reading

(* The activation that runs goes on at pc, outside readMsg or back in it.  *)
LEMMA GotoStep ==
  ASSUME RInv, stack # << >>, NEW pc \in PCs, Goto(pc), pc # "read",
         UNCHANGED <<rbuf, rw, taken, script, delivered, arrived, peerOpen, running>>,
         dawnCmdRLen' \in {dawnCmdRLen, 0}, fault' \in Faults,
         Settled \/ rbuf = << >>
  PROVE  RInv'
<1>1. Frames(stack)' /\ stack' # << >> /\ Head(stack').pc = pc
  <2>1. "doIO" \in Vias
    BY DEF Vias
  <2>2. QED
    BY <2>1, GotoStack DEF RInv
<1>2. Reading'
  BY <1>1 DEF Reading, Top
<1>3. arrived' \in taken..Len(Stream) /\ peerOpen' \in BOOLEAN
  BY StreamType DEF RInv, ReceiveTypeOK
<1>4. QED
  BY <1>1, <1>2, <1>3, QuietStep

(* A step that leaves stack and _rbuf alone.                               *)
LEMMA StillStep ==
  ASSUME RInv, UNCHANGED <<reading, stack, running, taken, script, delivered>>,
         fault' \in Faults, arrived' \in taken..Len(Stream), peerOpen' \in BOOLEAN
  PROVE  RInv'
<1>1. Frames(stack)' /\ Reading' /\ (Settled' => Settled)
  BY DEF RInv, Frames, Reading, Settled, Top
<1>2. QED
  BY <1>1, QuietStep DEF reading

LEMMA PollStep == RInv /\ (Poll \/ NestedPoll) => RInv'
<1> SUFFICES ASSUME RInv, Poll \/ NestedPoll PROVE RInv'
  OBVIOUS
<1>1. /\ running /\ Settled
      /\ UNCHANGED <<rbuf, rw, dawnCmdRLen, taken, script, delivered, arrived,
                     peerOpen, running, fault>>
  BY DEF Poll, NestedPoll, Settled, At, reading, peer, socket, program, loop
<1>2. PICK f \in Frame : f = Dispatch
  <2>1. Writable \in BOOLEAN
    BY DEF Writable
  <2>2. Dispatch \in Frame
    BY <2>1 DEF Dispatch, Frame
  <2>3. QED
    BY <2>2
<1>3. Frames(stack)' /\ Reading'
  <2>1. CASE Poll
    <3>1. Frames(<< >>)
      BY DEF Frames
    <3>2. Frames(<<f>>)
      BY <1>2 DEF Frames
    <3>3. stack' = <<f>> /\ running'
      BY <1>1, <1>2, <2>1 DEF Poll
    <3>4. QED
      BY <3>2, <3>3 DEF Frames, Reading
  <2>2. CASE NestedPoll
    <3>1. PICK st : st = Resumed
      OBVIOUS
    <3>2. Frames(st) /\ st # << >> /\ Head(st).pc \in {"app", "return"}
      BY <2>2, <3>1, ResumedStack DEF RInv, NestedPoll, At
    <3>3. CASE stack' = st
      BY <1>1, <3>2, <3>3 DEF Frames, Reading, Top
    <3>4. CASE stack' = <<f>> \o st
      <4>1. PICK new : new = <<f>> \o st
        OBVIOUS
      <4>2. Frames(new)
        BY <3>2, <4>1, CallStack
      <4>3. QED
        BY <1>1, <3>4, <4>1, <4>2 DEF Frames, Reading
    <3>5. QED
      BY <1>2, <2>2, <3>1, <3>3, <3>4 DEF NestedPoll
  <2>3. QED
    BY <2>1, <2>2
<1>4. arrived' \in taken..Len(Stream) /\ peerOpen' \in BOOLEAN /\ fault' \in Faults
  BY <1>1, StreamType DEF RInv, ReceiveTypeOK, Faults
<1>5. QED
  BY <1>1, <1>3, <1>4, QuietStep

LEMMA DawnCmdStep == RInv /\ readMsgDawnCmd => RInv'
<1> SUFFICES ASSUME RInv, readMsgDawnCmd PROVE RInv'
  OBVIOUS
<1> DEFINE n == rbuf[2]
           rest == SubSeq(rbuf, HDR + 1, Len(rbuf))
<1>1. /\ At("parse") /\ stack # << >>
      /\ UNCHANGED <<taken, script, arrived, peerOpen, running>>
  BY DEF readMsgDawnCmd, Parsing, At, loop, peer, socket
<1>2. /\ arrived' \in taken..Len(Stream) /\ peerOpen' \in BOOLEAN
      /\ HDR \in Nat /\ rbuf \in Seq(Nat) /\ fault \in Faults /\ taken \in 0..arrived
      /\ rw \in 0..RSize-1
  BY <1>1, StreamType, Sizes DEF RInv, ReceiveTypeOK, Faults
<1>3. CASE UNCHANGED <<reading, program, stack>> /\ fault' \in {fault, "assert_rlen"}
  <2>1. fault' \in Faults
    BY <1>2, <1>3 DEF Faults
  <2>2. QED
    BY <1>1, <1>2, <1>3, <2>1, StillStep DEF program
<1>4. CASE /\ AssertRLen(n) /\ Len(rbuf) >= HDR
           /\ rbuf' = rest /\ dawnCmdRLen' = n /\ UNCHANGED <<rw, program, stack, fault>>
  <2>1. n \in Nat
    BY <1>2, <1>4, Sizes
  <2>2. dawnCmdRLen' \in 0..MAX
    BY <1>4, <2>1, Sizes DEF AssertRLen
  <2>3. QED
    BY <1>1, <1>2, <1>4, <2>2, DiscardStep DEF program
<1>5. CASE /\ AssertRLen(n) /\ Complete(rest, n) /\ Len(rbuf) >= HDR
           /\ Deliver(rest, n, "readMsg") /\ UNCHANGED <<rw, flushed, sentMeta, fault>>
  <2>1. rest \in Seq(Nat) /\ Len(rest) \in Nat /\ Len(rest) =< Len(rbuf)
    <3>1. rest \in Seq(Nat) /\ Len(rest) =< Len(rbuf)
      BY <1>2, DropPrefix
    <3> HIDE DEF rest
    <3>2. QED
      BY <3>1
  <2>2. Len(rest) < RSize
    <3>1. Len(rbuf) \in Nat /\ Len(rbuf) < RSize /\ RSize \in Nat
      BY <1>2, Sizes DEF RInv, ReceiveTypeOK
    <3>2. QED
      BY <2>1, <3>1
  <2>3. n \in 0..MAX /\ n > 0 /\ n =< Len(rest)
    <3>1. n \in Nat
      BY <1>2, <1>5, Sizes
    <3>2. QED
      BY <1>5, <2>1, <3>1, Sizes DEF AssertRLen, Complete
  <2>4. running => EndsAt(rest, Stream, taken')
    <3>1. Stream \in Seq(Nat) /\ taken \in 0..Len(Stream)
      BY StreamType DEF RInv
    <3>2. running => EndsAt(rest, Stream, taken)
      BY <1>2, <3>1, DropFromPart DEF RInv, Window
    <3>3. QED
      BY <1>1, <3>2
  <2>5. "readMsg" \in Vias
    BY DEF Vias
  <2>6. rw' \in 0..RSize-1 /\ taken' \in 0..arrived
    BY <1>1, <1>2, <1>5
  <2>7. QED
    BY <1>1, <1>5, <2>1, <2>2, <2>3, <2>4, <2>5, <2>6, DeliverStep
<1>6. QED
  BY <1>3, <1>4, <1>5 DEF readMsgDawnCmd, program

(* Every step keeps the invariant. *)
LEMMA ReceiveStep == RInv /\ [Next]_vars => RInv'
<1> SUFFICES ASSUME RInv, [Next]_vars PROVE RInv'
  OBVIOUS
<1>1. /\ arrived \in taken..Len(Stream) /\ peerOpen \in BOOLEAN /\ fault \in Faults
      /\ {"assert_flush", "terminate", "null_loop", "overflow", "sigpipe"} \subseteq Faults
  BY StreamType DEF RInv, ReceiveTypeOK, Faults
<1>2. CASE doIORead BY <1>2, ReadStep
<1>3. CASE readMsgDone
  <2>1. "write" \in PCs
    BY DEF PCs
  <2>2. QED
    BY <1>1, <1>3, <2>1, GotoStep
    DEF readMsgDone, At, reading, peer, socket, program, loop
<1>4. ASSUME NEW k \in Nat, At("parse"), Discard(k),
             fault' \in {fault, "terminate"},
             UNCHANGED <<rw, dawnCmdRLen, loop, peer, socket, program, stack>>
      PROVE  RInv'
  <2>1. dawnCmdRLen' \in 0..MAX
    BY <1>4 DEF RInv, ReceiveTypeOK
  <2>2. fault' \in Faults
    BY <1>1, <1>4
  <2>3. QED
    BY <1>4, <2>1, <2>2, DiscardStep DEF Discard, loop, peer, socket, program
<1>5. CASE readMsgFbInfo \/ readMsgReservation \/ readMsgFrameSignal
  <2>1. FbInfoSize + 1 \in Nat /\ ReservationSize + 1 \in Nat /\ 1 \in Nat
    BY ProtocolAssumption
  <2>2. QED
    BY <1>4, <1>5, <2>1
    DEF readMsgFbInfo, readMsgReservation, readMsgFrameSignal, Parsing, Callback
<1>6. CASE readMsgDawnCmd BY <1>6, DawnCmdStep
<1>7. CASE readMsgUnexpected
  BY <1>1, <1>7, ReturnStep
  DEF readMsgUnexpected, stop, At, peer, socket, program
<1>8. CASE doIONoWrite \/ doIOFlushMore \/ doIODrain \/ doIODrainError
  <2>1. /\ stack # << >> /\ Settled /\ Return
        /\ UNCHANGED <<reading, taken, script, delivered, arrived, peerOpen>>
        /\ running' => running
    BY <1>8
    DEF doIONoWrite, doIOFlushMore, doIODrain, doIODrainError, At, Settled, loop,
        peer, socket, program
  <2>2. fault' \in {fault, "null_loop"}
    BY <1>8 DEF doIONoWrite, doIOFlushMore, doIODrain, doIODrainError
  <2>3. fault' \in Faults
    BY <1>1, <2>2
  <2>4. QED
    BY <2>1, <2>3, ReturnStep
<1>9. ASSUME NEW kind \in Faults, Fail(kind) PROVE RInv'
  BY <1>1, <1>9, StillStep DEF Fail, loop, peer, socket, program
<1>10. CASE doIOWriteClosed \/ FlushTooEarly \/ NestedPollStopped
  BY <1>1, <1>9, <1>10 DEF doIOWriteClosed, FlushTooEarly, NestedPollStopped
<1>11. ASSUME NEW size \in CmdSizes, GetCmdSpace(size) PROVE RInv'
  <2>1. fault' \in Faults
    BY <1>1, <1>11 DEF GetCmdSpace
  <2>2. QED
    BY <1>1, <1>11, <2>1, StillStep DEF GetCmdSpace, loop, peer, socket, program
<1>12. CASE sendFrameSignal \/ sendFramebufferInfo \/ sendReservation
  BY <1>1, <1>12, StillStep
  DEF sendFrameSignal, sendFramebufferInfo, sendReservation, send, peer, socket
<1>13. CASE Flush
  <2>1. /\ stack # << >> /\ Settled
        /\ UNCHANGED <<rbuf, rw, dawnCmdRLen, taken, script, delivered, arrived,
                       peerOpen, running, fault>>
    BY <1>13 DEF Flush, At, Settled, reading, peer, socket
  <2>2. PICK pc \in PCs : Goto(pc) /\ pc # "read"
    <3>1. "poll" \in PCs /\ (IF Server THEN "return" ELSE "app") \in PCs \ {"read"}
      BY DEF PCs
    <3>2. Goto("poll") \/ Goto(IF Server THEN "return" ELSE "app")
      BY <1>13 DEF Flush, Goto, Resumed
    <3>3. QED
      BY <3>1, <3>2
  <2>3. QED
    BY <1>1, <2>1, <2>2, GotoStep
<1>14. CASE ReturnFromApp
  <2>1. /\ stack # << >> /\ Settled
        /\ UNCHANGED <<rbuf, rw, taken, script, delivered, arrived, peerOpen,
                       running, fault>>
    BY <1>14 DEF ReturnFromApp, At, Settled, peer, socket, program, loop
  <2>2. CASE Return /\ UNCHANGED dawnCmdRLen
    BY <1>1, <2>1, <2>2, ReturnStep DEF reading
  <2>3. CASE ResetRLen /\ (Goto("parse") \/ Goto("write"))
    <3>1. {"parse", "write"} \subseteq PCs
      BY DEF PCs
    <3>2. QED
      BY <1>1, <2>1, <2>3, <3>1, GotoStep DEF ResetRLen
  <2>4. QED
    BY <1>14, <2>2, <2>3 DEF ReturnFromApp
<1>15. CASE Poll \/ NestedPoll BY <1>15, PollStep
<1>16. ASSUME NEW k \in 1..Len(Stream), Arrive(k) PROVE RInv'
  <2>1. arrived' \in taken..Len(Stream)
    BY <1>1, <1>16, StreamType DEF Arrive, RInv
  <2>2. QED
    BY <1>1, <1>16, <2>1, StillStep DEF Arrive, loop, socket, program
<1>17. CASE (\E k \in 1..OutCap : PeerRead(k)) \/ PeerClose
  BY <1>1, <1>17, StillStep DEF PeerRead, PeerClose, loop, peer, socket, program
<1>18. CASE UNCHANGED vars
  BY <1>1, <1>18, StillStep DEF vars, reading
<1>19. QED
  BY <1>2, <1>3, <1>5, <1>6, <1>7, <1>8, <1>10, <1>11, <1>12, <1>13, <1>14, <1>15,
     <1>16, <1>17, <1>18
  DEF Next, doIO, App, Loop, Environment

LEMMA ReceiveInit == Init => RInv
<1> SUFFICES ASSUME Init PROVE RInv
  OBVIOUS
<1>1. Stream \in Seq(Nat) /\ Len(Stream) \in Nat
  BY ScriptType, FlattenType DEF Init, Stream
<1>2. rbuf \in Seq(Nat) /\ Len(rbuf) = 0
  BY DEF Init
<1>3. Frames(stack) /\ (stack # << >> => Top.pc = "app")
  <2>1. CASE stack = << >>
    BY <2>1 DEF Frames
  <2>2. CASE stack = <<[pc |-> "app", wr |-> FALSE, via |-> "main"]>>
    BY <2>2 DEF Frames, Frame, Top
  <2>3. QED
    BY <2>1, <2>2 DEF Init
<1>4. ReceiveTypeOK
  <2>1. 0 \in 0..MAX /\ 0 \in 0..RSize-1 /\ Len(rbuf) < RSize
    BY <1>2, Sizes
  <2>2. taken \in 0..arrived /\ arrived \in 0..Len(Stream)
    BY <1>1 DEF Init
  <2>3. QED
    BY <1>2, <1>3, <2>1, <2>2 DEF Init, ReceiveTypeOK, Frames, Faults
<1>5. EndsAt(rbuf, Stream, taken)
  BY DEF Init, EndsAt
<1>6. Reading /\ Room
  BY <1>2, <1>3, Sizes DEF Reading, Room
<1>7. QED
  BY <1>3, <1>4, <1>5, <1>6 DEF RInv, Window

LEMMA ReceiveInv == Spec => []RInv
BY ReceiveInit, ReceiveStep, PTL DEF Spec
-----------------------------------------------------------------------------
(* Bytes of _wbuf are recorded where the wire ends, and the wire grows.    *)
MetaOnWire == metaAt \subseteq 0..Len(wire)

LEMMA MetaStep == SendTypeOK /\ MetaOnWire /\ [Next]_vars => MetaOnWire'
<1> SUFFICES ASSUME SendTypeOK, MetaOnWire, [Next]_vars PROVE MetaOnWire'
  OBVIOUS
<1>1. Len(wire) \in Nat /\ wire \in Seq(Nat)
  BY DEF SendTypeOK
<1>2. CASE UNCHANGED <<wire, metaAt>>
  BY <1>2 DEF MetaOnWire
<1>3. ASSUME NEW n \in 0..Len(Unsent), WriteOut(n)
      PROVE  Len(wire') \in Nat /\ Len(wire) =< Len(wire')
  <2>1. PICK part \in Seq(Nat) : part = SubSeq(Unsent, 1, n)
    <3>1. Unsent \in Seq(Nat)
      BY UnsentType
    <3>2. SubSeq(Unsent, 1, n) \in Seq(Nat)
      BY <3>1
    <3>3. QED
      BY <3>2
  <2>2. wire' = wire \o part
    BY <1>3, <2>1 DEF WriteOut
  <2>3. Len(wire') = Len(wire) + Len(part)
    BY <1>1, <2>2, ConcatProperties
  <2>4. QED
    BY <1>1, <2>1, <2>3
<1>4. CASE doIOFlushMore
  <2>1. CASE room < Len(Unsent) /\ WriteOut(room)
    <3>1. room \in 0..Len(Unsent)
      BY <2>1, UnsentType, ProtocolAssumption DEF SendTypeOK
    <3>2. QED
      BY <1>1, <1>3, <1>4, <2>1, <3>1 DEF doIOFlushMore, MetaOnWire
  <2>2. QED
    BY <1>2, <1>4, <2>1 DEF doIOFlushMore
<1>5. CASE doIODrain \/ doIODrainError
  <2>1. Len(Unsent) \in 0..Len(Unsent) /\ WriteOut(Len(Unsent))
    BY <1>5, UnsentType DEF doIODrain, doIODrainError
  <2>2. Len(wire') \in Nat /\ Len(wire) =< Len(wire')
    BY <1>3, <2>1
  <2>3. metaAt' \subseteq metaAt \union {Len(wire')}
    BY <1>5 DEF doIODrain, doIODrainError
  <2>4. QED
    BY <1>1, <2>2, <2>3 DEF MetaOnWire
<1>6. QED
  BY <1>2, <1>4, <1>5
  DEF Next, doIO, App, Loop, Environment, doIORead, readMsgDone, readMsgFbInfo,
      readMsgReservation, readMsgFrameSignal, readMsgDawnCmd, readMsgUnexpected,
      doIONoWrite, doIOWriteClosed, GetCmdSpace, Flush, FlushTooEarly,
      sendFrameSignal, sendFramebufferInfo, sendReservation, send, ReturnFromApp,
      Poll, NestedPoll, NestedPollStopped, Arrive, PeerRead, PeerClose, Fail,
      socket, vars

(* Every field stays in its domain, in any nesting of handlers: _rbuf and  *)
(* _wbuf never overflow, and flushoffs stays within the command buffer.    *)
THEOREM TypeCorrect == Spec => []TypeOK
<1>1. Init => MetaOnWire
  BY DEF Init, MetaOnWire
<1>2. Spec => []MetaOnWire
  BY <1>1, MetaStep, SendTypeCorrect, PTL DEF Spec
<1>3. SendTypeOK /\ MetaOnWire /\ RInv => TypeOK
  BY DEF TypeOK, MetaOnWire, RInv
<1>4. QED
  BY <1>2, <1>3, SendTypeCorrect, ReceiveInv, PTL

(* Whenever doIO reads there is room in _rbuf, so that a read of no bytes  *)
(* means that the peer is gone, for buffers of any size.                   *)
THEOREM NeverReadsIntoFull == Spec => []RoomToRead
<1>1. RInv => RoomToRead
  <2> SUFFICES ASSUME RInv, At("read") PROVE Free > 0
    BY DEF RoomToRead
  <2>1. running /\ Settled
    BY DEF RInv, Reading, At, Settled
  <2>2. Len(rbuf) \in Nat /\ Len(rbuf) < RSize - 1
    BY <2>1 DEF RInv, Room, ReceiveTypeOK
  <2>3. QED
    BY <2>2, Sizes DEF Free
<1>2. QED
  BY <1>1, ReceiveInv, PTL

(* While the endpoint is connected, no byte taken from the socket is       *)
(* missing between those waiting in _rbuf, however the stream is cut and   *)
(* readFromFD wraps.                                                       *)
THEOREM NoGap == Spec => []NoGapInRbuf
<1>1. RInv => NoGapInRbuf
  <2> SUFFICES ASSUME RInv, running
               PROVE  rbuf = SubSeq(Stream, taken - Len(rbuf) + 1, taken)
    BY DEF NoGapInRbuf
  <2>1. Stream \in Seq(Nat) /\ taken \in 0..Len(Stream)
    BY StreamType DEF RInv
  <2>2. EndsAt(rbuf, Stream, taken)
    BY DEF RInv, Window
  <2>3. QED
    BY <2>1, <2>2, EndsWithoutGap
<1>2. QED
  BY <1>1, ReceiveInv, PTL
-----------------------------------------------------------------------------
(* The command buffer in flushbuf has been flushed last, and no byte of it *)
(* is written.                                                             *)
Fresh == flushbuf # << >> /\ flushoffs = 0
LastFlushed == flushbuf # << >> => flushed # << >> /\ flushbuf = flushed[Len(flushed)]
Polling == stack # << >> /\ Top.pc = "poll"
Nesting ==
  /\ Len(stack) =< 2
  /\ Len(stack) = 2 => running /\ Fresh /\ ~Polling
  /\ Polling /\ running => Fresh

(* Whole command buffers are on the wire. *)
WholeAt(p, frames) ==
  \E k \in 0..Len(frames) : p = Len(FlattenSeq(SubSeq(frames, 1, k)))
StoppedWhole == ~running /\ stack # << >> => WholeAt(Len(wire), flushed)

(* Disconnected, a command buffer may still be flushed, but the loop that  *)
(* Flush calls next is not there any more.                                 *)
Quiet == ~running /\ flushbuf # << >> => fault # "none" \/ Polling

Sending == LastFlushed /\ Nesting /\ StoppedWhole /\ Quiet
-----------------------------------------------------------------------------
(* Sequences of bytes. *)

LEMMA PrefixOfConcat ==
  ASSUME NEW a \in Seq(Nat), NEW b \in Seq(Nat)
  PROVE  IsPrefix(a, a \o b)
<1>1. Len(a \o b) = Len(a) + Len(b) /\ Len(a) \in Nat /\ Len(b) \in Nat
  BY ConcatProperties
<1>2. SubSeq(a \o b, 1, Len(a)) = a /\ SubSeq(a, 1, Len(a)) = a
  OBVIOUS
<1>3. QED
  BY <1>1, <1>2 DEF IsPrefix

LEMMA PrefixOfLonger ==
  ASSUME NEW w \in Seq(Nat), NEW a \in Seq(Nat), NEW b \in Seq(Nat), IsPrefix(w, a)
  PROVE  IsPrefix(w, a \o b)
<1>1. /\ Len(w) \in Nat /\ Len(w) =< Len(a)
      /\ SubSeq(w, 1, Len(w)) = SubSeq(a, 1, Len(w))
  BY DEF IsPrefix
<1>2. Len(a \o b) = Len(a) + Len(b) /\ Len(a) \in Nat /\ Len(b) \in Nat
  BY ConcatProperties
<1>3. SubSeq(a \o b, 1, Len(w)) = SubSeq(a, 1, Len(w))
  BY <1>1
<1>4. QED
  BY <1>1, <1>2, <1>3 DEF IsPrefix

LEMMA SplitAt ==
  ASSUME NEW u \in Seq(Nat), NEW n \in 0..Len(u)
  PROVE  /\ SubSeq(u, 1, n) \in Seq(Nat) /\ SubSeq(u, n + 1, Len(u)) \in Seq(Nat)
         /\ SubSeq(u, 1, n) \o SubSeq(u, n + 1, Len(u)) = u
<1>1. 1 \in 1..Len(u) + 1 /\ n \in 1 - 1..Len(u) /\ Len(u) \in n..Len(u)
  OBVIOUS
<1>2. SubSeq(u, 1, n) \o SubSeq(u, n + 1, Len(u)) = SubSeq(u, 1, Len(u))
  BY <1>1, ConcatAdjacentSubSeq
<1>3. SubSeq(u, 1, Len(u)) = u
  BY SubSeqFull
<1>4. SubSeq(u, 1, n) \in Seq(Nat)
  BY <1>1
<1>5. SubSeq(u, n + 1, Len(u)) \in Seq(Nat)
  BY <1>1, DropPrefix
<1>6. QED
  BY <1>2, <1>3, <1>4, <1>5

(* Where the frames of a sequence end is not moved by one more of them.    *)
LEMMA StaysWhole ==
  ASSUME NEW frames \in Seq(Seq(Nat)), NEW x \in Seq(Nat), NEW p, WholeAt(p, frames)
  PROVE  WholeAt(p, Append(frames, x))
<1>1. PICK k \in 0..Len(frames) : p = Len(FlattenSeq(SubSeq(frames, 1, k)))
  BY DEF WholeAt
<1>2. SubSeq(Append(frames, x), 1, k) = SubSeq(frames, 1, k)
  OBVIOUS
<1>3. k \in 0..Len(Append(frames, x))
  OBVIOUS
<1>4. QED
  BY <1>1, <1>2, <1>3 DEF WholeAt

LEMMA AllIsWhole ==
  ASSUME NEW frames \in Seq(Seq(Nat))
  PROVE  WholeAt(Len(FlattenSeq(frames)), frames)
<1>1. SubSeq(frames, 1, Len(frames)) = frames /\ Len(frames) \in 0..Len(frames)
  BY SubSeqFull
<1>2. QED
  BY <1>1 DEF WholeAt

(* What comes before the last frame is whole frames.                       *)
LEMMA WholeBeforeLast ==
  ASSUME NEW frames \in Seq(Seq(Nat)), frames # << >>, NEW w \in Seq(Nat),
         w \o frames[Len(frames)] = FlattenSeq(frames)
  PROVE  WholeAt(Len(w), frames)
<1>1. Len(frames) \in 1..Len(frames) /\ Len(frames) - 1 \in 0..Len(frames)
  BY EmptySeq
<1>2. PICK x \in Seq(Nat) : x = frames[Len(frames)]
  BY <1>1, ElementOfSeq
<1>3. SubSeq(frames, 1, Len(frames)) = frames
  BY SubSeqFull
<1>4. FlattenSeq(SubSeq(frames, 1, Len(frames))) = FlattenSeq(SubSeq(frames, 1, Len(frames) - 1)) \o frames[Len(frames)]
  BY <1>1, FlattenPrefixStep
<1>5. PICK before \in Seq(Nat) : before = FlattenSeq(SubSeq(frames, 1, Len(frames) - 1))
  BY <1>1, FlattenPrefixType
<1>6. w \o x = before \o x
  BY <1>2, <1>3, <1>4, <1>5
<1>7. Len(w) + Len(x) = Len(before) + Len(x) /\ Len(w) \in Nat /\ Len(before) \in Nat /\ Len(x) \in Nat
  <2>1. Len(w \o x) = Len(w) + Len(x) /\ Len(before \o x) = Len(before) + Len(x)
    BY ConcatProperties
  <2>2. QED
    BY <1>6, <2>1
<1>8. Len(w) = Len(before)
  BY <1>7
<1>9. QED
  BY <1>1, <1>5, <1>8 DEF WholeAt
-----------------------------------------------------------------------------
(* Every step of the endpoint accepts a frame, emits bytes of the last     *)
(* one, gives the channel up, or is none of the channel's.                 *)
LEMMA ChannelStep == SendTypeOK /\ Quiet /\ [Next]_vars => [Channel!Next]_(Channel!vars)
<1> SUFFICES ASSUME SendTypeOK, Quiet, [Next]_vars
             PROVE  Channel!Next \/ UNCHANGED Channel!vars
  OBVIOUS
<1>1. /\ Unsent \in Seq(Nat) /\ Len(Unsent) \in Nat
      /\ flushbuf = << >> => Unsent = << >>
      /\ flushbuf # << >> => Len(Unsent) > 0
      /\ flushbuf \in Seq(Nat) /\ wire \in Seq(Nat) /\ room \in Nat
  <2>1. Unsent \in Seq(Nat) BY UnsentType
  <2>2. flushbuf \in Seq(Nat) /\ wire \in Seq(Nat) BY DEF SendTypeOK
  <2>3. OutCap \in Nat BY ProtocolAssumption
  <2>4. room \in Nat BY <2>3 DEF SendTypeOK
  <2>5. QED BY <2>1, <2>2, <2>4, UnsentType
<1>2. flushbuf' = << >> => Unsent' = << >>
  BY DEF Unsent, flushlen
<1>3. CASE UNCHANGED <<flushed, flushbuf, flushoffs, wire, running>>
  BY <1>3 DEF Unsent, flushlen, Channel!vars
<1>4. CASE stop /\ UNCHANGED <<flushed, wire>>
  BY <1>2, <1>4 DEF stop, Channel!Next, Channel!GiveUp
<1>5. CASE Flush
  <2>1. CASE UNCHANGED <<cmdsOut, flushed>>
    BY <1>3, <1>5, <2>1 DEF Flush, cmdsOut, socket
  <2>2. CASE Len(writebuf) > HDR
    <3> DEFINE frame == DawnCmd(SubSeq(writebuf, HDR + 1, Len(writebuf)))
    <3>1. HDR \in Nat /\ HDR > 1 BY ProtocolAssumption
    <3>2. frame \in Seq(Nat) /\ Len(frame) >= HDR
      <4> DEFINE body == SubSeq(writebuf, HDR + 1, Len(writebuf))
      <4>1. body \in Seq(Nat) BY BodyType
      <4>2. Len(body) \in Nat BY <4>1
      <4> HIDE DEF body
      <4>3. DawnCmd(body) \in Seq(Nat) /\ Len(DawnCmd(body)) = HDR + Len(body)
        BY <4>1, DawnCmdType
      <4>4. QED BY <3>1, <4>2, <4>3 DEF body
    <3>3. /\ flushlen = 0 /\ UNCHANGED <<wire, running>>
          /\ flushbuf' = frame /\ flushed' = Append(flushed, frame) /\ flushoffs' = 0
      BY <1>5, <2>2 DEF Flush, DonePrevious, socket
    <3> HIDE DEF frame
    <3>4. Unsent = << >> BY <1>1, <3>3 DEF flushlen
    <3>5. Unsent' = frame
      <4>1. Unsent' = SubSeq(frame, 1, Len(frame)) BY <3>3 DEF Unsent, flushlen
      <4>2. QED BY <3>2, <4>1
    <3>6. frame # << >> BY <3>1, <3>2
    <3>7. QED BY <3>3, <3>4, <3>5, <3>6 DEF Channel!Next, Channel!Accept
  <2>3. QED BY <1>5, <2>1, <2>2 DEF Flush
<1>6. CASE doIOFlushMore
  <2>1. UNCHANGED <<flushed, flushbuf, running>>
    BY <1>6 DEF doIOFlushMore, loop, program
  <2>2. CASE UNCHANGED <<wire, flushoffs>> BY <1>3, <2>1, <2>2
  <2>3. CASE room < Len(Unsent) /\ WriteOut(room)
    <3>1. room \in 0..Len(Unsent) BY <1>1, <2>3
    <3>2. Unsent' = SubSeq(Unsent, room + 1, Len(Unsent))
      BY <2>1, <2>3, <3>1, UnsentAfterWrite
    <3>3. CASE room = 0
      <4>1. wire' = wire BY <1>1, <2>3, <3>3 DEF WriteOut
      <4>2. Unsent' = Unsent BY <1>1, <3>2, <3>3
      <4>3. QED BY <2>1, <4>1, <4>2 DEF Channel!vars
    <3>4. CASE room # 0
      <4>1. room \in 1..Len(Unsent) BY <1>1, <3>1, <3>4
      <4>2. wire' = wire \o SubSeq(Unsent, 1, room) BY <2>3 DEF WriteOut
      <4>3. running
        BY <1>1, <1>6, <2>3 DEF doIOFlushMore, Quiet, Polling, At
      <4>4. Channel!Emit(room) BY <2>1, <3>2, <4>2, <4>3 DEF Channel!Emit
      <4>5. QED BY <4>1, <4>4 DEF Channel!Next
    <3>5. QED BY <3>3, <3>4
  <2>4. QED BY <1>6, <2>2, <2>3 DEF doIOFlushMore
<1>7. CASE doIODrain \/ doIODrainError
  <2>1. /\ wire' = wire \o SubSeq(Unsent, 1, Len(Unsent))
        /\ flushbuf' = << >> /\ flushed' = flushed
        /\ running' = running \/ running' = FALSE
    BY <1>7 DEF doIODrain, doIODrainError, WriteOut, program
  <2>2. Unsent' = << >> BY <1>2, <2>1
  <2>3. SubSeq(Unsent, Len(Unsent) + 1, Len(Unsent)) = << >> BY <1>1
  <2>4. CASE Unsent = << >>
    <3>1. wire' = wire BY <1>1, <2>1, <2>4
    <3>2. QED BY <2>1, <2>2, <2>4, <3>1 DEF Channel!Next, Channel!GiveUp, Channel!vars
  <2>5. CASE Unsent # << >>
    <3>1. Len(Unsent) \in 1..Len(Unsent) BY <1>1, <2>5
    <3>2. running
      BY <1>1, <1>7, <2>5 DEF doIODrain, doIODrainError, Quiet, Polling, At
    <3>3. Channel!Emit(Len(Unsent)) BY <2>1, <2>2, <2>3, <3>2 DEF Channel!Emit
    <3>4. QED BY <3>1, <3>3 DEF Channel!Next
  <2>6. QED BY <2>4, <2>5
<1>8. ASSUME doIORead \/ readMsgDone \/ readMsgFbInfo \/ readMsgReservation
             \/ readMsgFrameSignal \/ readMsgDawnCmd \/ readMsgUnexpected
             \/ doIONoWrite \/ doIOWriteClosed
      PROVE  Channel!Next \/ UNCHANGED Channel!vars
  BY <1>3, <1>4, <1>8
  DEF doIORead, readMsgDone, readMsgFbInfo, readMsgReservation, readMsgFrameSignal,
      readMsgDawnCmd, readMsgUnexpected, doIONoWrite, doIOWriteClosed, Deliver, Fail,
      cmdsOut, loop, socket, program
<1>9. ASSUME FlushTooEarly \/ ReturnFromApp \/ Loop \/ Environment \/ UNCHANGED vars
      PROVE  Channel!Next \/ UNCHANGED Channel!vars
  BY <1>3, <1>9
  DEF FlushTooEarly, ReturnFromApp, Loop, Poll, NestedPoll, NestedPollStopped,
      Environment, PeerRead, PeerClose, Arrive, Fail, cmdsOut, loop, socket,
      program, vars
<1>10. ASSUME (\E size \in CmdSizes : GetCmdSpace(size)) \/ sendFrameSignal
              \/ sendFramebufferInfo \/ sendReservation
       PROVE  Channel!Next \/ UNCHANGED Channel!vars
  BY <1>3, <1>10
  DEF GetCmdSpace, sendFrameSignal, sendFramebufferInfo, sendReservation, send,
      cmdsOut, loop, socket, program
<1>11. QED BY <1>5, <1>6, <1>7, <1>8, <1>9, <1>10 DEF Next, doIO, App


LEMMA UnsentAfter ==
  ASSUME SendTypeOK' PROVE Unsent' \in Seq(Nat)
<1>1. PICK buf \in Seq(Nat), n \in Nat : buf = flushbuf' /\ n = flushoffs'
  BY DEF SendTypeOK
<1>2. SubSeq(buf, n + 1, Len(buf)) \in Seq(Nat)
  BY DropPrefix
<1>3. QED
  BY <1>1, <1>2 DEF Unsent, flushlen

(* Whatever the channel does, what it has emitted is in order.             *)
LEMMA InOrderStep ==
  ASSUME SendTypeOK, SendTypeOK', FramesInOrder, [Channel!Next]_(Channel!vars)
  PROVE  FramesInOrder'
<1> DEFINE all == FlattenSeq(flushed)
<1>1. /\ Unsent \in Seq(Nat) /\ wire \in Seq(Nat) /\ flushed \in Seq(Seq(Nat))
      /\ running \in BOOLEAN
  BY UnsentType DEF SendTypeOK
<1>2. all \in Seq(Nat)
  BY <1>1, FlattenType
<1>3. CASE UNCHANGED Channel!vars
  BY <1>3 DEF Channel!vars, FramesInOrder
<1>4. CASE Channel!Accept
  <2>1. PICK x \in Seq(Nat) : x = Unsent'
    BY UnsentAfter
  <2>2. FlattenSeq(flushed') = all \o x
    BY <1>1, <1>4, <2>1, FlattenAppend DEF Channel!Accept
  <2>3. CASE running
    <3>1. wire = all
      <4>1. wire \o << >> = wire
        BY <1>1, ConcatEmptySeq
      <4>2. QED
        BY <1>4, <2>3, <4>1 DEF Channel!Accept, FramesInOrder
    <3>2. QED
      BY <1>4, <2>1, <2>2, <2>3, <3>1 DEF Channel!Accept, FramesInOrder
  <2>4. CASE ~running
    <3>1. IsPrefix(wire, all)
      BY <2>4 DEF FramesInOrder
    <3>2. IsPrefix(wire, all \o x)
      BY <1>1, <1>2, <3>1, PrefixOfLonger
    <3>3. QED
      BY <1>4, <2>2, <2>4, <3>2 DEF Channel!Accept, FramesInOrder
  <2>5. QED
    BY <2>3, <2>4
<1>5. ASSUME NEW n \in 1..Len(Unsent), Channel!Emit(n) PROVE FramesInOrder'
  <2>0. PICK u \in Seq(Nat) : u = Unsent /\ n \in 0..Len(u)
    BY <1>1
  <2>1. PICK p \in Seq(Nat), q \in Seq(Nat) :
          p = SubSeq(Unsent, 1, n) /\ q = SubSeq(Unsent, n + 1, Len(Unsent))
    BY <2>0, SplitAt
  <2>2. p \o q = Unsent
    BY <2>0, <2>1, SplitAt
  <2>3. (wire \o p) \o q = wire \o (p \o q)
    <3>1. wire \in Seq(Nat)
      BY <1>1
    <3>2. QED
      BY <3>1, BytesAssociative
  <2>4. running /\ wire' = wire \o p /\ Unsent' = q /\ flushed' = flushed
    BY <1>5, <2>1 DEF Channel!Emit
  <2>5. wire' \o Unsent' = all
    BY <2>2, <2>3, <2>4 DEF FramesInOrder
  <2>6. IsPrefix(wire', wire' \o Unsent')
    <3>1. wire \o p \in Seq(Nat)
      BY <1>1, ConcatProperties
    <3>2. QED
      BY <2>4, <3>1, PrefixOfConcat
  <2>7. QED
    BY <2>4, <2>5, <2>6 DEF FramesInOrder
<1>6. CASE Channel!GiveUp
  <2>1. IsPrefix(wire, all)
    BY <1>1, PrefixOfConcat DEF FramesInOrder
  <2>2. QED
    BY <1>6, <2>1 DEF Channel!GiveUp, FramesInOrder
<1>7. QED
  BY <1>3, <1>4, <1>5, <1>6 DEF Channel!Next
-----------------------------------------------------------------------------
(* The steps, by what they do to the stack. *)

Sent == <<flushed, flushbuf, flushoffs, wire, running>>

LEMMA StaySending ==
  ASSUME Sending, UNCHANGED <<Sent, stack>>, fault # "none" => fault' # "none"
  PROVE  Sending'
<1>1. LastFlushed' /\ StoppedWhole'
  BY DEF Sending, LastFlushed, StoppedWhole, Sent
<1>2. Nesting' /\ Quiet'
  BY DEF Sending, Nesting, Quiet, Polling, Fresh, Top, Sent
<1>3. QED
  BY <1>1, <1>2 DEF Sending

(* The activation that runs goes on, anywhere but in the loop.             *)
LEMMA GoOnSending ==
  ASSUME Sending, Frames(stack), stack # << >>, ~Polling, fault = "none",
         UNCHANGED Sent,
         NEW pc \in PCs \ {"poll"}, NEW via \in Vias,
         Goto(pc) \/ stack' = [stack EXCEPT ![1].pc = pc, ![1].via = via]
  PROVE  Sending'
<1>1. stack' # << >> /\ Top'.pc = pc /\ ~Polling'
  BY GotoStack DEF Top, Polling
<1>2. Len(stack') = Len(stack)
  BY DEF Frames, Goto
<1>3. LastFlushed' /\ StoppedWhole'
  BY DEF Sending, LastFlushed, StoppedWhole, Sent
<1>4. Nesting' /\ Quiet'
  BY <1>1, <1>2 DEF Sending, Nesting, Quiet, Fresh, Sent
<1>5. QED
  BY <1>3, <1>4 DEF Sending

(* An activation returns.                                                  *)
LEMMA ReturnSending ==
  ASSUME Sending, Frames(stack), stack # << >>, Return, flushed' = flushed,
         flushbuf' \in {flushbuf, << >>}, ~running' => flushbuf' = << >>,
         ~running' /\ Len(stack) = 2 => WholeAt(Len(wire'), flushed)
  PROVE  Sending'
<1>1. /\ stack \in Seq(Frame) /\ Len(stack) \in {1, 2}
      /\ stack' \in Seq(Frame) /\ Len(stack') = Len(stack) - 1
  <2>1. stack \in Seq(Frame) /\ Len(stack) \in Nat /\ Len(stack) =< 2
    BY DEF Frames, Sending, Nesting
  <2>2. Len(stack) # 0
    BY <2>1, EmptySeq
  <2>3. Tail(stack) \in Seq(Frame) /\ Len(Tail(stack)) = Len(stack) - 1
    BY <2>1, HeadTailProperties
  <2>4. QED
    BY <2>1, <2>2, <2>3 DEF Return
<1>2. ~Polling'
  <2>1. PICK st : st = Tail(stack)
    OBVIOUS
  <2>2. st = << >> \/ Head(st).pc \in {"app", "return"}
    BY <2>1, ReturnStack
  <2>3. QED
    BY <2>1, <2>2 DEF Return, Polling, Top
<1>3. Nesting' /\ Quiet'
  <2>1. PICK n : n = Len(stack)
    OBVIOUS
  <2>2. n \in {1, 2} /\ Len(stack') = n - 1
    BY <1>1, <2>1
  <2>3. n - 1 =< 2 /\ n - 1 # 2
    BY <2>2
  <2>4. Len(stack') =< 2 /\ Len(stack') # 2
    BY <2>2, <2>3, Zenon
  <2>5. Nesting'
    BY <1>2, <2>4 DEF Nesting
  <2>6. QED
    BY <1>2, <2>5 DEF Quiet
<1>4. StoppedWhole'
  <2>1. stack' # << >> => Len(stack) = 2
    BY <1>1
  <2>2. QED
    BY <2>1 DEF StoppedWhole
<1>5. LastFlushed'
  BY DEF Sending, LastFlushed
<1>6. QED
  BY <1>3, <1>4, <1>5 DEF Sending

(* What is on the wire when the inner activation stops the connection.     *)
LEMMA StopIsWhole ==
  ASSUME Sending, SendTypeOK, FramesInOrder, Len(stack) = 2
  PROVE  WholeAt(Len(wire), flushed)
<1>1. running /\ flushbuf # << >> /\ flushoffs = 0
  BY DEF Sending, Nesting, Fresh
<1>2. flushbuf \in Seq(Nat) /\ wire \in Seq(Nat) /\ flushed \in Seq(Seq(Nat))
  BY DEF SendTypeOK
<1>3. flushed # << >> /\ flushbuf = flushed[Len(flushed)]
  BY <1>1 DEF Sending, LastFlushed
<1>4. Unsent = flushbuf
  <2>1. SubSeq(flushbuf, 1, Len(flushbuf)) = flushbuf
    BY <1>2, SubSeqFull
  <2>2. QED
    BY <1>1, <2>1 DEF Unsent, flushlen
<1>5. wire \o flushed[Len(flushed)] = FlattenSeq(flushed)
  BY <1>1, <1>3, <1>4 DEF FramesInOrder
<1>6. QED
  BY <1>2, <1>3, <1>5, WholeBeforeLast

(* With the command buffer written out, whole ones are on the wire.        *)
LEMMA DrainIsWhole ==
  ASSUME Sending, SendTypeOK, FramesInOrder, doIODrain \/ doIODrainError
  PROVE  WholeAt(Len(wire'), flushed)
<1>1. stack # << >> /\ ~Polling /\ fault = "none"
  BY DEF doIODrain, doIODrainError, At, Polling
<1>2. wire' = wire \o SubSeq(Unsent, 1, Len(Unsent))
  BY DEF doIODrain, doIODrainError, WriteOut
<1>3. wire' = wire \o Unsent
  <2>1. SubSeq(Unsent, 1, Len(Unsent)) = Unsent
    BY UnsentType, SubSeqFull
  <2>2. QED
    BY <1>2, <2>1
<1>4. CASE running
  <2>1. wire' = FlattenSeq(flushed)
    BY <1>3, <1>4 DEF FramesInOrder
  <2>2. QED
    BY <2>1, AllIsWhole DEF SendTypeOK
<1>5. CASE ~running
  <2>1. Unsent = << >> /\ wire \in Seq(Nat)
    BY <1>1, <1>5, UnsentType DEF Sending, Quiet, SendTypeOK
  <2>2. wire \o << >> = wire
    BY <2>1, ConcatEmptySeq
  <2>3. wire' = wire
    BY <1>3, <2>1, <2>2
  <2>4. QED
    BY <1>1, <1>5, <2>3 DEF Sending, StoppedWhole
<1>6. QED
  BY <1>4, <1>5

LEMMA WriteSending ==
  ASSUME Sending, SendTypeOK, FramesInOrder, Frames(stack),
         doIOFlushMore \/ doIODrain \/ doIODrainError
  PROVE  Sending'
<1>1. stack # << >> /\ ~Polling /\ fault = "none" /\ Return /\ flushed' = flushed
  BY DEF doIOFlushMore, doIODrain, doIODrainError, At, Polling, program
<1>2. CASE doIOFlushMore
  <2>1. flushbuf # << >> /\ running' = running /\ flushbuf' = flushbuf
    BY <1>2 DEF doIOFlushMore, loop, flushlen
  <2>2. running
    BY <1>1, <2>1 DEF Sending, Quiet
  <2>3. QED
    BY <1>1, <2>1, <2>2, ReturnSending
<1>3. CASE doIODrain \/ doIODrainError
  <2>1. flushbuf' = << >>
    BY <1>3 DEF doIODrain, doIODrainError
  <2>2. WholeAt(Len(wire'), flushed)
    BY <1>3, DrainIsWhole
  <2>3. QED
    BY <1>1, <2>1, <2>2, ReturnSending
<1>4. QED
  BY <1>2, <1>3

LEMMA StopSending ==
  ASSUME Sending, SendTypeOK, FramesInOrder, Frames(stack), stack # << >>,
         stop, Return, UNCHANGED <<flushed, wire>>
  PROVE  Sending'
<1>1. Len(stack) = 2 => WholeAt(Len(wire'), flushed)
  BY StopIsWhole
<1>2. flushbuf' = << >>
  BY DEF stop
<1>3. QED
  BY <1>1, <1>2, ReturnSending

(* A command buffer that Flush takes.                                      *)
LEMMA FlushTakes ==
  ASSUME SendTypeOK, Flush, Len(writebuf) > HDR
  PROVE  \E frame \in Seq(Nat) :
           /\ frame # << >>
           /\ flushbuf' = frame /\ flushed' = Append(flushed, frame)
           /\ Len(frame) = Len(writebuf) /\ writebuf' = DawnCmdHeader(0)
           /\ flushoffs' = 0 /\ Goto("poll") /\ UNCHANGED <<wire, running>>
<1>1. HDR \in Nat /\ HDR > 1
  BY ProtocolAssumption
<1>2. PICK body \in Seq(Nat) :
        body = SubSeq(writebuf, HDR + 1, Len(writebuf)) /\ Len(body) = Len(writebuf) - HDR
  <2>1. writebuf \in Seq(Nat) /\ Len(writebuf) \in Nat
    BY DEF SendTypeOK
  <2>2. Len(SubSeq(writebuf, HDR + 1, Len(writebuf))) = Len(writebuf) - HDR
    BY <1>1, <2>1
  <2>3. QED
    BY <2>2, BodyType
<1>3. DawnCmd(body) \in Seq(Nat) /\ Len(DawnCmd(body)) = HDR + Len(body) /\ Len(body) \in Nat
  BY DawnCmdType
<1>4. DawnCmd(body) # << >>
  <2>1. Len(DawnCmd(body)) # 0
    BY <1>1, <1>3
  <2>2. QED
    BY <2>1
<1>5. /\ flushbuf' = DawnCmd(body) /\ flushed' = Append(flushed, DawnCmd(body))
      /\ writebuf' = DawnCmdHeader(0)
      /\ flushoffs' = 0 /\ Goto("poll") /\ UNCHANGED <<wire, running>>
  BY <1>1, <1>2 DEF Flush, socket
<1>6. Len(DawnCmd(body)) = Len(writebuf)
  <2>1. Len(writebuf) \in Nat
    BY DEF SendTypeOK
  <2>2. QED
    BY <1>1, <1>2, <1>3, <2>1
<1>7. QED
  BY <1>3, <1>4, <1>5, <1>6

LEMMA FlushSending ==
  ASSUME Sending, SendTypeOK, Frames(stack), Flush
  PROVE  Sending'
<1>1. stack # << >> /\ ~Polling /\ fault = "none" /\ flushbuf = << >>
  <2>1. flushlen = 0
    BY DEF Flush, DonePrevious
  <2>2. flushbuf = << >>
    BY <2>1, EmptySeq DEF flushlen, SendTypeOK
  <2>3. QED
    BY <2>2 DEF Flush, At, Polling
<1>2. CASE stack' = Resumed /\ UNCHANGED <<cmdsOut, flushed>>
  <2>1. (IF Server THEN "return" ELSE "app") \in PCs \ {"poll"} /\ "doIO" \in Vias
    BY DEF PCs, Vias
  <2>2. Goto(IF Server THEN "return" ELSE "app")
    BY <1>2 DEF Goto, Resumed
  <2>3. UNCHANGED Sent
    BY <1>2 DEF Flush, cmdsOut, socket, Sent
  <2>4. QED
    BY <1>1, <2>1, <2>2, <2>3, GoOnSending
<1>3. CASE Len(writebuf) > HDR
  <2>1. PICK frame \in Seq(Nat) :
           /\ frame # << >>
           /\ flushbuf' = frame /\ flushed' = Append(flushed, frame)
           /\ flushoffs' = 0 /\ Goto("poll") /\ UNCHANGED <<wire, running>>
    BY <1>3, FlushTakes
  <2>2. flushed \in Seq(Seq(Nat))
    BY DEF SendTypeOK
  <2>3. LastFlushed'
    <3>1. /\ Append(flushed, frame) # << >>
          /\ Append(flushed, frame)[Len(Append(flushed, frame))] = frame
      BY <2>2, AppendProperties
    <3>2. QED
      BY <2>1, <3>1 DEF LastFlushed
  <2>4. Polling'
    <3>1. "poll" \in PCs /\ "doIO" \in Vias
      BY DEF PCs, Vias
    <3>2. QED
      BY <1>1, <2>1, <3>1, GotoStack DEF Polling, Top
  <2>5. Len(stack') = Len(stack)
    BY <2>1 DEF Frames, Goto
  <2>6. Len(stack) =< 2 /\ Len(stack) # 2
    BY <1>1 DEF Sending, Nesting, Fresh
  <2>7. Nesting'
    BY <2>1, <2>5, <2>6 DEF Nesting, Fresh
  <2>8. StoppedWhole'
    <3>1. ~running => WholeAt(Len(wire), flushed)
      BY <1>1 DEF Sending, StoppedWhole
    <3>2. ~running => WholeAt(Len(wire), Append(flushed, frame))
      BY <2>2, <3>1, StaysWhole
    <3>3. QED
      BY <2>1, <3>2 DEF StoppedWhole
  <2>9. QED
    BY <2>3, <2>4, <2>7, <2>8 DEF Sending, Quiet
<1>4. QED
  BY <1>2, <1>3 DEF Flush, cmdsOut

LEMMA PollSending ==
  ASSUME Sending, RInv, Poll \/ NestedPoll
  PROVE  Sending'
<1>1. /\ running /\ running' /\ fault = "none" /\ UNCHANGED Sent
      /\ Frames(stack) /\ Dispatch.pc # "poll"
  BY DEF Poll, NestedPoll, RInv, loop, cmdsOut, socket, program, Sent, Dispatch, At
<1>2. LastFlushed' /\ StoppedWhole' /\ Quiet'
  BY <1>1 DEF Sending, LastFlushed, StoppedWhole, Quiet, Sent
<1>3. CASE Poll
  <2>1. Len(stack') = 1 /\ Head(stack') = Dispatch
    BY <1>3 DEF Poll
  <2>2. QED
    BY <1>1, <1>2, <2>1 DEF Sending, Nesting, Polling, Top
<1>4. CASE NestedPoll
  <2>1. Polling /\ Fresh /\ Fresh'
    BY <1>1, <1>4 DEF NestedPoll, At, Polling, Sending, Nesting, Fresh, Sent
  <2>2. Len(stack) = 1
    <3>1. Len(stack) \in Nat /\ Len(stack) # 0
      BY <1>1, <2>1, EmptySeq DEF Frames, Polling
    <3>2. Len(stack) =< 2 /\ Len(stack) # 2
      BY <2>1 DEF Sending, Nesting
    <3>3. PICK n : n = Len(stack)
      OBVIOUS
    <3>4. n \in Nat /\ n # 0 /\ n =< 2 /\ n # 2
      BY <3>1, <3>2, <3>3, Zenon
    <3>5. n = 1
      BY <3>4
    <3>6. QED
      BY <3>3, <3>5
  <2>3. PICK st : st = Resumed
    OBVIOUS
  <2>4. /\ Frames(st) /\ st # << >> /\ Head(st).pc \in {"app", "return"}
        /\ Len(st) = 1
    <3>1. Frames(st) /\ st # << >> /\ Head(st).pc \in {"app", "return"}
      BY <1>1, <2>1, <2>3, ResumedStack DEF Polling
    <3>2. Len(st) = 1
      BY <1>1, <2>2, <2>3 DEF Resumed, Frames
    <3>3. QED
      BY <3>1, <3>2
  <2>5. CASE stack' = st
    <3>1. Len(stack') = 1 /\ ~Polling'
      BY <2>4, <2>5 DEF Polling, Top
    <3>2. QED
      BY <1>2, <3>1 DEF Sending, Nesting
  <2>6. CASE stack' = <<Dispatch>> \o st
    <3>1. PICK f \in Frame : f = Dispatch
      <4>1. Writable \in BOOLEAN
        BY DEF Writable
      <4>2. Dispatch \in Frame
        BY <4>1 DEF Dispatch, Frame
      <4>3. QED
        BY <4>2
    <3>2. Len(stack') = 2 /\ Head(stack') = Dispatch
      <4>1. st \in Seq(Frame) /\ <<f>> \in Seq(Frame) /\ Len(<<f>>) = 1
        BY <2>4 DEF Frames
      <4>2. Len(<<f>> \o st) = 2
        BY <2>4, <4>1, ConcatProperties
      <4>3. Head(<<f>> \o st) = f
        BY <2>4, CallStack
      <4>4. QED
        BY <2>6, <3>1, <4>2, <4>3
    <3>3. ~Polling'
      BY <1>1, <3>2 DEF Polling, Top
    <3>4. QED
      BY <1>1, <1>2, <2>1, <3>2, <3>3 DEF Sending, Nesting
  <2>7. QED
    BY <1>4, <2>3, <2>5, <2>6 DEF NestedPoll
<1>5. QED
  BY <1>3, <1>4

LEMMA SendingStep ==
  ASSUME Sending, SendTypeOK, FramesInOrder, RInv, [Next]_vars
  PROVE  Sending'
<1>1. Frames(stack)
  BY DEF RInv
<1>2. CASE Poll \/ NestedPoll BY <1>2, PollSending
<1>3. CASE Flush BY <1>1, <1>3, FlushSending
<1>4. CASE doIOFlushMore \/ doIODrain \/ doIODrainError
  BY <1>1, <1>4, WriteSending
<1>5. ASSUME stop, Return, At("read") \/ At("parse"), UNCHANGED <<program, wire>>
      PROVE  Sending'
  BY <1>1, <1>5, StopSending DEF At, program
<1>6. ASSUME NEW pc \in {"app", "parse", "write"},
             At("read") \/ At("parse") \/ At("app") \/ At("return"),
             Goto(pc) \/ (\E via \in Vias : stack' = [stack EXCEPT ![1].pc = pc, ![1].via = via]),
             UNCHANGED <<cmdsOut, running, wire, flushed>>
      PROVE  Sending'
  <2>1. stack # << >> /\ ~Polling /\ fault = "none" /\ UNCHANGED Sent
    BY <1>6 DEF At, Polling, Sent, cmdsOut
  <2>2. pc \in PCs \ {"poll"} /\ "doIO" \in Vias
    BY DEF PCs, Vias
  <2>3. QED
    BY <1>1, <1>6, <2>1, <2>2, GoOnSending
<1>7. ASSUME stack # << >>, ~Polling, fault = "none", Return,
             UNCHANGED <<cmdsOut, running, wire, flushed>>
      PROVE  Sending'
  <2>1. ~running => flushbuf = << >> /\ WholeAt(Len(wire), flushed)
    BY <1>7 DEF Sending, Quiet, StoppedWhole
  <2>2. QED
    BY <1>1, <1>7, <2>1, ReturnSending DEF cmdsOut
<1>8. CASE doIORead
  <2>1. At("read") /\ UNCHANGED <<wire, metaAt>>
    BY <1>8 DEF doIORead
  <2>2. CASE stop /\ Return /\ UNCHANGED program
    BY <1>5, <2>1, <2>2
  <2>3. CASE (Goto("parse") \/ Goto("write")) /\ UNCHANGED <<cmdsOut, loop, flushed>>
    BY <1>6, <2>1, <2>3 DEF loop
  <2>4. CASE Deliver(Filled, dawnCmdRLen, "doIO") /\ UNCHANGED <<cmdsOut, loop, flushed>>
    BY <1>6, <2>1, <2>4 DEF loop, Deliver, Vias
  <2>5. QED
    BY <1>8, <2>2, <2>3, <2>4 DEF doIORead
<1>9. CASE readMsgDone
  BY <1>6, <1>9 DEF readMsgDone, loop, socket, program
<1>10. CASE readMsgUnexpected
  BY <1>5, <1>10 DEF readMsgUnexpected, socket
<1>11. CASE readMsgDawnCmd
  <2>1. At("parse") /\ UNCHANGED <<cmdsOut, loop, socket>>
    BY <1>11 DEF readMsgDawnCmd, Parsing
  <2>2. CASE UNCHANGED <<flushed, stack>> /\ fault' # "none"
    BY <2>1, <2>2, StaySending DEF loop, socket, cmdsOut, Sent
  <2>3. CASE UNCHANGED <<flushed, stack, fault>>
    BY <2>1, <2>3, StaySending DEF loop, socket, cmdsOut, Sent
  <2>4. ASSUME NEW buf, NEW n, Deliver(buf, n, "readMsg"), UNCHANGED flushed
        PROVE  Sending'
    BY <1>6, <2>1, <2>4 DEF loop, socket, Deliver, Vias
  <2>5. QED
    BY <1>11, <2>1, <2>2, <2>3, <2>4 DEF readMsgDawnCmd, program
<1>12. CASE doIONoWrite
  BY <1>7, <1>12 DEF doIONoWrite, At, Polling, loop, socket, program
<1>13. CASE ReturnFromApp
  <2>1. /\ stack # << >> /\ ~Polling /\ fault = "none" /\ (At("app") \/ At("return"))
        /\ UNCHANGED <<cmdsOut, running, wire, flushed>>
    BY <1>13 DEF ReturnFromApp, At, Polling, loop, socket, program
  <2>2. CASE Return BY <1>7, <2>1, <2>2
  <2>3. CASE Goto("parse") \/ Goto("write") BY <1>6, <2>1, <2>3
  <2>4. QED
    BY <1>13, <2>2, <2>3 DEF ReturnFromApp
<1>14. ASSUME UNCHANGED <<cmdsOut, running, wire, flushed, stack>>,
              fault # "none" => fault' # "none"
       PROVE  Sending'
  BY <1>14, StaySending DEF cmdsOut, Sent
<1>15. CASE readMsgFbInfo \/ readMsgReservation \/ readMsgFrameSignal
  BY <1>14, <1>15
  DEF readMsgFbInfo, readMsgReservation, readMsgFrameSignal, Parsing, At, loop,
      socket, program
<1>16. CASE doIOWriteClosed \/ FlushTooEarly \/ NestedPollStopped
  BY <1>14, <1>16
  DEF doIOWriteClosed, FlushTooEarly, NestedPollStopped, Fail, loop, socket, program
<1>17. ASSUME NEW size \in CmdSizes, GetCmdSpace(size) PROVE Sending'
  BY <1>17, StaySending DEF GetCmdSpace, At, Sent, loop, socket, program
<1>18. CASE sendFrameSignal \/ sendFramebufferInfo \/ sendReservation
  BY <1>14, <1>18
  DEF sendFrameSignal, sendFramebufferInfo, sendReservation, send, socket
<1>19. CASE Environment
  BY <1>14, <1>19
  DEF Environment, Arrive, PeerRead, PeerClose, loop, socket, program
<1>20. CASE UNCHANGED vars
  BY <1>14, <1>20 DEF vars, cmdsOut
<1>21. QED
  BY <1>2, <1>3, <1>4, <1>8, <1>9, <1>10, <1>11, <1>12, <1>13, <1>15, <1>16, <1>17,
     <1>18, <1>19, <1>20
  DEF Next, doIO, App, Loop

(* Everything the sending side keeps. *)
SInv == SendTypeOK /\ RInv /\ FramesInOrder /\ Sending

LEMMA SInvInit == Init => SInv
<1> SUFFICES ASSUME Init PROVE SInv
  OBVIOUS
<1>1. FramesInOrder
  <2>1. Unsent = << >> /\ << >> \o << >> = << >>
    BY DEF Init, Unsent, flushlen
  <2>2. FlattenSeq(<< >>) = << >>
    BY FlattenEmpty
  <2>3. QED
    BY <2>1, <2>2 DEF Init, FramesInOrder
<1>2. Len(stack) =< 1 /\ ~Polling
  <2>1. CASE stack = << >>
    BY <2>1 DEF Polling
  <2>2. CASE stack = <<[pc |-> "app", wr |-> FALSE, via |-> "main"]>>
    BY <2>2 DEF Polling, Top
  <2>3. QED
    BY <2>1, <2>2 DEF Init
<1>3. LastFlushed /\ StoppedWhole /\ Quiet
  BY DEF Init, LastFlushed, StoppedWhole, Quiet
<1>4. Nesting
  BY <1>2 DEF Nesting
<1>5. QED
  BY <1>1, <1>3, <1>4, SendTypeInit, ReceiveInit DEF SInv, Sending

LEMMA SInvStep == SInv /\ [Next]_vars => SInv'
<1> SUFFICES ASSUME SInv, [Next]_vars PROVE SInv'
  OBVIOUS
<1>1. SendTypeOK' /\ RInv'
  BY SendTypeStep, ReceiveStep DEF SInv
<1>2. Sending'
  BY SendingStep DEF SInv
<1>3. [Channel!Next]_(Channel!vars)
  BY ChannelStep DEF SInv, Sending
<1>4. FramesInOrder'
  BY <1>1, <1>3, InOrderStep DEF SInv
<1>5. QED
  BY <1>1, <1>2, <1>4 DEF SInv

LEMMA SendInv == Spec => []SInv
BY SInvInit, SInvStep, PTL DEF Spec
-----------------------------------------------------------------------------
(* The endpoint and the one it is connected to.                            *)

(* The peer may flush more, more of that may arrive, the peer may read or  *)
(* go away, and this process may be ended from outside.                    *)
Own == <<reading, metaOut, cmdsOut, loop, stack, taken, wire, flushed, delivered,
         sentMeta>>
Outside ==
  /\ UNCHANGED Own
  /\ fault' \in {fault, "refused", "killed"}
  /\ script' \in Scripts /\ IsPrefix(Stream, Stream')
  /\ arrived' \in taken..Len(Stream')
  /\ peerOpen' \in BOOLEAN /\ room' \in 0..OutCap

LEMMA SameParts ==
  ASSUME NEW s \in Seq(Nat), NEW z \in Seq(Nat), NEW a \in Nat, NEW t \in Nat,
         t =< Len(s), t =< Len(z), \A i \in a + 1..t : s[i] = z[i]
  PROVE  SubSeq(s, a + 1, t) = SubSeq(z, a + 1, t)
<1>1. CASE t < a + 1
  BY <1>1, SubSeqEmpty
<1>2. CASE a + 1 =< t
  <2>1. \A i \in a + 1..t : s[i] \in Nat /\ z[i] \in Nat
    BY ElementOfSeq
  <2>2. /\ SubSeq(s, a + 1, t) \in Seq(Nat) /\ SubSeq(z, a + 1, t) \in Seq(Nat)
        /\ Len(SubSeq(s, a + 1, t)) = Len(SubSeq(z, a + 1, t))
        /\ \A i \in 1..Len(SubSeq(s, a + 1, t)) :
             SubSeq(s, a + 1, t)[i] = SubSeq(z, a + 1, t)[i]
    BY <2>1, SubSeqProperties
  <2>3. QED
    BY <2>2, SeqEqual
<1>3. QED
  BY <1>1, <1>2

LEMMA PrefixPart ==
  ASSUME NEW s \in Seq(Nat), NEW longer \in Seq(Nat), IsPrefix(s, longer),
         NEW t \in 0..Len(s), NEW a \in 0..t
  PROVE  SubSeq(s, a + 1, t) = SubSeq(longer, a + 1, t)
<1>1. Len(s) \in Nat /\ Len(longer) \in Nat /\ Len(s) =< Len(longer)
  BY DEF IsPrefix
<1>2. \A i \in 1..Len(s) : s[i] = longer[i]
  <2>1. SubSeq(s, 1, Len(s)) = SubSeq(longer, 1, Len(s))
    BY DEF IsPrefix
  <2>2. \A i \in 1..Len(s) : SubSeq(s, 1, Len(s))[i] = s[i] /\ SubSeq(longer, 1, Len(s))[i] = longer[i]
    BY <1>1
  <2>3. QED
    BY <2>1, <2>2
<1>3. a \in Nat /\ t \in Nat /\ t =< Len(s) /\ t =< Len(longer)
  BY <1>1
<1>4. \A i \in a + 1..t : i \in 1..Len(s)
  BY <1>1, <1>3
<1>5. QED
  BY <1>2, <1>3, <1>4, SameParts

(* A part of a stream is part of what the stream becomes,                  *)
LEMMA PartOfPrefix ==
  ASSUME NEW s \in Seq(Nat), NEW longer \in Seq(Nat), IsPrefix(s, longer),
         NEW t \in 0..Len(s), NEW buf, EndsAt(buf, s, t)
  PROVE  EndsAt(buf, longer, t)
BY PrefixPart DEF EndsAt

(* and of what is already written of it.                                   *)
LEMMA PartOfWritten ==
  ASSUME NEW s \in Seq(Nat), NEW longer \in Seq(Nat), IsPrefix(s, longer),
         NEW t \in 0..Len(s), NEW buf, EndsAt(buf, longer, t)
  PROVE  buf = SubSeq(s, t - Len(buf) + 1, t)
<1>1. PICK a \in 0..t : buf = SubSeq(longer, a + 1, t)
  BY DEF EndsAt
<1>2. buf = SubSeq(s, a + 1, t)
  BY <1>1, PrefixPart
<1>3. EndsAt(buf, s, t)
  BY <1>2 DEF EndsAt
<1>4. QED
  BY <1>3, EndsWithoutGap

LEMMA OutsideStep == SInv /\ Outside => SInv'
<1> SUFFICES ASSUME SInv, Outside PROVE SInv'
  OBVIOUS
<1>1. SendTypeOK'
  BY DEF SInv, Outside, Own, loop, metaOut, cmdsOut, SendTypeOK, flushlen
<1>2. /\ Stream \in Seq(Nat) /\ Stream' \in Seq(Nat) /\ Len(Stream') \in Nat
      /\ taken \in 0..Len(Stream) /\ taken \in Nat
  <2>1. script' \in Seq(Seq(Nat))
    BY ProtocolAssumption DEF Outside
  <2>2. Stream' \in Seq(Nat)
    BY <2>1, FlattenType DEF Stream
  <2>3. QED
    BY <2>2, StreamType DEF SInv, RInv
<1>3. ReceiveTypeOK'
  <2>1. taken' \in 0..arrived' /\ arrived' \in 0..Len(Stream')
    BY <1>2 DEF Outside, Own
  <2>2. fault' \in Faults
    BY DEF Outside, SInv, RInv, ReceiveTypeOK, Faults
  <2>3. UNCHANGED <<rbuf, rw, dawnCmdRLen, stack, delivered>>
    BY DEF Outside, Own, reading
  <2>4. QED
    BY <2>1, <2>2, <2>3 DEF Outside, SInv, RInv, ReceiveTypeOK
<1>4. Window'
  <2>1. running => EndsAt(rbuf, Stream', taken)
    BY <1>2, PartOfPrefix DEF SInv, RInv, Window, Outside
  <2>2. QED
    BY <2>1 DEF Window, Outside, Own, loop, reading, EndsAt
<1>5. Frames(stack)' /\ Reading' /\ Room'
  BY DEF SInv, RInv, Outside, Own, loop, reading, Frames, Reading, Room, Settled, Top
<1>6. Sending'
  BY StaySending DEF SInv, Outside, Own, loop, cmdsOut, Sent
<1>7. FramesInOrder'
  BY DEF SInv, Outside, Own, loop, cmdsOut, FramesInOrder, Unsent, flushlen
<1>8. QED
  BY <1>1, <1>3, <1>4, <1>5, <1>6, <1>7 DEF SInv, RInv

LEMMA WireBegins ==
  SInv => /\ wire \in Seq(Nat) /\ FlattenSeq(flushed) \in Seq(Nat)
          /\ flushed \in Seq(Seq(Nat)) /\ IsPrefix(wire, FlattenSeq(flushed))
<1> SUFFICES ASSUME SInv
             PROVE  /\ wire \in Seq(Nat) /\ FlattenSeq(flushed) \in Seq(Nat)
                    /\ flushed \in Seq(Seq(Nat)) /\ IsPrefix(wire, FlattenSeq(flushed))
  OBVIOUS
<1>1. wire \in Seq(Nat) /\ flushed \in Seq(Seq(Nat)) /\ Unsent \in Seq(Nat)
  BY UnsentType DEF SInv, SendTypeOK
<1>2. FlattenSeq(flushed) \in Seq(Nat)
  BY <1>1, FlattenType
<1>3. IsPrefix(wire, FlattenSeq(flushed))
  BY <1>1, PrefixOfConcat DEF SInv, FramesInOrder
<1>4. QED
  BY <1>1, <1>2, <1>3

(* What a step leaves for the other endpoint: nothing is taken back.       *)
LEMMA OutputGrows ==
  ASSUME SInv, [Next]_vars
  PROVE  /\ IsPrefix(FlattenSeq(flushed), FlattenSeq(flushed'))
         /\ Len(wire) =< Len(wire') /\ Len(wire') =< Len(FlattenSeq(flushed'))
<1>1. SInv'
  BY SInvStep
<1>2. Channel!Next \/ UNCHANGED Channel!vars
  BY ChannelStep DEF SInv, Sending
<1>3. PICK w \in Seq(Nat), f \in Seq(Seq(Nat)), u \in Seq(Nat) :
        w = wire /\ f = flushed /\ u = Unsent
  BY UnsentType DEF SInv, SendTypeOK
<1>4. FlattenSeq(f) \in Seq(Nat)
  BY FlattenType
<1>5. IsPrefix(FlattenSeq(f), FlattenSeq(flushed'))
  <2>1. FlattenSeq(f) \o << >> = FlattenSeq(f) /\ << >> \in Seq(Nat)
    BY <1>4, ConcatEmptySeq
  <2>2. CASE flushed' = flushed
    BY <1>3, <1>4, <2>1, <2>2, PrefixOfConcat
  <2>3. CASE Channel!Accept
    <3>1. PICK x \in Seq(Nat) : x = Unsent'
      BY <1>1, UnsentAfter DEF SInv
    <3>2. flushed' = Append(f, x)
      BY <1>3, <2>3, <3>1 DEF Channel!Accept
    <3>3. FlattenSeq(flushed') = FlattenSeq(f) \o x
      BY <3>2, FlattenAppend
    <3>4. QED
      BY <1>4, <3>3, PrefixOfConcat
  <2>4. QED
    BY <1>2, <2>2, <2>3 DEF Channel!Next, Channel!Emit, Channel!GiveUp, Channel!vars
<1>6. Len(w) =< Len(wire')
  <2>1. CASE wire' = wire
    BY <1>3, <2>1
  <2>2. ASSUME NEW n \in 1..Len(Unsent), Channel!Emit(n) PROVE Len(w) =< Len(wire')
    <3>1. PICK part \in Seq(Nat) : part = SubSeq(u, 1, n)
      <4>1. n \in 0..Len(u)
        BY <1>3
      <4>2. QED
        BY <4>1, SplitAt
    <3>2. wire' = w \o part
      BY <1>3, <2>2, <3>1 DEF Channel!Emit
    <3>3. Len(w \o part) = Len(w) + Len(part) /\ Len(w) \in Nat /\ Len(part) \in Nat
      BY ConcatProperties
    <3>4. QED
      BY <3>2, <3>3
  <2>3. QED
    BY <1>2, <2>1, <2>2 DEF Channel!Next, Channel!Accept, Channel!GiveUp, Channel!vars
<1>7. Len(wire') =< Len(FlattenSeq(flushed'))
  <2>1. IsPrefix(wire, FlattenSeq(flushed))'
    BY <1>1, WireBegins, PTL
  <2>2. QED
    BY <2>1 DEF IsPrefix
<1>8. QED
  BY <1>3, <1>5, <1>6, <1>7

LEMMA TakenGrows ==
  ASSUME SInv, [Next]_vars
  PROVE  taken' \in Nat /\ taken =< taken' /\ taken' =< arrived'
<1>1. SInv'
  BY SInvStep
<1>2. taken' \in Nat /\ taken' =< arrived'
  <2>1. taken' \in 0..arrived' /\ arrived' \in 0..Len(Stream')
    BY <1>1 DEF SInv, RInv, ReceiveTypeOK
  <2>2. QED
    BY <2>1
<1>3. taken \in Nat /\ arrived \in Nat /\ taken =< arrived /\ Free \in Nat
  <2>1. taken \in 0..arrived /\ arrived \in 0..Len(Stream)
    BY DEF SInv, RInv, ReceiveTypeOK
  <2>2. Len(rbuf) \in Nat /\ Len(rbuf) < RSize
    BY DEF SInv, RInv, ReceiveTypeOK
  <2>3. Free \in Nat
    BY <2>2, Sizes DEF Free
  <2>4. QED
    BY <2>1, <2>3
<1>4. CASE doIORead
  <2>1. Got \in Nat
    BY <1>3 DEF Got, Smaller
  <2>2. QED
    BY <1>2, <1>3, <1>4, <2>1 DEF doIORead
<1>5. CASE taken' = taken
  BY <1>2, <1>3, <1>5
<1>6. QED
  BY <1>4, <1>5
  DEF Next, doIO, App, Loop, Environment, readMsgDone, readMsgFbInfo,
      readMsgReservation, readMsgFrameSignal, readMsgDawnCmd, readMsgUnexpected,
      doIONoWrite, doIOWriteClosed, doIOFlushMore, doIODrain, doIODrainError,
      GetCmdSpace, Flush, FlushTooEarly, sendFrameSignal, sendFramebufferInfo,
      sendReservation, send, ReturnFromApp, Poll, NestedPoll, NestedPollStopped,
      Arrive, PeerRead, PeerClose, Fail, socket, vars

-----------------------------------------------------------------------------
(* How many of the activations on the stack are the program's: all but the *)
(* one that runs, and that one when it has called the program.             *)
InProgramAt == {"app", "poll", "return"}
Depth(st) == IF st # << >> /\ Head(st).pc \notin InProgramAt THEN Len(st) - 1 ELSE Len(st)

LEMMA GotoDepth ==
  ASSUME Frames(stack), stack # << >>, NEW pc \in PCs, NEW via \in Vias,
         Goto(pc) \/ stack' = [stack EXCEPT ![1].pc = pc, ![1].via = via]
  PROVE  /\ (pc \in InProgramAt <=> Top.pc \in InProgramAt) => Depth(stack') = Depth(stack)
         /\ pc \in InProgramAt /\ Top.pc \notin InProgramAt
              => Depth(stack') = Depth(stack) + 1
         /\ pc \notin InProgramAt /\ Top.pc \in InProgramAt
              => Depth(stack') = Depth(stack) - 1
<1>1. stack' # << >> /\ Head(stack').pc = pc
  BY GotoStack
<1>2. Len(stack') = Len(stack) /\ Len(stack) \in Nat
  BY DEF Frames, Goto
<1>3. QED
  BY <1>1, <1>2 DEF Depth, Top

LEMMA ReturnDepth ==
  ASSUME Frames(stack), stack # << >>, Return
  PROVE  /\ Top.pc \notin InProgramAt => Depth(stack') = Depth(stack)
         /\ Top.pc \in InProgramAt => Depth(stack') = Depth(stack) - 1
<1>1. stack' = << >> \/ Head(stack').pc \in InProgramAt
  BY ReturnStack DEF Return, InProgramAt
<1>2. Len(stack') = Len(stack) - 1 /\ Len(stack) \in Nat
  BY HeadTailProperties DEF Frames, Return
<1>3. QED
  BY <1>1, <1>2 DEF Depth, Top

(* doIO calls the program when it delivers something to it, and only then. *)
LEMMA LoopDepth ==
  ASSUME SInv, doIO \/ Loop
  PROVE  IF delivered' = delivered THEN Depth(stack') = Depth(stack)
                                   ELSE Depth(stack') = Depth(stack) + 1
<1>1. Frames(stack) /\ "doIO" \in Vias /\ {"parse", "write", "app"} \subseteq PCs
  BY DEF SInv, RInv, PCs, Vias
<1>2. CASE UNCHANGED <<stack, delivered>>
  BY <1>2
<1>3. ASSUME At("read") \/ At("parse") \/ At("write"), Return, UNCHANGED program
      PROVE  delivered' = delivered /\ Depth(stack') = Depth(stack)
  BY <1>1, <1>3, ReturnDepth DEF At, InProgramAt, program
<1>4. ASSUME At("read") \/ At("parse"), Goto("parse") \/ Goto("write")
      PROVE  Depth(stack') = Depth(stack)
  BY <1>1, <1>4, GotoDepth DEF At, InProgramAt
<1>5. ASSUME At("read") \/ At("parse"), NEW buf, NEW n, NEW via \in Vias, Deliver(buf, n, via)
      PROVE  delivered' # delivered /\ Depth(stack') = Depth(stack) + 1
  <2>1. PICK d \in Seq(Seq(Nat)) : d = delivered
    BY DEF SInv, RInv, ReceiveTypeOK
  <2>2. Len(Append(d, SubSeq(buf, 1, n))) # Len(d)
    OBVIOUS
  <2>3. QED
    BY <1>1, <1>5, <2>1, <2>2, GotoDepth DEF At, InProgramAt, Deliver
<1>6. CASE doIORead
  <2>1. At("read")
    BY <1>6 DEF doIORead
  <2>2. CASE Return /\ UNCHANGED program
    BY <1>3, <2>1, <2>2
  <2>3. CASE (Goto("parse") \/ Goto("write")) /\ UNCHANGED delivered
    BY <1>4, <2>1, <2>3
  <2>4. CASE Deliver(Filled, dawnCmdRLen, "doIO")
    BY <1>1, <1>5, <2>1, <2>4
  <2>5. QED
    BY <1>6, <2>2, <2>3, <2>4 DEF doIORead
<1>7. CASE readMsgDone
  BY <1>4, <1>7 DEF readMsgDone, program
<1>8. CASE readMsgDawnCmd
  <2>1. At("parse") /\ "readMsg" \in Vias
    BY <1>8 DEF readMsgDawnCmd, Parsing, Vias
  <2>2. CASE UNCHANGED <<program, stack>>
    BY <2>2, <1>2 DEF program
  <2>3. ASSUME NEW buf, NEW n, Deliver(buf, n, "readMsg")
        PROVE  delivered' # delivered /\ Depth(stack') = Depth(stack) + 1
    BY <1>5, <2>1, <2>3
  <2>4. QED
    BY <1>8, <2>2, <2>3 DEF readMsgDawnCmd
<1>9. CASE readMsgUnexpected \/ doIONoWrite \/ doIOFlushMore \/ doIODrain \/ doIODrainError
  BY <1>3, <1>9
  DEF readMsgUnexpected, doIONoWrite, doIOFlushMore, doIODrain, doIODrainError
<1>10. CASE readMsgFbInfo \/ readMsgReservation \/ readMsgFrameSignal \/ doIOWriteClosed
            \/ NestedPollStopped
  BY <1>2, <1>10
  DEF readMsgFbInfo, readMsgReservation, readMsgFrameSignal, doIOWriteClosed,
      NestedPollStopped, Fail, program
<1>11. Dispatch \in Frame /\ Dispatch.pc \notin InProgramAt
  <2>1. Writable \in BOOLEAN
    BY DEF Writable
  <2>2. QED
    BY <2>1 DEF Dispatch, Frame, InProgramAt
<1>12. CASE Poll
  <2>1. stack = << >> /\ stack' = <<Dispatch>> /\ delivered' = delivered
    BY <1>12 DEF Poll, program
  <2>2. QED
    BY <1>11, <2>1 DEF Depth
<1>13. CASE NestedPoll
  <2>1. /\ stack # << >> /\ Top.pc \in InProgramAt /\ delivered' = delivered
        /\ stack' \in {Resumed, <<Dispatch>> \o Resumed}
    BY <1>13 DEF NestedPoll, At, InProgramAt, program
  <2>2. PICK st \in Seq(Frame) : st = Resumed
    BY <1>1, <2>1, ResumedStack DEF Frames
  <2>3. st # << >> /\ Head(st).pc \in InProgramAt /\ Len(st) = Len(stack) /\ Frames(st)
    <3>1. Len(st) = Len(stack)
      BY <1>1, <2>2 DEF Resumed, Frames
    <3>2. QED
      BY <1>1, <2>1, <2>2, <3>1, ResumedStack DEF InProgramAt
  <2>4. PICK f \in Frame : f = Dispatch
    BY <1>11
  <2>5. Len(<<f>> \o st) = 1 + Len(st) /\ <<f>> \o st # << >> /\ Head(<<f>> \o st) = f
    <3>1. Len(<<f>> \o st) = 1 + Len(st)
      BY ConcatProperties
    <3>2. QED
      BY <2>3, <3>1, CallStack DEF InProgramAt
  <2>6. Len(st) \in Nat
    OBVIOUS
  <2>7. QED
    BY <1>11, <2>1, <2>2, <2>3, <2>4, <2>5, <2>6 DEF Depth, Top
<1>14. QED
  BY <1>6, <1>7, <1>8, <1>9, <1>10, <1>12, <1>13 DEF doIO, Loop

(* The program leaves an activation only by returning from it.             *)
LEMMA AppDepth ==
  ASSUME SInv, Flush \/ FlushTooEarly \/ \E size : GetCmdSpace(size)
  PROVE  Depth(stack') = Depth(stack)
<1>1. Frames(stack) /\ "doIO" \in Vias
  BY DEF SInv, RInv, Vias
<1>2. CASE stack' = stack
  BY <1>2
<1>3. CASE Flush
  <2>1. stack # << >> /\ Top.pc \in InProgramAt
    BY <1>3 DEF Flush, At, InProgramAt
  <2>2. PICK pc \in PCs : pc \in InProgramAt /\ Goto(pc)
    <3>1. "poll" \in PCs \cap InProgramAt
          /\ (IF Server THEN "return" ELSE "app") \in PCs \cap InProgramAt
      BY DEF PCs, InProgramAt
    <3>2. Goto("poll") \/ Goto(IF Server THEN "return" ELSE "app")
      BY <1>3 DEF Flush, Goto, Resumed
    <3>3. QED
      BY <3>1, <3>2
  <2>3. QED
    BY <1>1, <2>1, <2>2, GotoDepth
<1>4. QED
  BY <1>2, <1>3 DEF FlushTooEarly, Fail, GetCmdSpace

LEMMA ReturnsDepth ==
  ASSUME SInv, ReturnFromApp
  PROVE  Depth(stack') = Depth(stack) - 1
<1>1. Frames(stack) /\ "doIO" \in Vias /\ {"parse", "write"} \subseteq PCs \ InProgramAt
  BY DEF SInv, RInv, Vias, PCs, InProgramAt
<1>2. stack # << >> /\ Top.pc \in InProgramAt
  BY DEF ReturnFromApp, At, InProgramAt
<1>3. CASE Return
  BY <1>1, <1>2, <1>3, ReturnDepth
<1>4. CASE Goto("parse") \/ Goto("write")
  BY <1>1, <1>2, <1>4, GotoDepth
<1>5. QED
  BY <1>3, <1>4 DEF ReturnFromApp
-----------------------------------------------------------------------------
(* Connected, the bytes on the wire and those still to be written are the  *)
(* command buffers handed to Flush, one after the other; disconnected,     *)
(* what is on the wire is the beginning of that.                           *)
THEOREM WireInOrder == Spec => []FramesInOrder
<1>1. SInv => FramesInOrder
  BY DEF SInv
<1>2. QED
  BY <1>1, SendInv, PTL

(* Flush calls the loop, and the loop doIO again, but only once: there are *)
(* never more than two activations of doIO.                                *)
THEOREM NestsOnlyOnce == Spec => []NestsOnce
<1>1. SInv => NestsOnce
  BY DEF SInv, Sending, Nesting, NestsOnce
<1>2. QED
  BY <1>1, SendInv, PTL

(* The bytes of _wbuf are written between command buffers and never inside *)
(* one, also when a nested handler has given a command buffer up.          *)
THEOREM MetaNeverInside == Spec => []MetaBetweenFrames
<1> DEFINE Between == \A p \in metaAt : WholeAt(p, flushed)
<1>1. Init => Between
  BY DEF Init
<1>2. SInv /\ Between /\ [Next]_vars => Between'
  <2> SUFFICES ASSUME SInv, Between, [Next]_vars PROVE Between'
    OBVIOUS
  <2>1. CASE UNCHANGED <<metaAt, flushed>>
    BY <2>1
  <2>2. CASE Flush
    <3>1. metaAt' = metaAt
      BY <2>2 DEF Flush, socket
    <3>2. CASE UNCHANGED flushed
      BY <2>1, <3>1, <3>2
    <3>3. CASE Len(writebuf) > HDR
      <4>1. PICK frame \in Seq(Nat) : flushed' = Append(flushed, frame)
        BY <2>2, <3>3, FlushTakes DEF SInv
      <4>2. \A p \in metaAt : WholeAt(p, Append(flushed, frame))
        BY StaysWhole DEF SInv, SendTypeOK
      <4>3. QED
        BY <3>1, <4>1, <4>2
    <3>4. QED
      BY <2>2, <3>2, <3>3 DEF Flush
  <2>3. CASE doIODrain \/ doIODrainError
    <3>1. WholeAt(Len(wire'), flushed)
      BY <2>3, DrainIsWhole DEF SInv
    <3>2. metaAt' \subseteq metaAt \union {Len(wire')} /\ flushed' = flushed
      BY <2>3 DEF doIODrain, doIODrainError, program
    <3>3. QED
      BY <3>1, <3>2
  <2>4. QED
    BY <2>1, <2>2, <2>3
    DEF Next, doIO, App, Loop, Environment, doIORead, readMsgDone, readMsgFbInfo,
        readMsgReservation, readMsgFrameSignal, readMsgDawnCmd, readMsgUnexpected,
        doIONoWrite, doIOWriteClosed, doIOFlushMore, Deliver,
        GetCmdSpace, FlushTooEarly, sendFrameSignal, sendFramebufferInfo,
        sendReservation, send, ReturnFromApp, Poll, NestedPoll, NestedPollStopped,
        Arrive, PeerRead, PeerClose, Fail, socket, program, vars
<1>3. Between => MetaBetweenFrames
  BY DEF WholeAt, MetaBetweenFrames
<1> HIDE DEF Between
<1>4. QED
  BY <1>1, <1>2, <1>3, SendInv, PTL DEF Spec

(* The sending side of an endpoint implements a channel of frames, for     *)
(* buffers and sockets of any size, whatever the peer sends and whatever   *)
(* the program does: a frame is accepted only when the one before it is    *)
(* done, its bytes are written once and in order, and nothing is written   *)
(* once the connection has been stopped.                                   *)
THEOREM SendsFrames == Spec => ImplementsFrameChannel
<1>1. Init => Channel!Init
  BY DEF Init, Channel!Init, Unsent, flushlen
<1>2. SInv /\ [Next]_vars => [Channel!Next]_(Channel!vars)
  BY ChannelStep DEF SInv, Sending
<1>3. QED
  BY <1>1, <1>2, SendInv, PTL
  DEF Spec, ImplementsFrameChannel, Channel!Spec
=============================================================================
