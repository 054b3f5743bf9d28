------------------------- MODULE ProvisioningProofs -------------------------
(***************************************************************************)
(* Safety of Provisioning for any requests, workers, files and failures,   *)
(* and any number of lines.                                                *)
(*                                                                         *)
(* Types, and that a key stands under a comment that asked for it, hold    *)
(* however the scripts overlap.  That grants are effective, that revoked   *)
(* keys are gone and that a file implements AccessLog hold while scripts   *)
(* run one at a time (OneAtATime).  The last two also need files that end  *)
(* in a newline (Terminated) and ids that sed reads as they are meant      *)
(* (FindsOwn, and for the log FindsExact), and the log that grep does not  *)
(* fail and that nobody puts a blank line into authorized_keys (Tidy).     *)
(* The code sees to none of these: Provisioning_overlap.cfg shows what     *)
(* becomes of keys without the first, Provisioning_glued.cfg without the   *)
(* second and Provisioning_quoted.cfg without the third.                   *)
(*                                                                         *)
(* The argument: sed deletes ranges of lines, so everything rests on what  *)
(* an enumeration of the lines it keeps looks like (AscendingEnumerates),  *)
(* and on what one step does to the lines of a file (LineChanges).         *)
(***************************************************************************)
EXTENDS Provisioning, TLAPS, WellFoundedInduction, SequenceTheorems

\* One script at a time: every worker is the same one.
OneAtATime == \A v, w \in Workers : v = w

\* Whatever was in authorized_keys before ends in a newline.
Terminated == \A o \in OldKeys : o.ended

\* sed, given an id, finds the comments that hold it; and no others.
FindsOwn   == \A id \in Id : <<id, id>> \in SedFinds
FindsExact == \A i, j \in Id : <<i, j>> \in SedFinds <=> i = j

\* Nobody leaves authorized_keys without its last newline or puts a blank line into it.
Tidy(g) == g = "keys" => Terminated /\ "blank" \notin ByHand

-----------------------------------------------------------------------------
(* Enumerations: Ascending is recursive, and LeastNat does for induction.   *)

\* Every nonempty set of numbers has a least one: what is claimed of every number is shown
\* by a least counterexample.
LEMMA LeastNat ==
  ASSUME NEW T, T \subseteq Nat, T # {}
  PROVE  \E n \in T : \A m \in T : n <= m
<1>1. PICK n \in T : \A m \in T : <<m, n>> \notin OpToRel(<, Nat)
  BY NatLessThanWellFounded, WFMin
<1>2. \A m \in T : ~(m < n)
  BY <1>1 DEF OpToRel
<1> QED BY <1>2, Z3

\* One value of the function by which Ascending is defined.
AscendingStep(a, i, S) ==
  IF i = 0 THEN <<>> ELSE IF i \in S THEN Append(a[i - 1], i) ELSE a[i - 1]

\* There is a function with those values, whatever the length.
LEMMA AscendingExists ==
  ASSUME NEW n \in Nat, NEW S
  PROVE  \E a : a = [i \in 0 .. n |-> AscendingStep(a, i, S)]
<1> DEFINE T == {m \in Nat : ~\E a : a = [i \in 0 .. m |-> AscendingStep(a, i, S)]}
<1> SUFFICES ASSUME T # {} PROVE FALSE
  OBVIOUS
<1>1. PICK m \in T : \A k \in T : m <= k
  <2>1. T \subseteq Nat
    OBVIOUS
  <2> HIDE DEF T
  <2> QED BY <2>1, LeastNat
<1>2. m \in Nat
  OBVIOUS
<1>3. m # 0
  <2> SUFFICES ASSUME m = 0 PROVE FALSE
    OBVIOUS
  <2> DEFINE z == [i \in 0 .. 0 |-> <<>>]
  <2>1. z = [i \in 0 .. 0 |-> AscendingStep(z, i, S)]
    BY DEF AscendingStep
  <2> QED BY <2>1
<1>4. PICK g : g = [i \in 0 .. m - 1 |-> AscendingStep(g, i, S)]
  <2>1. m - 1 \in Nat /\ m - 1 < m
    BY <1>2, <1>3
  <2>2. m - 1 \notin T
    BY <2>1, <1>1, <1>2
  <2> QED BY <2>1, <2>2
<1> DEFINE h == [i \in 0 .. m |-> IF i = m THEN AscendingStep(g, m, S) ELSE g[i]]
<1>5. ASSUME NEW i \in 0 .. m
      PROVE  h[i] = AscendingStep(h, i, S)
  <2>1. i = 0 \/ (i - 1 \in 0 .. m - 1 /\ i - 1 # m /\ i - 1 \in 0 .. m)
    BY <1>2
  <2>2. i # 0 => h[i - 1] = g[i - 1]
    BY <2>1
  <2>3. AscendingStep(h, i, S) = AscendingStep(g, i, S)
    BY <2>2 DEF AscendingStep
  <2>4. i = m \/ i \in 0 .. m - 1
    BY <1>2
  <2> QED BY <2>3, <2>4, <1>4
<1>6. h = [i \in 0 .. m |-> AscendingStep(h, i, S)]
  <2> HIDE DEF h
  <2> QED BY <1>5 DEF h
<1> QED BY <1>6, <1>2

\* Ascending(n, S) is the last value of one.
LEMMA AscendingDef ==
  ASSUME NEW n \in Nat, NEW S
  PROVE  \E a : a = [i \in 0 .. n |-> AscendingStep(a, i, S)] /\ Ascending(n, S) = a[n]
<1> DEFINE a == CHOOSE a : a = [i \in 0 .. n |-> IF i = 0 THEN <<>>
                         ELSE IF i \in S THEN Append(a[i - 1], i) ELSE a[i - 1]]
<1>1. PICK b : b = [i \in 0 .. n |-> AscendingStep(b, i, S)]
  BY AscendingExists
<1>2. b = [i \in 0 .. n |-> IF i = 0 THEN <<>>
                         ELSE IF i \in S THEN Append(b[i - 1], i) ELSE b[i - 1]]
  BY <1>1 DEF AscendingStep
<1>3. a = [i \in 0 .. n |-> IF i = 0 THEN <<>>
                         ELSE IF i \in S THEN Append(a[i - 1], i) ELSE a[i - 1]]
  BY <1>2, Zenon
<1>4. Ascending(n, S) = a[n]
  BY DEF Ascending
<1> HIDE DEF a
<1>5. a = [i \in 0 .. n |-> AscendingStep(a, i, S)]
  BY <1>3 DEF AscendingStep
<1> QED BY <1>4, <1>5

\* Sequence k holds the members of S among 1 .. n, smallest first.
Enumerates(k, n, S) ==
  /\ k \in Seq(1 .. n)
  /\ \A p, q \in 1 .. Len(k) : p < q => k[p] < k[q]
  /\ \A p \in 1 .. Len(k) : k[p] \in S
  /\ \A i \in 1 .. n : i \in S => \E p \in 1 .. Len(k) : k[p] = i

\* An enumeration goes one number further by what the function adds.
LEMMA EnumerateOneMore ==
  ASSUME NEW i \in Nat, NEW S, NEW k, Enumerates(k, i, S),
         NEW h, h = IF i + 1 \in S THEN Append(k, i + 1) ELSE k
  PROVE  Enumerates(h, i + 1, S)
<1>1. k \in Seq(1 .. i) /\ Len(k) \in Nat
  BY DEF Enumerates
<1>2. k \in Seq(1 .. i + 1)
  BY <1>1
<1>3. CASE i + 1 \in S
  <2>1. h = Append(k, i + 1)
    BY <1>3
  <2>2. h \in Seq(1 .. i + 1) /\ Len(h) = Len(k) + 1 /\ h[Len(k) + 1] = i + 1
        /\ \A p \in 1 .. Len(k) : h[p] = k[p]
    <3>1. i + 1 \in 1 .. i + 1
      OBVIOUS
    <3>2. PICK e \in 1 .. i + 1 : e = i + 1
      BY <3>1
    <3>3. h = Append(k, e)
      BY <2>1, <3>2
    <3>4. PICK R : R = 1 .. i + 1
      OBVIOUS
    <3>5. k \in Seq(R) /\ e \in R
      BY <1>2, <3>4
    <3>6. h \in Seq(R)
      BY <3>3, <3>5, AppendProperties
    <3>7. Len(h) = Len(k) + 1 /\ h[Len(k) + 1] = e
      BY <3>3, <3>5, AppendProperties
    <3>8. \A p \in 1 .. Len(k) : h[p] = k[p]
      BY <3>3, <3>5, AppendProperties
    <3> QED BY <3>2, <3>4, <3>6, <3>7, <3>8
  <2>3. \A p, q \in 1 .. Len(h) : p < q => h[p] < h[q]
    <3> SUFFICES ASSUME NEW p \in 1 .. Len(h), NEW q \in 1 .. Len(h), p < q
                 PROVE  h[p] < h[q]
      OBVIOUS
    <3>0. p \in 1 .. Len(k)
      BY <2>2, <1>1
    <3>1. p \in 1 .. Len(k) /\ h[p] = k[p] /\ k[p] \in 1 .. i
      BY <3>0, <2>2, <1>1
    <3>2. CASE q = Len(k) + 1
      BY <3>1, <3>2, <2>2
    <3>3. CASE q \in 1 .. Len(k)
      BY <3>1, <3>3, <2>2 DEF Enumerates
    <3> QED BY <3>2, <3>3, <2>2, <1>1
  <2>4. \A p \in 1 .. Len(h) : h[p] \in S
    <3> SUFFICES ASSUME NEW p \in 1 .. Len(h) PROVE h[p] \in S
      OBVIOUS
    <3>1. p = Len(k) + 1 \/ p \in 1 .. Len(k)
      BY <2>2, <1>1
    <3> QED BY <3>1, <2>2, <1>3 DEF Enumerates
  <2>5. ASSUME NEW j \in 1 .. i + 1, j \in S
        PROVE  \E p \in 1 .. Len(h) : h[p] = j
    <3>1. CASE j = i + 1
      <4>1. Len(k) + 1 \in 1 .. Len(h)
        BY <1>1, <2>2
      <4> QED BY <2>2, <3>1, <4>1
    <3>2. CASE j # i + 1
      <4>1. j \in 1 .. i
        BY <3>2
      <4>2. PICK p \in 1 .. Len(k) : k[p] = j
        BY <4>1, <2>5 DEF Enumerates
      <4> QED BY <4>2, <2>2, <1>1
    <3> QED BY <3>1, <3>2
  <2> QED BY <2>2, <2>3, <2>4, <2>5 DEF Enumerates
<1>4. CASE i + 1 \notin S
  <2>1. h = k
    BY <1>4
  <2>2. \A j \in 1 .. i + 1 : j \in S => j \in 1 .. i
    BY <1>4
  <2> QED BY <2>1, <2>2, <1>2 DEF Enumerates
<1> QED BY <1>3, <1>4

\* What sed keeps and what the log shows, of any number of lines, is enumerated in the
\* order of the file: none missing, none twice.
LEMMA AscendingEnumerates ==
  ASSUME NEW n \in Nat, NEW S
  PROVE  Enumerates(Ascending(n, S), n, S)
<1>1. PICK a : a = [i \in 0 .. n |-> AscendingStep(a, i, S)] /\ Ascending(n, S) = a[n]
  BY AscendingDef
<1>2. \A i \in 0 .. n : a[i] = AscendingStep(a, i, S)
  BY <1>1
<1> DEFINE T == {i \in 0 .. n : ~Enumerates(a[i], i, S)}
<1>3. T = {}
  <2> SUFFICES ASSUME T # {} PROVE FALSE
    OBVIOUS
  <2>1. PICK i \in T : \A j \in T : i <= j
    <3>1. T \subseteq Nat
      OBVIOUS
    <3> HIDE DEF T
    <3> QED BY <3>1, LeastNat
  <2>2. i \in 0 .. n /\ ~Enumerates(a[i], i, S)
    OBVIOUS
  <2>3. i # 0
    <3> SUFFICES ASSUME i = 0 PROVE FALSE
      OBVIOUS
    <3>1. a[0] = <<>>
      BY <1>2 DEF AscendingStep
    <3>2. Enumerates(<<>>, 0, S)
      BY DEF Enumerates
    <3> QED BY <3>1, <3>2, <2>2
  <2>4. PICK j \in 0 .. n : i = j + 1 /\ j \in Nat /\ j < i /\ i - 1 = j
    <3>1. i - 1 \in 0 .. n
      BY <2>2, <2>3
    <3> QED BY <3>1, <2>2
  <2>5. Enumerates(a[j], j, S)
    BY <2>1, <2>2, <2>4
  <2>6. a[j + 1] = IF j + 1 \in S THEN Append(a[j], j + 1) ELSE a[j]
    BY <1>2, <2>2, <2>3, <2>4 DEF AscendingStep
  <2>7. Enumerates(a[j + 1], j + 1, S)
    BY <2>4, <2>5, <2>6, EnumerateOneMore
  <2> QED BY <2>2, <2>4, <2>7
<1> QED BY <1>1, <1>3

\* Two enumerations of the same members agree as far as both go,
LEMMA EnumerationsAgree ==
  ASSUME NEW n \in Nat, NEW S, NEW k, NEW h, Enumerates(k, n, S), Enumerates(h, n, S)
  PROVE  \A p \in 1 .. Len(k) : p <= Len(h) => k[p] = h[p]
<1>1. k \in Seq(1 .. n) /\ h \in Seq(1 .. n) /\ Len(k) \in Nat /\ Len(h) \in Nat
  BY DEF Enumerates
<1>2. /\ \A p \in 1 .. Len(k) : k[p] \in 1 .. n /\ k[p] \in S
      /\ \A p \in 1 .. Len(h) : h[p] \in 1 .. n /\ h[p] \in S
  <2>1. PICK R : R = 1 .. n
    OBVIOUS
  <2>2. k \in Seq(R) /\ h \in Seq(R)
    BY <1>1, <2>1
  <2>3. (\A p \in 1 .. Len(k) : k[p] \in R) /\ (\A p \in 1 .. Len(h) : h[p] \in R)
    BY <2>2, ElementOfSeq
  <2>4. (\A p \in 1 .. Len(k) : k[p] \in S) /\ (\A p \in 1 .. Len(h) : h[p] \in S)
    BY DEF Enumerates
  <2> QED BY <2>1, <2>3, <2>4
<1> DEFINE T == {p \in 1 .. Len(k) : p <= Len(h) /\ k[p] # h[p]}
<1> SUFFICES ASSUME T # {} PROVE FALSE
  OBVIOUS
<1>3. PICK p \in T : \A q \in T : p <= q
  <2>1. T \subseteq Nat
    BY <1>1
  <2> HIDE DEF T
  <2> QED BY <2>1, LeastNat
<1>4. p \in 1 .. Len(k) /\ p \in 1 .. Len(h) /\ k[p] # h[p]
  BY <1>1
<1>5. \A q \in 1 .. Len(k) : q < p => q \in 1 .. Len(h) /\ k[q] = h[q]
  <2> SUFFICES ASSUME NEW q \in 1 .. Len(k), q < p PROVE q \in 1 .. Len(h) /\ k[q] = h[q]
    OBVIOUS
  <2>1. q \in 1 .. Len(h) /\ q <= Len(h) /\ ~(p <= q)
    BY <1>1, <1>4
  <2>2. q \notin T
    BY <1>3, <2>1
  <2> QED BY <2>1, <2>2
<1>6. k[p] \in Int /\ h[p] \in Int
  BY <1>2, <1>4
<1>7. CASE k[p] < h[p]
  <2>1. PICK q \in 1 .. Len(h) : h[q] = k[p]
    BY <1>2, <1>4 DEF Enumerates
  <2>2. q < p
    <3>1. p < q => h[p] < h[q]
      BY <1>4 DEF Enumerates
    <3>2. ~(h[p] < k[p]) /\ h[q] # h[p]
      BY <1>6, <2>1, <1>7
    <3>3. ~(p < q) /\ q # p
      BY <2>1, <3>1, <3>2
    <3>4. p \in Int /\ q \in Int
      OBVIOUS
    <3> QED BY <3>3, <3>4
  <2>3. q \in 1 .. Len(k)
    BY <2>1, <2>2, <1>4, <1>1
  <2>4. k[q] = k[p] /\ k[q] < k[p]
    BY <2>1, <2>2, <2>3, <1>4, <1>5 DEF Enumerates
  <2> QED BY <2>3, <2>4, <1>2, <1>4
<1>8. CASE h[p] < k[p]
  <2>1. PICK q \in 1 .. Len(k) : k[q] = h[p]
    BY <1>2, <1>4 DEF Enumerates
  <2>2. q < p
    <3>1. p < q => k[p] < k[q]
      BY <1>4 DEF Enumerates
    <3>2. ~(k[p] < h[p]) /\ k[q] # k[p]
      BY <1>6, <2>1, <1>8
    <3>3. ~(p < q) /\ q # p
      BY <2>1, <3>1, <3>2
    <3>4. p \in Int /\ q \in Int
      OBVIOUS
    <3> QED BY <3>3, <3>4
  <2>3. q \in 1 .. Len(h)
    BY <2>1, <2>2, <1>5
  <2>4. h[q] = h[p] /\ h[q] < h[p]
    BY <2>1, <2>2, <2>3, <1>4, <1>5 DEF Enumerates
  <2> QED BY <2>3, <2>4, <1>2, <1>4
<1> QED BY <1>4, <1>7, <1>8, <1>6

\* neither goes further,
LEMMA EnumerationIsNotLonger ==
  ASSUME NEW n \in Nat, NEW S, NEW k, NEW h, Enumerates(k, n, S), Enumerates(h, n, S)
  PROVE  ~(Len(h) < Len(k))
<1> SUFFICES ASSUME Len(h) < Len(k) PROVE FALSE
  OBVIOUS
<1>1. k \in Seq(1 .. n) /\ h \in Seq(1 .. n) /\ Len(k) \in Nat /\ Len(h) \in Nat
  BY DEF Enumerates
<1>2. PICK p \in 1 .. Len(k) : p = Len(h) + 1
  BY <1>1
<1>3. k[p] \in 1 .. n /\ k[p] \in S
  <2>1. PICK R : R = 1 .. n
    OBVIOUS
  <2>2. k \in Seq(R)
    BY <1>1, <2>1
  <2>3. k[p] \in R
    BY <2>2, ElementOfSeq
  <2>4. k[p] \in S
    BY DEF Enumerates
  <2> QED BY <2>1, <2>3, <2>4
<1>4. PICK q \in 1 .. Len(h) : h[q] = k[p]
  BY <1>3 DEF Enumerates
<1>5. q \in 1 .. Len(k) /\ q < p /\ q <= Len(h)
  BY <1>1, <1>2
<1>6. k[q] = h[q]
  BY <1>5, EnumerationsAgree
<1>7. k[q] < k[p]
  BY <1>5 DEF Enumerates
<1> QED BY <1>3, <1>4, <1>6, <1>7

\* and so they are the same.
LEMMA EnumerationIsUnique ==
  ASSUME NEW n \in Nat, NEW S, NEW k, NEW h, Enumerates(k, n, S), Enumerates(h, n, S)
  PROVE  k = h
<1>1. k \in Seq(1 .. n) /\ h \in Seq(1 .. n) /\ Len(k) \in Nat /\ Len(h) \in Nat
  BY DEF Enumerates
<1>2. Len(k) = Len(h)
  BY <1>1, EnumerationIsNotLonger
<1>3. \A p \in 1 .. Len(k) : k[p] = h[p]
  BY <1>1, <1>2, EnumerationsAgree
<1> QED BY <1>1, <1>2, <1>3, SeqEqual

-----------------------------------------------------------------------------
(* What sed keeps.                                                         *)

\* The lines sed keeps.
Kept(lines, id) == {i \in 1 .. Len(lines) : ~InRange(lines, id, i)}

\* The output of sed holds the lines it keeps, in their order.
LEMMA SedKeeps ==
  ASSUME NEW S, NEW f, f.lines \in Seq(S), NEW id
  PROVE  \E k :
           /\ Enumerates(k, Len(f.lines), Kept(f.lines, id))
           /\ SedDeleted(f, id).lines \in Seq(S)
           /\ Len(SedDeleted(f, id).lines) = Len(k)
           /\ \A n \in 1 .. Len(k) : SedDeleted(f, id).lines[n] = f.lines[k[n]]
           /\ SedDeleted(f, id).ended = (SedDeleted(f, id).lines = <<>> \/ f.ended)
<1> DEFINE k == Ascending(Len(f.lines), Kept(f.lines, id))
           out == [n \in 1 .. Len(k) |-> f.lines[k[n]]]
<1>1. Len(f.lines) \in Nat
  OBVIOUS
<1>2. Enumerates(k, Len(f.lines), Kept(f.lines, id))
  BY <1>1, AscendingEnumerates
<1>3. SedDeleted(f, id) = [lines |-> out, ended |-> out = <<>> \/ f.ended]
  BY DEF SedDeleted, Kept
<1>4. SedDeleted(f, id).lines = out /\ SedDeleted(f, id).ended = (out = <<>> \/ f.ended)
  <2> HIDE DEF out
  <2> QED BY <1>3
<1> HIDE DEF k
<1>5. k \in Seq(1 .. Len(f.lines)) /\ Len(k) \in Nat
  BY <1>2 DEF Enumerates
<1>6. \A n \in 1 .. Len(k) : f.lines[k[n]] \in S
  BY <1>5
<1>7. out \in Seq(S) /\ Len(out) = Len(k)
  BY <1>5, <1>6, IsASeq
<1>8. \A n \in 1 .. Len(k) : out[n] = f.lines[k[n]]
  OBVIOUS
<1> HIDE DEF out
<1> QED BY <1>2, <1>4, <1>7, <1>8

-----------------------------------------------------------------------------
(* Types.                                                                  *)

\* Where a worker may be.
PC == Resting \cup GrantPC \cup RevokePC

\* Where a script is once it has seen or made its file.
Opened == (GrantPC \ {"mkdir", "stat", "touch"}) \cup {"sedRead", "sedRename"}

\* A script works for the request it was made for, and its file is there once it has seen it.
JobOK ==
  \A w \in Workers :
    /\ pc[w] # "idle" => job[w] \in Requests
    /\ pc[w] \in GrantPC => job[w].action = "grant" /\ job[w].text \in Text
    /\ pc[w] \in RevokePC => job[w].action = "revoke"
    /\ pc[w] \in Opened => file[FileOf(job[w])].exists

\* A file that is not there has no lines.
FileOK == \A f \in Files : ~file[f].exists => file[f].lines = <<>> /\ file[f].ended

\* The invariant that is inductive for the types.
TypeInv == TypeOK /\ JobOK /\ FileOK

\* The values of file[f] and of snapshot[w].
FileType ==
  [exists : BOOLEAN, lines : Seq(Lines), ended : BOOLEAN, mode : {"old", "umask", "set"}]
Snapshots == [lines : Seq(Lines), ended : BOOLEAN]

\* The values of etcSudoers.
SudoersStates == {"ended", "unended", "glued", "included"}

\* Every request has its file.
LEMMA FileOfType == \A r : FileOf(r) \in Files
  BY DEF FileOf, Files

\* What the scripts and others write are lines.
LEMMA LinesType ==
  /\ \A id \in Id : Comment(id) \in Lines /\ Glued(id) \in Lines
  /\ \A t \in Text : Content(t) \in Lines
  /\ Other("blank") \in Lines /\ Other("foreign") \in Lines
  BY DEF Lines

\* The types hold of whatever authorized_keys was before.
LEMMA InitTyped == Init => TypeInv
<1> SUFFICES ASSUME Init PROVE TypeInv
  OBVIOUS
<1>1. PICK f \in OldFiles : file = [keys |-> f, sudoers |-> AbsentFile]
  BY DEF Init
<1>2. AbsentFile \in FileType /\ AbsentFile.lines = <<>> /\ AbsentFile.ended
  BY DEF AbsentFile, FileType
<1>3. f \in FileType /\ (~f.exists => f.lines = <<>> /\ f.ended)
  <2>1. CASE OldKeys = {}
    BY <1>2, <2>1 DEF OldFiles
  <2>2. CASE OldKeys # {}
    <3>1. PICK o \in OldKeys :
            f = [exists |-> TRUE, lines |-> o.lines, ended |-> o.ended, mode |-> "old"]
      BY <2>2 DEF OldFiles
    <3>2. o.lines \in Seq({Other("blank"), Other("foreign")}) /\ o.ended \in BOOLEAN
      BY OldKeysAssumption
    <3>3. {Other("blank"), Other("foreign")} \subseteq Lines
      BY LinesType
    <3>4. o.lines \in Seq(Lines)
      BY <3>2, <3>3, SeqMonotonic
    <3> QED BY <3>1, <3>2, <3>4 DEF FileType
  <2> QED BY <2>1, <2>2
<1>4. file \in [Files -> FileType] /\ file["keys"] = f /\ file["sudoers"] = AbsentFile
  BY <1>1, <1>2, <1>3 DEF Files
<1>5. FileOK
  BY <1>2, <1>3, <1>4 DEF FileOK, Files
<1>6. NoSnapshot \in Snapshots
  BY DEF NoSnapshot, Snapshots
<1>7. TypeOK
  <2>1. /\ etcSudoers \in SudoersStates /\ job \in [Workers -> Requests \cup {None}]
        /\ found \in [Workers -> BOOLEAN]
    BY RequestAssumption DEF Init, SudoersStates
  <2>2. pc \in [Workers -> PC]
    BY DEF Init, PC, Resting
  <2>3. snapshot \in [Workers -> Snapshots]
    BY <1>6 DEF Init
  <2> QED BY <1>4, <2>1, <2>2, <2>3 DEF TypeOK, FileType, Snapshots, SudoersStates, PC
<1>8. JobOK
  BY DEF Init, JobOK, GrantPC, RevokePC, Opened
<1> QED BY <1>5, <1>7, <1>8 DEF TypeInv

\* What a worker that is not idle works for.
LEMMA JobType ==
  ASSUME TypeInv, NEW w \in Workers, pc[w] # "idle"
  PROVE  /\ job[w] \in Requests /\ job[w].id \in Id
         /\ job[w].text \in Text \cup {None} /\ job[w].cmd \in Command
         /\ pc[w] \in GrantPC => job[w].text \in Text
<1>1. job[w] \in Requests
  BY DEF TypeInv, JobOK
<1>2. pc[w] \in GrantPC => job[w].text \in Text
  BY DEF TypeInv, JobOK
<1>3. job[w] \in [cmd : Command, action : {"grant", "revoke"}, id : Id, text : Text \cup {None}]
  BY <1>1, RequestAssumption
<1> HIDE DEF Command
<1> QED BY <1>1, <1>2, <1>3

\* The output of sed is a snapshot.
LEMMA SedDeletedType ==
  ASSUME NEW f, f.lines \in Seq(Lines), f.ended \in BOOLEAN, NEW id
  PROVE  SedDeleted(f, id) \in Snapshots
<1>1. SedDeleted(f, id).lines \in Seq(Lines)
  BY SedKeeps
<1> DEFINE k   == Ascending(Len(f.lines), Kept(f.lines, id))
           out == [n \in 1 .. Len(k) |-> f.lines[k[n]]]
<1>2. SedDeleted(f, id) = [lines |-> out, ended |-> out = <<>> \/ f.ended]
  BY DEF SedDeleted, Kept
<1> HIDE DEF out
<1>3. out \in Seq(Lines)
  BY <1>1, <1>2
<1> QED BY <1>2, <1>3 DEF Snapshots

\* What tee -a leaves is a file.
LEMMA AppendedType ==
  ASSUME NEW f \in FileType, NEW id, NEW t,
         Comment(id) \in Lines, Glued(id) \in Lines, Content(t) \in Lines
  PROVE  Appended(f, id, t) \in FileType /\ Appended(f, id, t).exists = f.exists
<1>1. f.lines \in Seq(Lines) /\ Front(f.lines) \in Seq(Lines)
  <2>1. f.lines \in Seq(Lines) /\ Len(f.lines) \in Nat
    BY DEF FileType
  <2>2. SubSeq(f.lines, 1, Len(f.lines) - 1) \in Seq(Lines)
    BY <2>1, SubSeqProperties
  <2> QED BY <2>1, <2>2 DEF Front
<1>2. <<Comment(id), Content(t)>> \in Seq(Lines) /\ <<Glued(id), Content(t)>> \in Seq(Lines)
  OBVIOUS
<1>3. PICK a \in Seq(Lines) : a = f.lines \o <<Comment(id), Content(t)>>
  BY <1>1, <1>2, ConcatProperties
<1>4. PICK b \in Seq(Lines) : b = Front(f.lines) \o <<Glued(id), Content(t)>>
  BY <1>1, <1>2, ConcatProperties
<1>5. Appended(f, id, t) = [f EXCEPT !.ended = TRUE, !.lines = IF f.ended THEN a ELSE b]
  BY <1>3, <1>4 DEF Appended
<1> QED BY <1>5 DEF FileType

\* A step of worker w that leaves files and jobs alone.
LEMMA WorkerMoves ==
  ASSUME TypeInv, NEW w \in Workers, NEW l \in PC, Goto(w, l), UNCHANGED <<file, job>>,
         etcSudoers' \in SudoersStates, found' \in [Workers -> BOOLEAN],
         snapshot' \in [Workers -> Snapshots], l # "idle" => pc[w] # "idle",
         l \in GrantPC => pc[w] \in GrantPC, l \in RevokePC => pc[w] \in RevokePC,
         l \in Opened => file[FileOf(job[w])].exists
  PROVE  TypeInv'
<1>1. pc \in [Workers -> PC] /\ pc' = [pc EXCEPT ![w] = l]
  BY DEF TypeInv, TypeOK, PC, Goto
<1>2. pc' \in [Workers -> PC] /\ pc'[w] = l /\ \A v \in Workers : v # w => pc'[v] = pc[v]
  BY <1>1
<1>3. TypeOK'
  BY <1>2 DEF TypeInv, TypeOK, PC, Snapshots, SudoersStates
<1>4. FileOK'
  BY DEF TypeInv, FileOK
<1>5. JobOK'
  <2> SUFFICES ASSUME NEW v \in Workers
      PROVE  /\ pc'[v] # "idle" => job[v] \in Requests
             /\ pc'[v] \in GrantPC => job[v].action = "grant" /\ job[v].text \in Text
             /\ pc'[v] \in RevokePC => job[v].action = "revoke"
             /\ pc'[v] \in Opened => file[FileOf(job[v])].exists
    BY DEF JobOK, FileOf
  <2> QED BY <1>2 DEF TypeInv, JobOK
<1> QED BY <1>3, <1>4, <1>5 DEF TypeInv

\* A step that changes one file and moves the worker on.
LEMMA WorkerWrites ==
  ASSUME TypeInv, NEW w \in Workers, NEW l \in PC, Goto(w, l), UNCHANGED <<etcSudoers, job, found>>,
         NEW g \in Files, NEW r \in FileType, file' = [file EXCEPT ![g] = r],
         file[g].exists => r.exists, ~r.exists => r.lines = <<>> /\ r.ended,
         snapshot' \in [Workers -> Snapshots],
         pc[w] # "idle",
         l \in GrantPC => pc[w] \in GrantPC, l \in RevokePC => pc[w] \in RevokePC,
         l \in Opened => file'[FileOf(job[w])].exists
  PROVE  TypeInv'
<1>1. pc \in [Workers -> PC] /\ pc' = [pc EXCEPT ![w] = l]
  BY DEF TypeInv, TypeOK, PC, Goto
<1>2. pc' \in [Workers -> PC] /\ pc'[w] = l /\ \A v \in Workers : v # w => pc'[v] = pc[v]
  BY <1>1
<1>3. file \in [Files -> FileType]
  BY DEF TypeInv, TypeOK, FileType
<1>4. file' \in [Files -> FileType] /\ file'[g] = r /\ \A f \in Files : f # g => file'[f] = file[f]
  BY <1>3
<1>5. TypeOK'
  BY <1>2, <1>4 DEF TypeInv, TypeOK, PC, Snapshots, FileType
<1>6. FileOK'
  BY <1>4 DEF TypeInv, FileOK
<1>7. \A f \in Files : file[f].exists => file'[f].exists
  BY <1>4
<1>8. JobOK'
  <2> SUFFICES ASSUME NEW v \in Workers
      PROVE  /\ pc'[v] # "idle" => job[v] \in Requests
             /\ pc'[v] \in GrantPC => job[v].action = "grant" /\ job[v].text \in Text
             /\ pc'[v] \in RevokePC => job[v].action = "revoke"
             /\ pc'[v] \in Opened => file'[FileOf(job[v])].exists
    BY DEF JobOK, FileOf
  <2>1. pc[v] \in Opened => file'[FileOf(job[v])].exists
    BY <1>7, FileOfType DEF TypeInv, JobOK
  <2> QED BY <1>2, <2>1 DEF TypeInv, JobOK
<1> QED BY <1>5, <1>6, <1>8 DEF TypeInv

\* What the variables are, in one place.
LEMMA Typed ==
  ASSUME TypeInv
  PROVE  /\ file \in [Files -> FileType] /\ etcSudoers \in SudoersStates
         /\ pc \in [Workers -> PC]
         /\ found \in [Workers -> BOOLEAN] /\ snapshot \in [Workers -> Snapshots]
  BY DEF TypeInv, TypeOK, FileType, PC, Snapshots, SudoersStates

\* A step that takes a request on.
LEMMA BeginTyped ==
  ASSUME TypeInv, NEW w \in Workers, NEW r \in Requests, NEW l \in PC \ (Opened \cup {"idle"}),
         job' = [job EXCEPT ![w] = r], Goto(w, l), UNCHANGED <<file, etcSudoers, found, snapshot>>,
         l \in GrantPC => r.action = "grant" /\ r.text \in Text,
         l \in RevokePC => r.action = "revoke"
  PROVE  TypeInv'
<1>1. pc \in [Workers -> PC] /\ pc' = [pc EXCEPT ![w] = l]
  BY DEF TypeInv, TypeOK, PC, Goto
<1>2. pc' \in [Workers -> PC] /\ pc'[w] = l /\ \A v \in Workers : v # w => pc'[v] = pc[v]
  BY <1>1
<1>3. /\ job' \in [Workers -> Requests \cup {None}] /\ job'[w] = r
      /\ \A v \in Workers : v # w => job'[v] = job[v]
  BY DEF TypeInv, TypeOK
<1>4. TypeOK'
  BY <1>2, <1>3 DEF TypeInv, TypeOK, PC
<1>5. FileOK'
  BY DEF TypeInv, FileOK
<1>6. JobOK'
  <2> SUFFICES ASSUME NEW v \in Workers
      PROVE  /\ pc'[v] # "idle" => job'[v] \in Requests
             /\ pc'[v] \in GrantPC => job'[v].action = "grant" /\ job'[v].text \in Text
             /\ pc'[v] \in RevokePC => job'[v].action = "revoke"
             /\ pc'[v] \in Opened => file[FileOf(job'[v])].exists
    BY DEF JobOK, FileOf
  <2>1. CASE v = w
    BY <2>1, <1>2, <1>3
  <2>2. CASE v # w
    BY <2>2, <1>2, <1>3 DEF TypeInv, JobOK
  <2> QED BY <2>1, <2>2
<1> QED BY <1>4, <1>5, <1>6 DEF TypeInv

\* The types, for the steps of a script and its ends.
LEMMA WorkerTyped ==
  ASSUME TypeInv, NEW w \in Workers, ScriptStep(w) \/ CommandFails(w) \/ Dies(w)
  PROVE  TypeInv'
<1> USE Typed
<1>j. pc[w] # "idle" => job[w].id \in Id /\ (pc[w] \in GrantPC => job[w].text \in Text)
  BY JobType
<1>f. FileOf(job[w]) \in Files
  BY FileOfType
<1>o. pc[w] \in Opened => file[FileOf(job[w])].exists
  BY DEF TypeInv, JobOK
<1>1. CASE CommandFails(w)
  <2>1. "failed" \in PC /\ Goto(w, "failed") /\ pc[w] # "idle" /\ "failed" \notin GrantPC
        /\ "failed" \notin RevokePC /\ "failed" \notin Opened
    BY <1>1 DEF CommandFails, PC, Resting, GrantPC, RevokePC, Opened
  <2> QED BY <1>1, <2>1, WorkerMoves DEF CommandFails
<1>2. CASE Dies(w)
  <2>1. "idle" \in PC /\ "idle" \notin GrantPC /\ "idle" \notin RevokePC /\ "idle" \notin Opened
    BY DEF PC, Resting, GrantPC, RevokePC, Opened
  <2> QED BY <1>2, <2>1, WorkerMoves DEF Dies
<1>3. CASE MakeDirectory(w)
  <2>1. "stat" \in PC /\ "stat" \in GrantPC /\ "mkdir" \in GrantPC /\ "stat" \notin Opened
        /\ "stat" \notin RevokePC
    BY DEF PC, Resting, GrantPC, RevokePC, Opened
  <2> QED BY <1>3, <2>1, WorkerMoves DEF MakeDirectory, Step
<1>4. CASE StatFile(w)
  <2>1. /\ {"stat", "grepComment", "touch"} \subseteq GrantPC /\ GrantPC \subseteq PC
        /\ "touch" \notin Opened /\ "touch" \notin RevokePC /\ "grepComment" \notin RevokePC
    BY DEF PC, GrantPC, RevokePC, Opened
  <2>2. PICK l \in PC : /\ l = IF file[FileOf(job[w])].exists THEN "grepComment" ELSE "touch"
                        /\ pc[w] = "stat" /\ Goto(w, l)
    BY <1>4, <2>1 DEF StatFile, Step
  <2> QED BY <1>4, <2>1, <2>2, WorkerMoves DEF StatFile
<1>5. CASE TouchFile(w)
  <2>1. /\ {"chmod", "touch"} \subseteq GrantPC /\ GrantPC \subseteq PC /\ "chmod" \notin RevokePC
    BY DEF PC, GrantPC, RevokePC
  <2> DEFINE r == IF file[FileOf(job[w])].exists THEN file[FileOf(job[w])] ELSE NewFile
  <2>2. NewFile \in FileType /\ NewFile.exists
    BY DEF NewFile, FileType
  <2>3. r \in FileType /\ r.exists
    BY <2>2, <1>f
  <2>4. file' = [file EXCEPT ![FileOf(job[w])] = r]
    BY <1>5 DEF TouchFile
  <2>5. file'[FileOf(job[w])].exists
    BY <2>3, <2>4, <1>f
  <2>6. /\ pc[w] = "touch" /\ Goto(w, "chmod") /\ UNCHANGED <<etcSudoers, job, found>>
        /\ snapshot' \in [Workers -> Snapshots]
    BY <1>5 DEF TouchFile, Step
  <2> HIDE DEF r
  <2> QED BY <1>f, <2>1, <2>3, <2>4, <2>5, <2>6, WorkerWrites
<1>6. CASE ChangeMode(w)
  <2>1. /\ {"chmod", "grepComment"} \subseteq GrantPC /\ GrantPC \subseteq PC
        /\ "grepComment" \notin RevokePC /\ "chmod" \in Opened
    BY DEF PC, GrantPC, RevokePC, Opened
  <2> DEFINE r == [file[FileOf(job[w])] EXCEPT !.mode = "set"]
  <2>2. r \in FileType /\ r.exists
    BY <1>6, <1>f, <1>o, <2>1 DEF FileType, ChangeMode, Step
  <2>4. file' = [file EXCEPT ![FileOf(job[w])] = r]
    BY <1>6 DEF ChangeMode
  <2>5. file'[FileOf(job[w])].exists
    BY <2>2, <2>4, <1>f
  <2>6. /\ pc[w] = "chmod" /\ Goto(w, "grepComment") /\ UNCHANGED <<etcSudoers, job, found>>
        /\ snapshot' \in [Workers -> Snapshots]
    BY <1>6 DEF ChangeMode, Step
  <2> HIDE DEF r
  <2> QED BY <1>f, <2>1, <2>2, <2>4, <2>5, <2>6, WorkerWrites
<1>7. CASE GrepComment(w)
  <2>1. /\ {"grepContent", "grepComment"} \subseteq GrantPC /\ GrantPC \subseteq PC
        /\ "grepContent" \notin RevokePC /\ "grepComment" \in Opened
    BY DEF PC, GrantPC, RevokePC, Opened
  <2>2. HasComment(file[FileOf(job[w])], job[w].id) \in BOOLEAN
    BY DEF HasComment
  <2>3. found' \in [Workers -> BOOLEAN]
    BY <1>7, <2>2 DEF GrepComment
  <2> QED BY <1>7, <1>o, <2>1, <2>3, WorkerMoves DEF GrepComment, Step
<1>8. CASE GrepContent(w)
  <2>1. /\ {"grepContent", "append", "grepInclude"} \subseteq GrantPC /\ GrantPC \subseteq PC
        /\ "succeeded" \in PC /\ "grepContent" \in Opened
        /\ {"succeeded", "append", "grepInclude"} \cap (RevokePC \cup {"idle"}) = {}
        /\ "succeeded" \notin Opened /\ "succeeded" \notin GrantPC
    BY DEF PC, Resting, GrantPC, RevokePC, Opened
  <2>2. PICK l \in {"succeeded", "append", "grepInclude"} : Goto(w, l) /\ pc[w] = "grepContent"
    BY <1>8 DEF GrepContent, Step, AfterContent
  <2> QED BY <1>8, <1>o, <2>1, <2>2, WorkerMoves DEF GrepContent
<1>9. CASE GrepFails(w)
  <2>1. /\ {"grepContent", "append", "appendInclude", "grepComment", "grepInclude"} \subseteq GrantPC
        /\ GrantPC \subseteq PC /\ {"grepContent", "grepComment", "grepInclude"} \subseteq Opened
        /\ {"grepContent", "append", "appendInclude"} \cap (RevokePC \cup {"idle"}) = {}
    BY DEF PC, Resting, GrantPC, RevokePC, Opened
  <2>2. PICK l \in {"grepContent", "append", "appendInclude"} :
          Goto(w, l) /\ pc[w] \in {"grepComment", "grepContent", "grepInclude"}
    BY <1>9 DEF GrepFails, Step
  <2>3. found' \in [Workers -> BOOLEAN]
    BY <1>9 DEF GrepFails
  <2> QED BY <1>9, <1>o, <2>1, <2>2, <2>3, WorkerMoves DEF GrepFails
<1>10. CASE AppendContent(w)
  <2>1. /\ {"append", "grepInclude"} \subseteq GrantPC /\ GrantPC \subseteq PC
        /\ "succeeded" \in PC /\ "append" \in Opened /\ "append" # "idle"
        /\ {"succeeded", "grepInclude"} \cap (RevokePC \cup {"idle"}) = {}
        /\ "succeeded" \notin Opened /\ "succeeded" \notin GrantPC
    BY DEF PC, Resting, GrantPC, RevokePC, Opened
  <2>2. PICK l \in {"succeeded", "grepInclude"} : Goto(w, l) /\ pc[w] = "append"
    BY <1>10 DEF AppendContent, Step, AfterContent
  <2> DEFINE g == FileOf(job[w])
             r == Appended(file[g], job[w].id, job[w].text)
  <2>3. file[g] \in FileType /\ file[g].exists
    BY <1>f, <1>o, <2>1, <2>2
  <2>4. Comment(job[w].id) \in Lines /\ Glued(job[w].id) \in Lines /\ Content(job[w].text) \in Lines
    BY <1>j, <2>1, <2>2, LinesType
  <2>5. r \in FileType /\ r.exists
    BY <2>3, <2>4, AppendedType
  <2>6. file' = [file EXCEPT ![g] = r]
    BY <1>10 DEF AppendContent
  <2>7. file'[g].exists
    <3>1. file \in [Files -> FileType]
      BY Typed
    <3>2. file'[g] = r
      BY <1>f, <2>6, <3>1
    <3> QED BY <2>5, <3>2
  <2> HIDE DEF r
  <2>8. UNCHANGED <<etcSudoers, job, found>> /\ snapshot' \in [Workers -> Snapshots]
    BY <1>10, Typed DEF AppendContent
  <2>9. l \in PC /\ pc[w] # "idle" /\ pc[w] \in GrantPC /\ l \notin RevokePC
    BY <2>1, <2>2
  <2> QED BY <1>f, <2>2, <2>5, <2>6, <2>7, <2>8, <2>9, WorkerWrites
<1>11. CASE GrepInclude(w)
  <2>1. /\ {"grepInclude", "appendInclude"} \subseteq GrantPC /\ GrantPC \subseteq PC
        /\ "succeeded" \in PC /\ "grepInclude" \in Opened
        /\ {"succeeded", "appendInclude"} \cap (RevokePC \cup {"idle"}) = {}
        /\ "succeeded" \notin Opened /\ "succeeded" \notin GrantPC
    BY DEF PC, Resting, GrantPC, RevokePC, Opened
  <2>2. PICK l \in {"succeeded", "appendInclude"} : Goto(w, l) /\ pc[w] = "grepInclude"
    BY <1>11 DEF GrepInclude, Step
  <2> QED BY <1>11, <1>o, <2>1, <2>2, WorkerMoves DEF GrepInclude
<1>12. CASE AppendInclude(w)
  <2>1. /\ "succeeded" \in PC /\ "succeeded" \notin Opened /\ "succeeded" \notin GrantPC
        /\ "succeeded" \notin RevokePC
    BY DEF PC, Resting, GrantPC, RevokePC, Opened
  <2>2. etcSudoers' \in SudoersStates
    BY <1>12 DEF AppendInclude, SudoersStates
  <2> QED BY <1>12, <2>1, <2>2, WorkerMoves DEF AppendInclude, Step
<1>13. CASE StatBeforeRemove(w)
  <2>1. /\ {"statRemove", "sedRead"} \subseteq RevokePC /\ RevokePC \subseteq PC
        /\ "succeeded" \in PC /\ "succeeded" \notin Opened /\ "succeeded" \notin RevokePC
        /\ {"succeeded", "sedRead"} \cap (GrantPC \cup {"idle"}) = {}
    BY DEF PC, Resting, GrantPC, RevokePC, Opened
  <2>2. PICK l \in PC : /\ l = IF file[FileOf(job[w])].exists THEN "sedRead" ELSE "succeeded"
                        /\ pc[w] = "statRemove" /\ Goto(w, l)
    BY <1>13, <2>1 DEF StatBeforeRemove, Step
  <2> QED BY <1>13, <2>1, <2>2, WorkerMoves DEF StatBeforeRemove
<1>14. CASE SedReads(w)
  <2>1. /\ {"sedRead", "sedRename"} \subseteq RevokePC /\ RevokePC \subseteq PC
        /\ "sedRename" \notin GrantPC /\ "sedRead" \in Opened
    BY DEF PC, GrantPC, RevokePC, Opened
  <2>2. file[FileOf(job[w])].lines \in Seq(Lines) /\ file[FileOf(job[w])].ended \in BOOLEAN
    BY <1>f DEF FileType
  <2>3. SedDeleted(file[FileOf(job[w])], job[w].id) \in Snapshots
    BY <2>2, SedDeletedType
  <2>4. snapshot' \in [Workers -> Snapshots]
    BY <1>14, <2>3 DEF SedReads
  <2> QED BY <1>14, <1>o, <2>1, <2>4, WorkerMoves DEF SedReads, Step
<1>15. CASE SedRenames(w)
  <2>1. /\ "sedRename" \in Opened /\ "succeeded" \in PC /\ "succeeded" \notin Opened
        /\ "succeeded" \notin RevokePC /\ "succeeded" \notin GrantPC
    BY DEF PC, Resting, GrantPC, RevokePC, Opened
  <2> DEFINE g == FileOf(job[w])
             r == [file[g] EXCEPT !.lines = snapshot[w].lines, !.ended = snapshot[w].ended]
  <2>2. snapshot[w] \in Snapshots
    OBVIOUS
  <2>3. file[g] \in FileType /\ file[g].exists
    BY <1>f, <1>o, <1>15, <2>1 DEF SedRenames, Step
  <2>4. r \in FileType /\ r.exists
    BY <2>2, <2>3 DEF FileType, Snapshots
  <2>5. file' = [file EXCEPT ![g] = r]
    BY <1>15, <1>f DEF SedRenames
  <2>6. snapshot' \in [Workers -> Snapshots]
    <3>1. NoSnapshot \in Snapshots
      BY DEF NoSnapshot, Snapshots
    <3> QED BY <3>1, <1>15 DEF SedRenames
  <2> HIDE DEF r
  <2> QED BY <1>15, <1>f, <2>1, <2>4, <2>5, <2>6, WorkerWrites DEF SedRenames, Step
<1> QED BY <1>1, <1>2, <1>3, <1>4, <1>5, <1>6, <1>7, <1>8, <1>9, <1>10, <1>11, <1>12, <1>13,
           <1>14, <1>15 DEF ScriptStep

\* The parts of a request.
LEMMA RequestTyped ==
  ASSUME NEW r \in Requests
  PROVE  /\ r.id \in Id /\ r.action \in {"grant", "revoke"}
         /\ r.text # None => r.text \in Text
<1>1. r \in [cmd : Command, action : {"grant", "revoke"}, id : Id, text : Text \cup {None}]
  BY RequestAssumption
<1> HIDE DEF Command
<1> QED BY <1>1

\* The types, for requests taken on.
LEMMA StartTyped ==
  ASSUME TypeInv, NEW w \in Workers, NEW r \in Requests, Begin(w, r) \/ UserMissing(w, r)
  PROVE  TypeInv'
<1>1. /\ {"statRemove", "mkdir", "failed", "succeeded"} \subseteq PC \ (Opened \cup {"idle"})
      /\ {"failed", "succeeded"} \cap (GrantPC \cup RevokePC) = {}
      /\ "statRemove" \notin GrantPC /\ "mkdir" \notin RevokePC
  BY DEF PC, Resting, GrantPC, RevokePC, Opened
<1>2. r.action \in {"grant", "revoke"} /\ (r.text # None => r.text \in Text)
  BY RequestTyped
<1>3. CASE UserMissing(w, r)
  <2>1. /\ Goto(w, "failed") /\ job' = [job EXCEPT ![w] = r]
        /\ UNCHANGED <<file, etcSudoers, found, snapshot>>
    BY <1>3 DEF UserMissing
  <2> QED BY <1>1, <2>1, BeginTyped
<1>4. CASE Begin(w, r)
  <2>1. job' = [job EXCEPT ![w] = r] /\ UNCHANGED <<file, etcSudoers, found, snapshot>>
    BY <1>4 DEF Begin
  <2>2. CASE r.action = "revoke"
    <3>1. Goto(w, "statRemove")
      BY <1>4, <2>2 DEF Begin
    <3> QED BY <1>1, <2>1, <2>2, <3>1, BeginTyped
  <2>3. CASE r.action = "grant" /\ r.text # None
    <3>1. Goto(w, "mkdir")
      BY <1>4, <2>3 DEF Begin
    <3> QED BY <1>1, <1>2, <2>1, <2>3, <3>1, BeginTyped
  <2>4. CASE r.action = "grant" /\ r.text = None
    <3>1. PICK l \in {"failed", "succeeded"} : Goto(w, l)
      BY <1>4, <2>4 DEF Begin
    <3> QED BY <1>1, <2>1, <3>1, BeginTyped
  <2> QED BY <1>2, <2>2, <2>3, <2>4
<1> QED BY <1>3, <1>4

\* The types, for lines written by hand.
LEMMA OperatorTyped ==
  ASSUME TypeInv, NEW kind \in ByHand, OperatorAppends(kind)
  PROVE  TypeInv'
<1>1. Other(kind) \in Lines
  BY LinesType, RequestAssumption
<1>2. "keys" \in Files
  BY DEF Files
<1>3. file["keys"] \in FileType /\ file \in [Files -> FileType]
  BY <1>2, Typed
<1> DEFINE r == [file["keys"] EXCEPT !.lines = Append(@, Other(kind))]
<1>4. Append(file["keys"].lines, Other(kind)) \in Seq(Lines)
  BY <1>1, <1>3, AppendProperties DEF FileType
<1>5. r \in FileType /\ r.exists
  BY <1>3, <1>4 DEF FileType, OperatorAppends
<1>6. file' = [file EXCEPT !["keys"] = r]
  BY DEF OperatorAppends
<1> HIDE DEF r
<1>7. /\ file' \in [Files -> FileType] /\ file'["keys"] = r
      /\ \A f \in Files : f # "keys" => file'[f] = file[f]
  BY <1>2, <1>3, <1>5, <1>6
<1>8. TypeOK'
  BY <1>7 DEF OperatorAppends, TypeInv, TypeOK, FileType
<1>9. FileOK'
  BY <1>5, <1>7 DEF TypeInv, FileOK
<1>10. \A f \in Files : file[f].exists => file'[f].exists
  BY <1>5, <1>7
<1>11. JobOK'
  <2> SUFFICES ASSUME NEW v \in Workers
      PROVE  /\ pc[v] # "idle" => job[v] \in Requests
             /\ pc[v] \in GrantPC => job[v].action = "grant" /\ job[v].text \in Text
             /\ pc[v] \in RevokePC => job[v].action = "revoke"
             /\ pc[v] \in Opened => file'[FileOf(job[v])].exists
    BY DEF OperatorAppends, JobOK, FileOf
  <2> QED BY <1>10, FileOfType DEF TypeInv, JobOK
<1> QED BY <1>8, <1>9, <1>11 DEF TypeInv

\* The types, for steps of no variable.
LEMMA StutterTyped == TypeInv /\ UNCHANGED vars => TypeInv'
<1> SUFFICES ASSUME TypeInv, UNCHANGED vars PROVE TypeInv'
  OBVIOUS
<1> USE DEF vars
<1>1. TypeOK'
  BY DEF TypeInv, TypeOK
<1>2. FileOK'
  BY DEF TypeInv, FileOK
<1>3. JobOK'
  <2> SUFFICES ASSUME NEW v \in Workers
      PROVE  /\ pc[v] # "idle" => job[v] \in Requests
             /\ pc[v] \in GrantPC => job[v].action = "grant" /\ job[v].text \in Text
             /\ pc[v] \in RevokePC => job[v].action = "revoke"
             /\ pc[v] \in Opened => file[FileOf(job[v])].exists
    BY DEF JobOK, FileOf
  <2> QED BY DEF TypeInv, JobOK
<1> QED BY <1>1, <1>2, <1>3 DEF TypeInv

\* The types are an invariant.
LEMMA TypeInvariance == Spec => []TypeInv
<1>1. TypeInv /\ [Next]_vars => TypeInv'
  BY StartTyped, WorkerTyped, OperatorTyped, StutterTyped DEF Next
<1> QED BY InitTyped, <1>1, PTL DEF Spec

\* Every state is well typed: any number of lines and workers, any requests and failures.
THEOREM TypeCorrect == Spec => []TypeOK
<1>1. TypeInv => TypeOK
  BY DEF TypeInv
<1> QED BY TypeInvariance, <1>1, PTL

-----------------------------------------------------------------------------
(* What one step does to the lines of a file.                              *)

\* The lines of f stay; worker w appends to f; it renames its snapshot to f; somebody else
\* appends to f.
SameLines(f) == file'[f].lines = file[f].lines /\ file'[f].ended = file[f].ended

Appends(w, f) ==
  /\ pc[w] = "append" /\ FileOf(job[w]) = f
  /\ file'[f].lines = Appended(file[f], job[w].id, job[w].text).lines /\ file'[f].ended

Renames(w, f) ==
  /\ pc[w] = "sedRename" /\ FileOf(job[w]) = f
  /\ file'[f].lines = snapshot[w].lines /\ file'[f].ended = snapshot[w].ended

ByOperator(f) ==
  /\ f = "keys" /\ file[f].ended /\ file'[f].ended
  /\ \E kind \in ByHand : file'[f].lines = Append(file[f].lines, Other(kind))

\* A step of a script leaves the lines of a file alone, or is tee -a or the rename of sed -i.
LEMMA ScriptChanges ==
  ASSUME TypeInv, NEW w \in Workers, ScriptStep(w), NEW f \in Files
  PROVE  SameLines(f) \/ Appends(w, f) \/ Renames(w, f)
<1>1. file \in [Files -> FileType] /\ file[f] \in FileType /\ snapshot[w] \in Snapshots
  BY Typed
<1>2. CASE UNCHANGED file
  BY <1>2 DEF SameLines
<1>3. CASE TouchFile(w)
  <2>1. file'[f] = IF FileOf(job[w]) = f /\ ~file[f].exists THEN NewFile ELSE file[f]
    BY <1>1, <1>3 DEF TouchFile
  <2>2. file[f].ended \in BOOLEAN /\ NewFile.lines = <<>> /\ NewFile.ended = TRUE
    BY <1>1 DEF FileType, NewFile
  <2>3. ~file[f].exists => file[f].lines = NewFile.lines /\ file[f].ended = NewFile.ended
    BY <2>2 DEF TypeInv, FileOK
  <2> QED BY <2>1, <2>3 DEF SameLines
<1>4. CASE ChangeMode(w)
  BY <1>1, <1>4 DEF ChangeMode, SameLines, FileType
<1>5. CASE AppendContent(w)
  <2>1. CASE FileOf(job[w]) = f
    <3>1. file'[f] = Appended(file[f], job[w].id, job[w].text)
      BY <1>1, <1>5, <2>1 DEF AppendContent
    <3>2. Appended(file[f], job[w].id, job[w].text).ended
      BY <1>1 DEF Appended, FileType
    <3> QED BY <1>5, <2>1, <3>1, <3>2 DEF Appends, AppendContent, Step
  <2>2. CASE FileOf(job[w]) # f
    BY <1>1, <1>5, <2>2 DEF AppendContent, SameLines
  <2> QED BY <2>1, <2>2
<1>6. CASE SedRenames(w)
  <2>1. CASE FileOf(job[w]) = f
    <3>1. /\ file'[f].lines = snapshot[w].lines
          /\ file'[f].ended = snapshot[w].ended
      BY <1>1, <1>6, <2>1 DEF SedRenames, FileType
    <3> QED BY <1>6, <2>1, <3>1 DEF Renames, SedRenames, Step
  <2>2. CASE FileOf(job[w]) # f
    BY <1>1, <1>6, <2>2 DEF SedRenames, SameLines
  <2> QED BY <2>1, <2>2
<1> QED BY <1>2, <1>3, <1>4, <1>5, <1>6
        DEF ScriptStep, MakeDirectory, StatFile, GrepComment, GrepContent, GrepFails,
            GrepInclude, AppendInclude, StatBeforeRemove, SedReads

\* Every step leaves the lines of a file alone or changes them in one of the three ways.
LEMMA LineChanges ==
  ASSUME TypeInv, [Next]_vars, NEW f \in Files
  PROVE  SameLines(f) \/ ByOperator(f) \/ \E w \in Workers : Appends(w, f) \/ Renames(w, f)
<1>1. CASE UNCHANGED file
  BY <1>1 DEF SameLines
<1>2. ASSUME NEW w \in Workers, ScriptStep(w)
      PROVE  SameLines(f) \/ Appends(w, f) \/ Renames(w, f)
  BY <1>2, ScriptChanges
<1>3. ASSUME NEW kind \in ByHand, OperatorAppends(kind)
      PROVE  SameLines(f) \/ ByOperator(f)
  <2>1. file \in [Files -> FileType] /\ "keys" \in Files /\ file["keys"] \in FileType
    BY Typed DEF Files
  <2>2. CASE f = "keys"
    BY <1>3, <2>1, <2>2 DEF OperatorAppends, ByOperator, FileType
  <2>3. CASE f # "keys"
    BY <1>3, <2>1, <2>3 DEF OperatorAppends, SameLines
  <2> QED BY <2>2, <2>3
<1> QED BY <1>1, <1>2, <1>3 DEF Next, Begin, UserMissing, CommandFails, Dies, vars

\* A snapshot that is about to be written was there before, or has just been taken.
LEMMA SnapshotChanges ==
  ASSUME TypeInv, [Next]_vars, NEW v \in Workers, pc'[v] = "sedRename"
  PROVE  /\ job'[v] = job[v]
         /\ \/ pc[v] = "sedRename" /\ snapshot'[v] = snapshot[v]
            \/ /\ pc[v] = "sedRead" /\ UNCHANGED file
               /\ snapshot'[v] = SedDeleted(file[FileOf(job[v])], job[v].id)
<1>1. pc \in [Workers -> PC] /\ job \in [Workers -> Requests \cup {None}]
      /\ snapshot \in [Workers -> Snapshots]
  BY Typed DEF TypeInv, TypeOK
<1>2. CASE UNCHANGED vars \/ \E kind \in ByHand : OperatorAppends(kind)
  BY <1>2 DEF vars, OperatorAppends
<1>3. ASSUME NEW w \in Workers, NEW l, l # "sedRename", Goto(w, l)
      PROVE  v # w /\ pc[v] = "sedRename"
  BY <1>1, <1>3 DEF Goto
<1>4. ASSUME NEW w \in Workers, NEW r \in Requests, Begin(w, r) \/ UserMissing(w, r)
      PROVE  job'[v] = job[v] /\ pc[v] = "sedRename" /\ snapshot'[v] = snapshot[v]
  <2>1. PICK l : l # "sedRename" /\ Goto(w, l)
    BY <1>4 DEF Begin, UserMissing
  <2>2. v # w /\ pc[v] = "sedRename"
    BY <1>3, <2>1
  <2> QED BY <1>1, <1>4, <2>2 DEF Begin, UserMissing
<1>5. ASSUME NEW w \in Workers, CommandFails(w) \/ Dies(w)
      PROVE  job'[v] = job[v] /\ pc[v] = "sedRename" /\ snapshot'[v] = snapshot[v]
  <2>1. PICK l : l # "sedRename" /\ Goto(w, l)
    BY <1>5 DEF CommandFails, Dies
  <2>2. v # w /\ pc[v] = "sedRename"
    BY <1>3, <2>1
  <2> QED BY <1>5, <2>2 DEF CommandFails, Dies
<1>6. ASSUME NEW w \in Workers, ScriptStep(w), ~SedReads(w)
      PROVE  job'[v] = job[v] /\ pc[v] = "sedRename" /\ snapshot'[v] = snapshot[v]
  <2>1. PICK l : l # "sedRename" /\ Goto(w, l)
    BY <1>6 DEF ScriptStep, MakeDirectory, StatFile, TouchFile, ChangeMode, GrepComment,
                GrepContent, GrepFails, AppendContent, GrepInclude, AppendInclude,
                StatBeforeRemove, SedRenames, Step, AfterContent
  <2>2. v # w /\ pc[v] = "sedRename"
    BY <1>3, <2>1
  <2>3. UNCHANGED job /\ (UNCHANGED snapshot \/ SedRenames(w))
    BY <1>6 DEF ScriptStep, MakeDirectory, StatFile, TouchFile, ChangeMode, GrepComment,
                GrepContent, GrepFails, AppendContent, GrepInclude, AppendInclude,
                StatBeforeRemove, SedRenames
  <2> QED BY <1>1, <2>2, <2>3 DEF SedRenames
<1>7. ASSUME NEW w \in Workers, SedReads(w)
      PROVE  /\ job'[v] = job[v]
             /\ \/ pc[v] = "sedRename" /\ snapshot'[v] = snapshot[v]
                \/ /\ pc[v] = "sedRead" /\ UNCHANGED file
                   /\ snapshot'[v] = SedDeleted(file[FileOf(job[v])], job[v].id)
  BY <1>1, <1>7 DEF SedReads, Step, Goto
<1> QED BY <1>2, <1>4, <1>5, <1>6, <1>7 DEF Next

-----------------------------------------------------------------------------
(* Sequences of lines.                                                     *)

\* The first m elements of a sequence.
LEMMA CutLines ==
  ASSUME NEW S, NEW s, NEW m \in Nat, \A i \in 1 .. m : s[i] \in S
  PROVE  /\ SubSeq(s, 1, m) \in Seq(S) /\ Len(SubSeq(s, 1, m)) = m
         /\ \A i \in 1 .. m : SubSeq(s, 1, m)[i] = s[i]
<1>1. m \in Int /\ 1 \in Int /\ m - 1 + 1 = m /\ \A i \in 1 .. m : 1 + i - 1 = i
  OBVIOUS
<1>2. /\ SubSeq(s, 1, m) \in Seq(S)
      /\ Len(SubSeq(s, 1, m)) = IF 1 <= m THEN m - 1 + 1 ELSE 0
      /\ \A i \in 1 .. m - 1 + 1 : SubSeq(s, 1, m)[i] = s[1 + i - 1]
  BY <1>1, SubSeqProperties
<1>3. (IF 1 <= m THEN m - 1 + 1 ELSE 0) = m
  OBVIOUS
<1> QED BY <1>1, <1>2, <1>3

\* All but the last element of a sequence.
LEMMA FrontLines ==
  ASSUME NEW S, NEW s \in Seq(S)
  PROVE  /\ Front(s) \in Seq(S)
         /\ Len(Front(s)) \in Nat /\ Len(Front(s)) <= Len(s)
         /\ \A i \in 1 .. Len(Front(s)) : Front(s)[i] = s[i]
<1>1. Len(s) \in Nat
  OBVIOUS
<1>2. Front(s) = SubSeq(s, 1, Len(s) - 1)
  BY DEF Front
<1>3. CASE Len(s) = 0
  <2>1. Front(s) = <<>>
    BY <1>2, <1>3, SubSeqEmpty
  <2> QED BY <2>1, <1>1
<1>4. CASE Len(s) # 0
  <2>1. PICK m \in Nat : m = Len(s) - 1 /\ m <= Len(s) /\ m + 1 = Len(s)
    <3>1. PICK n \in Nat : n = Len(s) /\ n # 0
      BY <1>1, <1>4
    <3>2. n - 1 \in Nat /\ n - 1 <= n /\ n - 1 + 1 = n
      BY <3>1
    <3> QED BY <3>1, <3>2
  <2>2. Front(s) = SubSeq(s, 1, m) /\ \A i \in 1 .. m : s[i] \in S
    BY <1>2, <2>1
  <2>3. /\ SubSeq(s, 1, m) \in Seq(S) /\ Len(SubSeq(s, 1, m)) = m
        /\ \A i \in 1 .. m : SubSeq(s, 1, m)[i] = s[i]
    BY <2>2, CutLines
  <2> QED BY <2>1, <2>2, <2>3
<1> QED BY <1>3, <1>4

\* The last two lines of a file after tee -a, and those before.
LEMMA AppendedLines ==
  ASSUME NEW f \in FileType, NEW id \in Id, NEW t \in Text, NEW A, A = Appended(f, id, t).lines
  PROVE  /\ A \in Seq(Lines) /\ Len(A) \in Nat /\ Len(A) >= 2
         /\ A[Len(A)] = Content(t)
         /\ A[Len(A) - 1] = IF f.ended THEN Comment(id) ELSE Glued(id)
         /\ \A i \in 1 .. Len(A) - 2 : i \in 1 .. Len(f.lines) /\ A[i] = f.lines[i]
         /\ f.ended => Len(A) = Len(f.lines) + 2
<1> DEFINE B == IF f.ended THEN f.lines ELSE Front(f.lines)
           C == IF f.ended THEN Comment(id) ELSE Glued(id)
           D == Content(t)
<1>1. f.lines \in Seq(Lines) /\ Len(f.lines) \in Nat
  BY DEF FileType
<1>2. /\ B \in Seq(Lines) /\ Len(B) \in Nat /\ Len(B) <= Len(f.lines)
      /\ \A i \in 1 .. Len(B) : B[i] = f.lines[i]
      /\ f.ended => Len(B) = Len(f.lines)
  BY <1>1, FrontLines
<1>3. C \in Lines /\ D \in Lines
  BY LinesType
<1>4. A = B \o <<C, D>>
  BY DEF Appended, FileType
<1> HIDE DEF B, C, D
<1>5. <<C, D>> \in Seq(Lines) /\ Len(<<C, D>>) = 2 /\ <<C, D>>[1] = C /\ <<C, D>>[2] = D
  BY <1>3
<1>6. /\ A \in Seq(Lines) /\ Len(A) = Len(B) + 2
      /\ \A i \in 1 .. Len(A) : A[i] = IF i <= Len(B) THEN B[i] ELSE <<C, D>>[i - Len(B)]
  BY <1>2, <1>4, <1>5, ConcatProperties
<1>7. A[Len(A)] = D /\ A[Len(A) - 1] = C
  <2>1. /\ Len(A) \in 1 .. Len(A) /\ ~(Len(A) <= Len(B)) /\ Len(A) - Len(B) = 2
        /\ Len(A) - 1 \in 1 .. Len(A) /\ ~(Len(A) - 1 <= Len(B)) /\ Len(A) - 1 - Len(B) = 1
    BY <1>2, <1>6
  <2> QED BY <1>5, <1>6, <2>1
<1>8. \A i \in 1 .. Len(A) - 2 : i \in 1 .. Len(f.lines) /\ A[i] = f.lines[i]
  <2> SUFFICES ASSUME NEW i \in 1 .. Len(A) - 2 PROVE i \in 1 .. Len(f.lines) /\ A[i] = f.lines[i]
    OBVIOUS
  <2>1. i \in 1 .. Len(A) /\ i <= Len(B) /\ i \in 1 .. Len(B) /\ i \in 1 .. Len(f.lines)
    BY <1>1, <1>2, <1>6
  <2> QED BY <1>2, <1>6, <2>1
<1> QED BY <1>2, <1>6, <1>7, <1>8 DEF C, D

-----------------------------------------------------------------------------
(* KeyUnderItsComment.                                                     *)

\* Every text in these lines of file f stands under a comment that asked for it.
KeyUnder(lines, f) ==
  \A i \in 1 .. Len(lines) :
    lines[i].kind = "content" =>
      \E r \in Requests :
        /\ r.action = "grant" /\ FileOf(r) = f /\ lines[i] = Content(r.text)
        /\ i > 1 /\ lines[i - 1] \in {Comment(r.id), Glued(r.id)}

\* Each text of a file, and of a snapshot that will replace the file, stands under a comment
\* that asked for it.
PlacedInv ==
  /\ \A f \in Files : KeyUnder(file[f].lines, f)
  /\ \A w \in Workers : pc[w] = "sedRename" => KeyUnder(snapshot[w].lines, FileOf(job[w]))

\* sed never deletes the comment above a line it keeps.
LEMMA CommentIsKept ==
  ASSUME NEW lines \in Seq(Lines), NEW id, NEW i \in 1 .. Len(lines), i > 1,
         ~InRange(lines, id, i), lines[i - 1] # Other("blank")
  PROVE  i - 1 \in 1 .. Len(lines) /\ ~InRange(lines, id, i - 1)
<1>1. Len(lines) \in Nat /\ i \in Nat /\ i - 1 \in Nat
  OBVIOUS
<1>2. i - 1 \in 1 .. Len(lines)
  BY <1>1
<1> SUFFICES ASSUME InRange(lines, id, i - 1) PROVE FALSE
  BY <1>2
<1>3. PICK j \in 1 .. i - 1 : /\ Finds(id, lines[j])
                              /\ \A m \in j + 1 .. (i - 1) - 1 : lines[m] # Other("blank")
  BY DEF InRange
<1>4. ASSUME NEW m \in j + 1 .. i - 1 PROVE lines[m] # Other("blank")
  <2>1. m = i - 1 \/ m \in j + 1 .. (i - 1) - 1
    BY <1>1
  <2> QED BY <1>3, <2>1
<1>5. j \in 1 .. i
  BY <1>1
<1> QED BY <1>3, <1>4, <1>5 DEF InRange

\* sed leaves each text it keeps under such a comment,
LEMMA SedKeepsPlaced ==
  ASSUME NEW g \in Files, NEW f, f.lines \in Seq(Lines), NEW id, KeyUnder(f.lines, g)
  PROVE  KeyUnder(SedDeleted(f, id).lines, g)
<1> DEFINE L == f.lines
           O == SedDeleted(f, id).lines
           K == Kept(L, id)
<1>1. PICK k : /\ Enumerates(k, Len(L), K) /\ O \in Seq(Lines) /\ Len(O) = Len(k)
               /\ \A n \in 1 .. Len(k) : O[n] = L[k[n]]
  BY SedKeeps
<1>2. k \in Seq(1 .. Len(L)) /\ Len(k) \in Nat
  BY <1>1 DEF Enumerates
<1> SUFFICES ASSUME NEW n \in 1 .. Len(O), O[n].kind = "content"
             PROVE  \E r \in Requests :
                      /\ r.action = "grant" /\ FileOf(r) = g /\ O[n] = Content(r.text)
                      /\ n > 1 /\ O[n - 1] \in {Comment(r.id), Glued(r.id)}
  BY DEF KeyUnder
<1>3. PICK i \in 1 .. Len(L) : i = k[n] /\ n \in 1 .. Len(k)
  BY <1>1, <1>2
<1>4. i \in K /\ L[i] = O[n]
  BY <1>1, <1>3 DEF Enumerates
<1>5. PICK r \in Requests : /\ r.action = "grant" /\ FileOf(r) = g /\ L[i] = Content(r.text)
                            /\ i > 1 /\ L[i - 1] \in {Comment(r.id), Glued(r.id)}
  BY <1>4 DEF KeyUnder
<1>6. L[i - 1] # Other("blank")
  BY <1>5 DEF Comment, Glued, Other
<1>7. i - 1 \in K
  BY <1>4, <1>5, <1>6, CommentIsKept DEF Kept
<1> HIDE DEF L, O, K
<1>8. PICK m \in 1 .. Len(k) : k[m] = i - 1
  BY <1>1, <1>7 DEF Enumerates, K, Kept
<1>9. m < n
  <2>1. n < m => k[n] < k[m]
    BY <1>1, <1>3 DEF Enumerates
  <2> QED BY <1>3, <1>8, <2>1, <1>2
<1>10. m = n - 1
  <2> SUFFICES ASSUME m < n - 1 PROVE FALSE
    BY <1>9, <1>3, <1>2
  <2>1. n - 1 \in 1 .. Len(k) /\ n - 1 < n
    BY <1>3, <1>2, <1>8
  <2>2. k[m] < k[n - 1] /\ k[n - 1] < k[n]
    BY <1>1, <1>3, <1>8, <2>1 DEF Enumerates
  <2>3. k[n - 1] \in Nat
    BY <1>2, <2>1
  <2> QED BY <2>2, <2>3, <1>3, <1>8
<1>11. O[m] = L[i - 1]
  BY <1>1, <1>8
<1>12. n > 1 /\ O[n - 1] = L[i - 1]
  BY <1>2, <1>8, <1>10, <1>11
<1> QED BY <1>4, <1>5, <1>12

\* a grant puts its own under one,
LEMMA AppendedPlaced ==
  ASSUME NEW g \in Files, NEW f \in FileType, KeyUnder(f.lines, g),
         NEW q \in Requests, q.action = "grant", FileOf(q) = g, q.text \in Text
  PROVE  KeyUnder(Appended(f, q.id, q.text).lines, g)
<1> DEFINE A == Appended(f, q.id, q.text).lines
<1>1. q.id \in Id
  BY RequestTyped
<1>2. /\ Len(A) \in Nat /\ Len(A) >= 2
      /\ A[Len(A)] = Content(q.text)
      /\ A[Len(A) - 1] = IF f.ended THEN Comment(q.id) ELSE Glued(q.id)
      /\ \A i \in 1 .. Len(A) - 2 : i \in 1 .. Len(f.lines) /\ A[i] = f.lines[i]
  BY <1>1, AppendedLines
<1> HIDE DEF A
<1> SUFFICES ASSUME NEW i \in 1 .. Len(A), A[i].kind = "content"
             PROVE  \E r \in Requests :
                      /\ r.action = "grant" /\ FileOf(r) = g /\ A[i] = Content(r.text)
                      /\ i > 1 /\ A[i - 1] \in {Comment(r.id), Glued(r.id)}
  BY DEF KeyUnder, A
<1>3. i \in Nat /\ (i = Len(A) \/ i = Len(A) - 1 \/ i \in 1 .. Len(A) - 2)
  BY <1>2
<1>4. CASE i = Len(A)
  BY <1>2, <1>4
<1>5. i # Len(A) - 1
  BY <1>2 DEF Comment, Glued
<1>6. CASE i \in 1 .. Len(A) - 2
  <2>1. i \in 1 .. Len(f.lines) /\ A[i] = f.lines[i]
    BY <1>2, <1>6
  <2>2. PICK r \in Requests :
          /\ r.action = "grant" /\ FileOf(r) = g /\ f.lines[i] = Content(r.text)
          /\ i > 1 /\ f.lines[i - 1] \in {Comment(r.id), Glued(r.id)}
    BY <2>1 DEF KeyUnder
  <2>3. i - 1 \in 1 .. Len(A) - 2
    BY <1>2, <1>6, <2>2
  <2>4. A[i - 1] = f.lines[i - 1]
    BY <1>2, <2>3
  <2> QED BY <2>1, <2>2, <2>4
<1> QED BY <1>3, <1>4, <1>5, <1>6

\* and a line written by hand moves none.
LEMMA OperatorPlaced ==
  ASSUME NEW g \in Files, NEW lines \in Seq(Lines), KeyUnder(lines, g), NEW kind \in ByHand
  PROVE  KeyUnder(Append(lines, Other(kind)), g)
<1>1. Other(kind) \in Lines /\ Other(kind).kind # "content"
  BY LinesType, RequestAssumption DEF Other
<1>2. PICK A : A = Append(lines, Other(kind))
  OBVIOUS
<1>3. /\ Len(lines) \in Nat /\ Len(A) = Len(lines) + 1
      /\ \A i \in 1 .. Len(lines) : A[i] = lines[i]
      /\ A[Len(lines) + 1] = Other(kind)
  BY <1>1, <1>2, AppendProperties
<1> SUFFICES ASSUME NEW i \in 1 .. Len(A), A[i].kind = "content"
             PROVE  \E r \in Requests :
                      /\ r.action = "grant" /\ FileOf(r) = g /\ A[i] = Content(r.text)
                      /\ i > 1 /\ A[i - 1] \in {Comment(r.id), Glued(r.id)}
  BY <1>2 DEF KeyUnder
<1>4. i \in 1 .. Len(lines)
  BY <1>1, <1>3
<1>5. PICK r \in Requests :
        /\ r.action = "grant" /\ FileOf(r) = g /\ lines[i] = Content(r.text)
        /\ i > 1 /\ lines[i - 1] \in {Comment(r.id), Glued(r.id)}
  BY <1>3, <1>4 DEF KeyUnder
<1>6. i - 1 \in 1 .. Len(lines)
  BY <1>3, <1>4, <1>5
<1> QED BY <1>3, <1>4, <1>5, <1>6

\* There are no texts before.
LEMMA PlacedInit == Init => PlacedInv
<1> SUFFICES ASSUME Init PROVE PlacedInv
  OBVIOUS
<1>1. PICK f \in OldFiles : file = [keys |-> f, sudoers |-> AbsentFile]
  BY DEF Init
<1>2. \A g \in Files : KeyUnder(<<>>, g)
  BY DEF KeyUnder
<1>3. KeyUnder(f.lines, "keys")
  <2>1. CASE OldKeys = {}
    BY <1>2, <2>1 DEF OldFiles, AbsentFile, Files
  <2>2. CASE OldKeys # {}
    <3>1. PICK o \in OldKeys : f.lines = o.lines
      BY <2>2 DEF OldFiles
    <3>2. f.lines \in Seq({Other("blank"), Other("foreign")})
      BY <3>1, OldKeysAssumption
    <3>3. \A i \in 1 .. Len(f.lines) : f.lines[i] \in {Other("blank"), Other("foreign")}
      BY <3>2
    <3>4. \A i \in 1 .. Len(f.lines) : f.lines[i].kind # "content"
      BY <3>3 DEF Other
    <3> QED BY <3>4 DEF KeyUnder
  <2> QED BY <2>1, <2>2
<1>4. \A g \in Files : KeyUnder(file[g].lines, g)
  BY <1>1, <1>2, <1>3 DEF Files, AbsentFile
<1> QED BY <1>4 DEF Init, PlacedInv

\* No step leaves a text without its comment.
LEMMA PlacedStep == TypeInv /\ PlacedInv /\ [Next]_vars => PlacedInv'
<1> SUFFICES ASSUME TypeInv, PlacedInv, [Next]_vars PROVE PlacedInv'
  OBVIOUS
<1>1. ASSUME NEW g \in Files PROVE KeyUnder(file'[g].lines, g)
  <2>1. file[g] \in FileType /\ file[g].lines \in Seq(Lines)
    BY Typed DEF FileType
  <2>2. KeyUnder(file[g].lines, g)
    BY DEF PlacedInv
  <2>3. CASE SameLines(g)
    BY <2>2, <2>3 DEF SameLines
  <2>4. CASE ByOperator(g)
    BY <2>1, <2>2, <2>4, OperatorPlaced DEF ByOperator
  <2>5. ASSUME NEW w \in Workers, Appends(w, g) PROVE KeyUnder(file'[g].lines, g)
    <3>1. pc[w] = "append" /\ pc[w] \in GrantPC /\ pc[w] # "idle" /\ FileOf(job[w]) = g
      BY <2>5 DEF Appends, GrantPC
    <3>2. job[w] \in Requests /\ job[w].action = "grant" /\ job[w].text \in Text
      BY <3>1, JobType DEF TypeInv, JobOK
    <3>3. KeyUnder(Appended(file[g], job[w].id, job[w].text).lines, g)
      BY <2>1, <2>2, <3>1, <3>2, AppendedPlaced
    <3> QED BY <2>5, <3>3 DEF Appends
  <2>6. ASSUME NEW w \in Workers, Renames(w, g) PROVE KeyUnder(file'[g].lines, g)
    BY <2>6 DEF Renames, PlacedInv
  <2> QED BY <2>3, <2>4, <2>5, <2>6, LineChanges
<1>2. ASSUME NEW w \in Workers, pc'[w] = "sedRename"
      PROVE  KeyUnder(snapshot'[w].lines, FileOf(job'[w]))
  <2>1. CASE pc[w] = "sedRename" /\ snapshot'[w] = snapshot[w] /\ job'[w] = job[w]
    BY <2>1 DEF PlacedInv
  <2>2. CASE snapshot'[w] = SedDeleted(file[FileOf(job[w])], job[w].id) /\ job'[w] = job[w]
    <3>1. FileOf(job[w]) \in Files /\ file[FileOf(job[w])].lines \in Seq(Lines)
      BY FileOfType, Typed DEF FileType
    <3>2. KeyUnder(file[FileOf(job[w])].lines, FileOf(job[w]))
      BY <3>1 DEF PlacedInv
    <3> QED BY <2>2, <3>1, <3>2, SedKeepsPlaced
  <2> QED BY <1>2, <2>1, <2>2, SnapshotChanges
<1>3. \A g \in Files : KeyUnder(file[g].lines, g)'
  BY <1>1 DEF KeyUnder, FileOf
<1>4. \A w \in Workers : pc'[w] = "sedRename" => KeyUnder(snapshot[w].lines, FileOf(job[w]))'
  BY <1>2 DEF KeyUnder, FileOf
<1> QED BY <1>3, <1>4 DEF PlacedInv

\* Texts stand under their comments in files and snapshots.
LEMMA PlacedInvariance == Spec => []PlacedInv
  BY PlacedInit, PlacedStep, TypeInvariance, PTL DEF Spec

\* Every key or rule stands under a comment that asked for it, whatever scripts overlap,
\* whichever commands fail and whatever is written by hand: the range that sed deletes by a
\* comment never leaves a text without the comment it is revoked by.
THEOREM KeysStandUnderTheirComments == Spec => []KeyUnderItsComment
<1>1. PlacedInv => KeyUnderItsComment
  BY DEF PlacedInv, KeyUnder, KeyUnderItsComment
<1> QED BY PlacedInvariance, <1>1, PTL

\* HasContent in terms of the lines,
LEMMA ContentIsALine ==
  ASSUME NEW S, NEW f, f.lines \in Seq(S), NEW t
  PROVE  HasContent(f, t) <=>
           \E i \in 1 .. Len(f.lines) :
             f.lines[i].kind = "content" /\ (f.lines[i].of = t \/ <<t, f.lines[i].of>> \in PartOf)
<1>1. DOMAIN f.lines = 1 .. Len(f.lines)
  OBVIOUS
<1> QED BY <1>1 DEF HasContent, ToSet

\* and HasComment.
LEMMA CommentIsALine ==
  ASSUME NEW S, NEW f, f.lines \in Seq(S), NEW id
  PROVE  HasComment(f, id) <=>
           \E i \in 1 .. Len(f.lines) :
             /\ f.lines[i].kind \in {"comment", "glued"}
             /\ f.lines[i].of = id \/ <<id, f.lines[i].of>> \in PrefixOf
<1>1. DOMAIN f.lines = 1 .. Len(f.lines)
  OBVIOUS
<1> QED BY <1>1 DEF HasComment, ToSet

-----------------------------------------------------------------------------
(* GrantIsEffective.                                                       *)

\* The grant of worker w has its text in the file: it was found or has been written.
Granted(w) ==
  pc[w] \in {"grepInclude", "appendInclude"} \/ (Succeeded(w, "grant") /\ job[w].text # None)

\* The text of the request is a line of the file, or part of another that may be one.
TextIn(f, r) == PartOfOther(r) \/ Content(r.text) \in ToSet(f.lines)

\* /etc/sudoers, when it is so, has the line that includes the sudoers file.
Included(s) == s = "included" \/ (s = "glued" /\ "unended" \in OldSudoers)

\* A grant that has its text in the file keeps it, and succeeds with the include in place.
EffectiveInv ==
  \A w \in Workers : Granted(w) =>
    /\ TextIn(file[FileOf(job[w])], job[w])
    /\ pc[w] = "succeeded" /\ job[w].cmd = "sudo" => Included(etcSudoers)

\* Only an old /etc/sudoers without its last newline is one that the include is glued to.
SudoersInv == etcSudoers \in {"unended", "glued"} => "unended" \in OldSudoers

\* It stays so.
LEMMA SudoersStep == SudoersInv /\ [Next]_vars => SudoersInv'
<1> SUFFICES ASSUME SudoersInv, [Next]_vars PROVE SudoersInv'
  OBVIOUS
<1>1. UNCHANGED etcSudoers \/ \E w \in Workers : AppendInclude(w)
  BY DEF Next, vars, Begin, UserMissing, CommandFails, Dies, OperatorAppends, ScriptStep,
         MakeDirectory, StatFile, TouchFile, ChangeMode, GrepComment, GrepContent, GrepFails,
         AppendContent, GrepInclude, StatBeforeRemove, SedReads, SedRenames
<1> QED BY <1>1 DEF SudoersInv, AppendInclude

\* What grep finds is the text of the request or that of another, of which it is part: every
\* content line is the text of a grant.
LEMMA FoundIsThere ==
  ASSUME TypeInv, PlacedInv, NEW r, FileOf(r) \in Files, HasContent(file[FileOf(r)], r.text)
  PROVE  TextIn(file[FileOf(r)], r)
<1>1. PICK L : L = file[FileOf(r)].lines /\ L \in Seq(Lines) /\ DOMAIN L = 1 .. Len(L)
  BY Typed DEF FileType
<1>2. PICK i \in 1 .. Len(L) :
        L[i].kind = "content" /\ (L[i].of = r.text \/ <<r.text, L[i].of>> \in PartOf)
  BY <1>1, ContentIsALine
<1>3. KeyUnder(L, FileOf(r))
  BY <1>1 DEF PlacedInv
<1>4. PICK q \in Requests : q.action = "grant" /\ FileOf(q) = FileOf(r) /\ L[i] = Content(q.text)
  BY <1>2, <1>3 DEF KeyUnder
<1>5. L[i].of = q.text
  BY <1>4 DEF Content
<1>6. CASE L[i].of = r.text
  BY <1>1, <1>4, <1>5, <1>6 DEF TextIn, ToSet
<1>7. CASE <<r.text, L[i].of>> \in PartOf
  BY <1>4, <1>5, <1>7 DEF TextIn, PartOfOther
<1> QED BY <1>2, <1>6, <1>7

\* After a step that leaves the only worker without a grant there is nothing to show;
LEMMA NotGranted ==
  ASSUME OneAtATime, NEW w \in Workers,
         ~(pc'[w] \in {"grepInclude", "appendInclude"}
           \/ (pc'[w] = "succeeded" /\ job'[w].action = "grant" /\ job'[w].text # None))
  PROVE  EffectiveInv'
<1>1. ~Granted(w)'
  BY DEF Granted, Succeeded
<1>2. \A v \in Workers : v = w
  BY DEF OneAtATime
<1>3. \A v \in Workers : ~Granted(v)'
  BY <1>1, <1>2
<1> QED BY <1>3 DEF EffectiveInv

\* after any other, that the text and the include are there.
LEMMA NowGranted ==
  ASSUME OneAtATime, NEW w \in Workers,
         TextIn(file'[FileOf(job'[w])], job'[w]),
         pc'[w] = "succeeded" /\ job'[w].cmd = "sudo" => Included(etcSudoers')
  PROVE  EffectiveInv'
<1>1. \A v \in Workers : v = w
  BY DEF OneAtATime
<1>2. /\ TextIn(file[FileOf(job[w])], job[w])'
      /\ (pc[w] = "succeeded" /\ job[w].cmd = "sudo" => Included(etcSudoers))'
  BY DEF TextIn, PartOfOther, Content, ToSet, Included, FileOf
<1> QED BY <1>1, <1>2 DEF EffectiveInv

\* A request taken on has granted nothing yet.
LEMMA EffectiveStart ==
  ASSUME OneAtATime, TypeInv, NEW w \in Workers, NEW r \in Requests,
         Begin(w, r) \/ UserMissing(w, r)
  PROVE  EffectiveInv'
<1>1. pc \in [Workers -> PC] /\ job \in [Workers -> Requests \cup {None}]
  BY Typed DEF TypeInv, TypeOK
<1>2. r.action \in {"grant", "revoke"}
  BY RequestTyped
<1>3. job'[w] = r
  BY <1>1 DEF Begin, UserMissing
<1>4. /\ pc'[w] \in {"statRemove", "mkdir", "failed", "succeeded"}
      /\ pc'[w] = "succeeded" => r.text = None
  BY <1>1, <1>2 DEF Begin, UserMissing, Goto
<1> QED BY <1>3, <1>4, NotGranted

\* A script that gets past the greps has found its text or appended it.
LEMMA EffectiveWorker ==
  ASSUME OneAtATime, TypeInv, PlacedInv, SudoersInv, EffectiveInv, NEW w \in Workers,
         ScriptStep(w) \/ CommandFails(w) \/ Dies(w)
  PROVE  EffectiveInv'
<1>1. /\ pc \in [Workers -> PC] /\ file \in [Files -> FileType]
      /\ etcSudoers \in {"ended", "unended", "glued", "included"}
  BY Typed DEF SudoersStates
<1>2. \A l : Goto(w, l) => pc'[w] = l
  BY <1>1 DEF Goto
<1>f. FileOf(job[w]) \in Files
  BY FileOfType
<1>3. CASE CommandFails(w) \/ Dies(w)
  <2>1. pc'[w] \in {"failed", "idle"}
    BY <1>2, <1>3 DEF CommandFails, Dies
  <2> QED BY <2>1, NotGranted
<1>4. CASE \/ MakeDirectory(w) \/ StatFile(w) \/ TouchFile(w) \/ ChangeMode(w)
           \/ GrepComment(w) \/ SedReads(w) \/ (GrepFails(w) /\ pc[w] # "grepInclude")
  <2>1. pc'[w] \in {"stat", "grepComment", "touch", "chmod", "grepContent", "append", "sedRename"}
    BY <1>2, <1>4 DEF MakeDirectory, StatFile, TouchFile, ChangeMode, GrepComment, GrepFails,
                      SedReads, Step
  <2> QED BY <2>1, NotGranted
<1>5. CASE StatBeforeRemove(w) \/ SedRenames(w)
  <2>1. pc[w] \in RevokePC /\ job' = job
    BY <1>5 DEF StatBeforeRemove, SedRenames, Step, RevokePC
  <2>2. job'[w].action = "revoke"
    BY <2>1 DEF TypeInv, JobOK
  <2>3. pc'[w] \in {"sedRead", "succeeded"}
    BY <1>2, <1>5 DEF StatBeforeRemove, SedRenames, Step
  <2> QED BY <2>2, <2>3, NotGranted
<1>6. CASE GrepContent(w)
  <2>0. UNCHANGED <<file, job>>
    BY <1>6 DEF GrepContent
  <2>1. CASE HasContent(file[FileOf(job[w])], job[w].text)
    <3>1. pc'[w] = "succeeded" => job'[w].cmd # "sudo"
      BY <1>2, <1>6, <2>0 DEF GrepContent, Step, AfterContent
    <3>2. TextIn(file[FileOf(job[w])], job[w])
      BY <1>f, <2>1, FoundIsThere
    <3> QED BY <2>0, <3>1, <3>2, NowGranted
  <2>2. CASE ~HasContent(file[FileOf(job[w])], job[w].text)
    <3>1. pc'[w] = "append"
      BY <1>2, <1>6, <2>2 DEF GrepContent, Step
    <3> QED BY <3>1, NotGranted
  <2> QED BY <2>1, <2>2
<1>7. CASE AppendContent(w)
  <2>1. pc[w] = "append" /\ UNCHANGED job /\ (pc'[w] = "succeeded" => job'[w].cmd # "sudo")
    BY <1>2, <1>7 DEF AppendContent, Step, AfterContent
  <2>2. job[w].id \in Id /\ job[w].text \in Text
    BY <2>1, JobType DEF GrantPC
  <2> DEFINE g == FileOf(job[w])
             A == Appended(file[g], job[w].id, job[w].text).lines
  <2>3. file'[g].lines = A
    BY <1>1, <1>7, <1>f DEF AppendContent
  <2>4. file[g] \in FileType
    BY <1>1, <1>f
  <2>5. A \in Seq(Lines) /\ Len(A) \in 1 .. Len(A) /\ A[Len(A)] = Content(job[w].text)
    BY <2>2, <2>4, AppendedLines
  <2> HIDE DEF A
  <2>6. Len(A) \in DOMAIN A
    BY <2>5
  <2>7. TextIn(file'[g], job[w])
    BY <2>3, <2>5, <2>6 DEF TextIn, ToSet
  <2> QED BY <2>1, <2>7, NowGranted
<1>8. CASE GrepInclude(w) \/ AppendInclude(w) \/ (GrepFails(w) /\ pc[w] = "grepInclude")
  <2>1. pc[w] \in {"grepInclude", "appendInclude"} /\ UNCHANGED <<file, job>>
    BY <1>8 DEF GrepInclude, AppendInclude, GrepFails, Step
  <2>2. TextIn(file[FileOf(job[w])], job[w])
    BY <2>1 DEF EffectiveInv, Granted
  <2>3. pc'[w] = "succeeded" => Included(etcSudoers')
    <3>1. CASE GrepInclude(w)
      BY <1>1, <1>2, <3>1 DEF GrepInclude, Step, Included, SudoersInv
    <3>2. CASE AppendInclude(w)
      BY <1>1, <3>2 DEF AppendInclude, Included, SudoersInv
    <3>3. CASE GrepFails(w) /\ pc[w] = "grepInclude"
      BY <1>2, <3>3 DEF GrepFails, Step
    <3> QED BY <1>8, <3>1, <3>2, <3>3
  <2> QED BY <2>1, <2>2, <2>3, NowGranted
<1> QED BY <1>3, <1>4, <1>5, <1>6, <1>7, <1>8 DEF ScriptStep

\* Lines written by hand take nothing away.
LEMMA EffectiveOperator ==
  ASSUME OneAtATime, TypeInv, EffectiveInv, NEW kind \in ByHand, OperatorAppends(kind)
  PROVE  EffectiveInv'
<1> SUFFICES ASSUME NEW w \in Workers, Granted(w)'
             PROVE  (/\ TextIn(file[FileOf(job[w])], job[w])
                     /\ pc[w] = "succeeded" /\ job[w].cmd = "sudo" => Included(etcSudoers))'
  BY DEF EffectiveInv
<1>1. UNCHANGED <<etcSudoers, pc, job>>
  BY DEF OperatorAppends
<1>2. Granted(w)
  BY <1>1 DEF Granted, Succeeded
<1> DEFINE g == FileOf(job[w])
<1>3. /\ TextIn(file[g], job[w])
      /\ pc[w] = "succeeded" /\ job[w].cmd = "sudo" => Included(etcSudoers)
  BY <1>2 DEF EffectiveInv
<1>4. g \in Files /\ file \in [Files -> FileType] /\ file[g].lines \in Seq(Lines)
  BY Typed, FileOfType DEF FileType
<1>5. CASE g # "keys"
  <2>1. file'[g] = file[g]
    BY <1>4, <1>5 DEF OperatorAppends
  <2> QED BY <1>1, <1>3, <2>1 DEF TextIn, PartOfOther, Content, ToSet, Included, FileOf
<1>6. CASE g = "keys"
  <2>1. Other(kind) \in Lines
    BY LinesType, RequestAssumption
  <2>2. file'[g].lines = Append(file[g].lines, Other(kind))
    BY <1>4, <1>6 DEF OperatorAppends, FileType
  <2>3. ToSet(file[g].lines) \subseteq ToSet(file'[g].lines)
    <3>1. /\ Len(file[g].lines) \in Nat /\ Len(file'[g].lines) = Len(file[g].lines) + 1
          /\ \A i \in 1 .. Len(file[g].lines) : file'[g].lines[i] = file[g].lines[i]
      BY <1>4, <2>1, <2>2, AppendProperties
    <3>2. file'[g].lines \in Seq(Lines)
      BY <1>4, <2>1, <2>2, AppendProperties
    <3>3. /\ DOMAIN file[g].lines = 1 .. Len(file[g].lines)
          /\ DOMAIN file'[g].lines = 1 .. Len(file'[g].lines)
      BY <1>4, <3>2
    <3> QED BY <3>1, <3>3 DEF ToSet
  <2>4. TextIn(file'[g], job[w])
    BY <1>3, <2>3 DEF TextIn
  <2> QED BY <1>1, <1>3, <2>4 DEF TextIn, PartOfOther, Content, ToSet, Included, FileOf
<1> QED BY <1>5, <1>6

\* Every step keeps what was granted.
LEMMA EffectiveStep ==
  ASSUME OneAtATime
  PROVE  TypeInv /\ PlacedInv /\ SudoersInv /\ EffectiveInv /\ [Next]_vars => EffectiveInv'
<1> SUFFICES ASSUME TypeInv, PlacedInv, SudoersInv, EffectiveInv, [Next]_vars PROVE EffectiveInv'
  OBVIOUS
<1>1. CASE UNCHANGED vars
  BY <1>1 DEF vars, EffectiveInv, Granted, Succeeded, TextIn, PartOfOther, Content, ToSet,
              Included, FileOf
<1> QED BY <1>1, EffectiveStart, EffectiveWorker, EffectiveOperator DEF Next

\* When scripts do not overlap, the text of a grant that was answered with success is a line
\* of the file, unless it is part of another text for that file; and /etc/sudoers includes the
\* sudoers file, on a line of its own unless it came without its last newline.  This holds
\* whatever was there before, with any failures, and with ids that are prefixes of others.
THEOREM GrantsAreEffective ==
  ASSUME OneAtATime
  PROVE  Spec => []GrantIsEffective
<1>1. Init => EffectiveInv /\ SudoersInv
  BY RequestAssumption DEF Init, EffectiveInv, SudoersInv, Granted, Succeeded
<1>2. EffectiveInv => GrantIsEffective
  BY DEF EffectiveInv, GrantIsEffective, Granted, Succeeded, TextIn, Included
<1>3. TypeInv /\ PlacedInv /\ SudoersInv /\ EffectiveInv /\ [Next]_vars => EffectiveInv'
  BY EffectiveStep
<1> QED BY <1>1, <1>2, <1>3, SudoersStep, TypeInvariance, PlacedInvariance, PTL DEF Spec

-----------------------------------------------------------------------------
(* RevokedKeyIsGone.                                                       *)

\* No comment is glued to the line before it; no line is the comment of request id.
Unglued(lines) == \A i \in 1 .. Len(lines) : lines[i].kind # "glued"
NoComment(lines, id) == \A i \in 1 .. Len(lines) : lines[i] # Comment(id)

\* File g has not lost its newline, nor has a snapshot that will replace it.
EndedInv(g) ==
  /\ file[g].ended /\ Unglued(file[g].lines)
  /\ \A w \in Workers : pc[w] = "sedRename" /\ FileOf(job[w]) = g =>
       snapshot[w].ended /\ Unglued(snapshot[w].lines)

\* No comment of the request is left in what sed is about to put in place, nor in the file
\* once the revocation was answered with success.
RevokedInv ==
  /\ \A w \in Workers : pc[w] = "sedRename" => NoComment(snapshot[w].lines, job[w].id)
  /\ \A w \in Workers : Succeeded(w, "revoke") =>
       NoComment(file[FileOf(job[w])].lines, job[w].id)

\* sed glues no comment, and leaves none of the request if it can find it.
LEMMA SedResult ==
  ASSUME NEW f, f.lines \in Seq(Lines), f.ended, Unglued(f.lines), NEW id
  PROVE  /\ SedDeleted(f, id).ended /\ Unglued(SedDeleted(f, id).lines)
         /\ <<id, id>> \in SedFinds => NoComment(SedDeleted(f, id).lines, id)
<1>1. PICK k : /\ Enumerates(k, Len(f.lines), Kept(f.lines, id))
               /\ Len(SedDeleted(f, id).lines) = Len(k)
               /\ \A n \in 1 .. Len(k) : SedDeleted(f, id).lines[n] = f.lines[k[n]]
               /\ SedDeleted(f, id).ended = (SedDeleted(f, id).lines = <<>> \/ f.ended)
  BY SedKeeps
<1>2. ASSUME NEW n \in 1 .. Len(k)
      PROVE  /\ f.lines[k[n]].kind # "glued"
             /\ <<id, id>> \in SedFinds => f.lines[k[n]] # Comment(id)
  <2>1. k[n] \in Kept(f.lines, id)
    BY <1>1 DEF Enumerates
  <2>2. PICK i \in 1 .. Len(f.lines) : i = k[n] /\ ~InRange(f.lines, id, i)
    BY <2>1 DEF Kept
  <2>3. <<id, id>> \in SedFinds => f.lines[i] # Comment(id)
    <3>1. i \in 1 .. i /\ \A m \in i + 1 .. i - 1 : FALSE
      OBVIOUS
    <3>2. ~Finds(id, f.lines[i])
      BY <2>2, <3>1 DEF InRange
    <3> QED BY <3>2 DEF Finds, Comment
  <2> QED BY <2>2, <2>3 DEF Unglued
<1> QED BY <1>1, <1>2 DEF Unglued, NoComment

\* A file that ended in a newline has lost none yet.
LEMMA EndedInit ==
  ASSUME NEW g \in Files, g = "keys" => Terminated
  PROVE  Init => EndedInv(g)
<1> SUFFICES ASSUME Init PROVE EndedInv(g)
  OBVIOUS
<1>1. PICK f \in OldFiles : file = [keys |-> f, sudoers |-> AbsentFile]
  BY DEF Init
<1>2. AbsentFile.ended /\ Unglued(AbsentFile.lines)
  BY DEF AbsentFile, Unglued
<1>3. g = "keys" => f.ended /\ Unglued(f.lines)
  <2>1. CASE OldKeys = {}
    BY <1>2, <2>1 DEF OldFiles
  <2>2. CASE OldKeys # {}
    <3>1. PICK o \in OldKeys : f.lines = o.lines /\ f.ended = o.ended
      BY <2>2 DEF OldFiles
    <3>2. f.lines \in Seq({Other("blank"), Other("foreign")})
      BY <3>1, OldKeysAssumption
    <3>3. \A i \in 1 .. Len(f.lines) : f.lines[i] \in {Other("blank"), Other("foreign")}
      BY <3>2
    <3>4. \A i \in 1 .. Len(f.lines) : f.lines[i].kind # "glued"
      BY <3>3 DEF Other
    <3> QED BY <3>1, <3>4 DEF Unglued, Terminated
  <2> QED BY <2>1, <2>2
<1>4. file[g].ended /\ Unglued(file[g].lines)
  BY <1>1, <1>2, <1>3 DEF Files
<1> QED BY <1>4 DEF Init, EndedInv

\* No step of a script loses the newline, nor does one that somebody writes by hand.
LEMMA EndedStep ==
  ASSUME NEW g \in Files
  PROVE  TypeInv /\ EndedInv(g) /\ [Next]_vars => EndedInv(g)'
<1> SUFFICES ASSUME TypeInv, EndedInv(g), [Next]_vars PROVE EndedInv(g)'
  OBVIOUS
<1>1. file'[g].ended /\ Unglued(file'[g].lines)
  <2>1. file[g] \in FileType /\ file[g].lines \in Seq(Lines) /\ Len(file[g].lines) \in Nat
    BY Typed DEF FileType
  <2>2. file[g].ended /\ \A i \in 1 .. Len(file[g].lines) : file[g].lines[i].kind # "glued"
    BY DEF EndedInv, Unglued
  <2>3. CASE SameLines(g)
    BY <2>2, <2>3 DEF SameLines, Unglued
  <2>4. CASE ByOperator(g)
    <3>1. PICK kind \in ByHand : file'[g].lines = Append(file[g].lines, Other(kind))
      BY <2>4 DEF ByOperator
    <3>2. Other(kind) \in Lines /\ Other(kind).kind # "glued"
      BY LinesType, RequestAssumption DEF Other
    <3>3. /\ Len(file'[g].lines) = Len(file[g].lines) + 1
          /\ file'[g].lines[Len(file[g].lines) + 1] = Other(kind)
          /\ \A i \in 1 .. Len(file[g].lines) : file'[g].lines[i] = file[g].lines[i]
      BY <2>1, <3>1, <3>2, AppendProperties
    <3>4. ASSUME NEW i \in 1 .. Len(file'[g].lines) PROVE file'[g].lines[i].kind # "glued"
      <4>1. i = Len(file[g].lines) + 1 \/ i \in 1 .. Len(file[g].lines)
        BY <2>1, <3>3
      <4> QED BY <2>2, <3>2, <3>3, <4>1
    <3> QED BY <2>4, <3>4 DEF ByOperator, Unglued
  <2>5. ASSUME NEW w \in Workers, Appends(w, g) PROVE file'[g].ended /\ Unglued(file'[g].lines)
    <3>1. pc[w] = "append" /\ pc[w] \in GrantPC /\ pc[w] # "idle"
      BY <2>5 DEF Appends, GrantPC
    <3>2. job[w].id \in Id /\ job[w].text \in Text
      BY <3>1, JobType
    <3>3. PICK A : A = Appended(file[g], job[w].id, job[w].text).lines
      OBVIOUS
    <3>4. /\ Len(A) \in Nat /\ Len(A) >= 2
          /\ A[Len(A)] = Content(job[w].text) /\ A[Len(A) - 1] = Comment(job[w].id)
          /\ \A i \in 1 .. Len(A) - 2 : i \in 1 .. Len(file[g].lines) /\ A[i] = file[g].lines[i]
      BY <2>1, <2>2, <3>2, <3>3, AppendedLines
    <3>5. ASSUME NEW i \in 1 .. Len(A) PROVE A[i].kind # "glued"
      <4>1. i = Len(A) \/ i = Len(A) - 1 \/ i \in 1 .. Len(A) - 2
        BY <3>4
      <4> QED BY <2>2, <3>4, <4>1 DEF Comment, Content
    <3> QED BY <2>5, <3>3, <3>5 DEF Appends, Unglued
  <2>6. ASSUME NEW w \in Workers, Renames(w, g) PROVE file'[g].ended /\ Unglued(file'[g].lines)
    BY <2>6 DEF Renames, EndedInv
  <2> QED BY <2>3, <2>4, <2>5, <2>6, LineChanges
<1>2. ASSUME NEW w \in Workers, pc'[w] = "sedRename", FileOf(job'[w]) = g
      PROVE  snapshot'[w].ended /\ Unglued(snapshot'[w].lines)
  <2>1. CASE pc[w] = "sedRename" /\ snapshot'[w] = snapshot[w] /\ job'[w] = job[w]
    BY <1>2, <2>1 DEF EndedInv
  <2>2. CASE snapshot'[w] = SedDeleted(file[FileOf(job[w])], job[w].id) /\ job'[w] = job[w]
    <3>1. FileOf(job[w]) = g /\ file[g].lines \in Seq(Lines)
      BY <1>2, <2>2, Typed DEF FileType
    <3> QED BY <2>2, <3>1, SedResult DEF EndedInv
  <2> QED BY <1>2, <2>1, <2>2, SnapshotChanges
<1>3. (file[g].ended /\ Unglued(file[g].lines))'
  BY <1>1 DEF Unglued
<1>4. \A w \in Workers : pc'[w] = "sedRename" /\ FileOf(job'[w]) = g =>
        (snapshot[w].ended /\ Unglued(snapshot[w].lines))'
  BY <1>2 DEF Unglued
<1> QED BY <1>3, <1>4 DEF EndedInv, FileOf

\* How the only worker comes to have answered a revocation with success.
LEMMA RevocationSucceeds ==
  ASSUME OneAtATime, TypeInv, [Next]_vars, NEW w \in Workers, Succeeded(w, "revoke")'
  PROVE  /\ job'[w] = job[w]
         /\ \/ pc[w] = "succeeded" /\ \A f \in Files : SameLines(f) \/ ByOperator(f)
            \/ StatBeforeRemove(w) /\ ~file[FileOf(job[w])].exists
            \/ SedRenames(w)
<1>1. /\ pc \in [Workers -> PC] /\ file \in [Files -> FileType]
      /\ job \in [Workers -> Requests \cup {None}]
  BY Typed DEF TypeInv, TypeOK
<1>2. pc'[w] = "succeeded" /\ job'[w].action = "revoke"
  BY DEF Succeeded
<1>3. \A l : Goto(w, l) => l = "succeeded"
  BY <1>1, <1>2 DEF Goto
<1>4. \A v \in Workers : v = w
  BY DEF OneAtATime
<1>5. pc[w] \in GrantPC => job[w].action # "revoke"
  BY DEF TypeInv, JobOK
<1>6. CASE UNCHANGED vars
  BY <1>2, <1>6 DEF vars, SameLines
<1>7. ASSUME NEW kind \in ByHand, OperatorAppends(kind)
      PROVE  job'[w] = job[w] /\ pc[w] = "succeeded" /\ \A f \in Files : SameLines(f) \/ ByOperator(f)
  <2>1. ASSUME NEW f \in Files PROVE SameLines(f) \/ ByOperator(f)
    <3>1. CASE f = "keys"
      BY <1>1, <1>7, <3>1 DEF OperatorAppends, ByOperator, FileType
    <3>2. CASE f # "keys"
      BY <1>1, <1>7, <3>2 DEF OperatorAppends, SameLines
    <3> QED BY <3>1, <3>2
  <2> QED BY <1>2, <1>7, <2>1 DEF OperatorAppends
<1>8. ASSUME NEW r \in Requests, Begin(w, r) \/ UserMissing(w, r) PROVE FALSE
  <2>1. job'[w] = r
    BY <1>1, <1>8 DEF Begin, UserMissing
  <2>2. r.action = "revoke"
    BY <1>2, <2>1
  <2>3. Goto(w, "statRemove") \/ Goto(w, "failed")
    BY <1>8, <2>2 DEF Begin, UserMissing
  <2> QED BY <1>3, <2>3
<1>9. ~CommandFails(w) /\ ~Dies(w)
  BY <1>3 DEF CommandFails, Dies
<1>10. ASSUME ScriptStep(w)
       PROVE  /\ job'[w] = job[w]
              /\ \/ StatBeforeRemove(w) /\ ~file[FileOf(job[w])].exists
                 \/ SedRenames(w)
  <2>1. /\ ~MakeDirectory(w) /\ ~StatFile(w) /\ ~TouchFile(w) /\ ~ChangeMode(w)
        /\ ~GrepComment(w) /\ ~GrepFails(w) /\ ~SedReads(w)
    BY <1>3 DEF MakeDirectory, StatFile, TouchFile, ChangeMode, GrepComment, GrepFails, SedReads, Step
  <2>2. job' = job
    BY <1>10 DEF ScriptStep, MakeDirectory, StatFile, TouchFile, ChangeMode, GrepComment,
                 GrepContent, GrepFails, AppendContent, GrepInclude, AppendInclude,
                 StatBeforeRemove, SedReads, SedRenames
  <2>3. ~GrepContent(w) /\ ~AppendContent(w) /\ ~GrepInclude(w) /\ ~AppendInclude(w)
    BY <1>2, <1>5, <2>2 DEF GrepContent, AppendContent, GrepInclude, AppendInclude, Step, GrantPC
  <2>4. StatBeforeRemove(w) => ~file[FileOf(job[w])].exists
    BY <1>3 DEF StatBeforeRemove, Step
  <2> QED BY <1>10, <2>1, <2>2, <2>3, <2>4 DEF ScriptStep
<1> QED BY <1>4, <1>6, <1>7, <1>8, <1>9, <1>10 DEF Next

\* No step brings back a comment that was revoked, as long as its worker rests.
LEMMA RevokedStep ==
  ASSUME OneAtATime, FindsOwn
  PROVE  TypeInv /\ EndedInv("keys") /\ EndedInv("sudoers") /\ RevokedInv /\ [Next]_vars
           => RevokedInv'
<1> SUFFICES ASSUME TypeInv, EndedInv("keys"), EndedInv("sudoers"), RevokedInv, [Next]_vars
             PROVE  RevokedInv'
  OBVIOUS
<1>1. ASSUME NEW w \in Workers, pc'[w] = "sedRename"
      PROVE  NoComment(snapshot'[w].lines, job'[w].id)
  <2>1. CASE pc[w] = "sedRename" /\ snapshot'[w] = snapshot[w] /\ job'[w] = job[w]
    BY <2>1 DEF RevokedInv
  <2>2. CASE /\ snapshot'[w] = SedDeleted(file[FileOf(job[w])], job[w].id) /\ job'[w] = job[w]
             /\ pc[w] = "sedRead"
    <3>1. FileOf(job[w]) \in Files /\ file[FileOf(job[w])].lines \in Seq(Lines)
      BY FileOfType, Typed DEF FileType
    <3>2. file[FileOf(job[w])].ended /\ Unglued(file[FileOf(job[w])].lines)
      BY <3>1 DEF EndedInv, Files
    <3>3. <<job[w].id, job[w].id>> \in SedFinds
      BY <2>2, JobType DEF FindsOwn
    <3> QED BY <2>2, <3>1, <3>2, <3>3, SedResult
  <2> QED BY <1>1, <2>1, <2>2, SnapshotChanges
<1>2. ASSUME NEW w \in Workers, Succeeded(w, "revoke")'
      PROVE  NoComment(file'[FileOf(job'[w])].lines, job'[w].id)
  <2> DEFINE g == FileOf(job[w])
  <2>1. g \in Files /\ file \in [Files -> FileType] /\ file[g].lines \in Seq(Lines)
    BY FileOfType, Typed DEF FileType
  <2>2. job'[w] = job[w]
    BY <1>2, RevocationSucceeds
  <2>3. CASE pc[w] = "succeeded" /\ (SameLines(g) \/ ByOperator(g))
    <3>1. NoComment(file[g].lines, job[w].id)
      BY <1>2, <2>2, <2>3 DEF RevokedInv, Succeeded
    <3>2. CASE SameLines(g)
      BY <2>2, <3>1, <3>2 DEF SameLines
    <3>3. CASE ByOperator(g)
      <4>1. PICK kind \in ByHand : file'[g].lines = Append(file[g].lines, Other(kind))
        BY <3>3 DEF ByOperator
      <4>2. Other(kind) \in Lines /\ Other(kind) # Comment(job[w].id)
        BY LinesType, RequestAssumption DEF Other, Comment
      <4>3. /\ Len(file[g].lines) \in Nat /\ Len(file'[g].lines) = Len(file[g].lines) + 1
            /\ file'[g].lines[Len(file[g].lines) + 1] = Other(kind)
            /\ \A i \in 1 .. Len(file[g].lines) : file'[g].lines[i] = file[g].lines[i]
        BY <2>1, <4>1, <4>2, AppendProperties
      <4>4. ASSUME NEW i \in 1 .. Len(file'[g].lines)
            PROVE  file'[g].lines[i] # Comment(job[w].id)
        <5>1. i = Len(file[g].lines) + 1 \/ i \in 1 .. Len(file[g].lines)
          BY <4>3
        <5> QED BY <3>1, <4>2, <4>3, <5>1 DEF NoComment
      <4> QED BY <2>2, <4>4 DEF NoComment
    <3> QED BY <2>3, <3>2, <3>3
  <2>4. CASE StatBeforeRemove(w) /\ ~file[g].exists
    <3>1. file'[g].lines = <<>>
      BY <2>1, <2>4 DEF StatBeforeRemove, TypeInv, FileOK
    <3> QED BY <2>2, <3>1 DEF NoComment
  <2>5. CASE SedRenames(w)
    <3>1. file'[g].lines = snapshot[w].lines /\ pc[w] = "sedRename"
      BY <2>1, <2>5 DEF SedRenames, Step, FileType
    <3> QED BY <2>2, <3>1 DEF RevokedInv
  <2> QED BY <1>2, <2>1, <2>3, <2>4, <2>5, RevocationSucceeds
<1>3. \A w \in Workers : pc'[w] = "sedRename" => NoComment(snapshot[w].lines, job[w].id)'
  BY <1>1 DEF NoComment, Comment
<1>4. \A w \in Workers : Succeeded(w, "revoke")' => NoComment(file[FileOf(job[w])].lines, job[w].id)'
  BY <1>2 DEF NoComment, Comment, FileOf
<1> QED BY <1>3, <1>4 DEF RevokedInv

\* Where no line is glued, a text stands under the very comment of its grant.
LEMMA RevokedIsGone ==
  TypeInv /\ PlacedInv /\ EndedInv("keys") /\ EndedInv("sudoers") /\ RevokedInv => RevokedKeyIsGone
<1> SUFFICES ASSUME TypeInv, PlacedInv, EndedInv("keys"), EndedInv("sudoers"), RevokedInv,
                    NEW w \in Workers, Succeeded(w, "revoke"),
                    NEW r \in Requests, r.action = "grant", FileOf(r) = FileOf(job[w]),
                    r.id = job[w].id,
                    \A q \in Requests : q.action = "grant" /\ FileOf(q) = FileOf(job[w])
                                        /\ q.text = r.text => q.id = r.id,
                    Content(r.text) \in ToSet(file[FileOf(job[w])].lines)
             PROVE  FALSE
  BY DEF RevokedKeyIsGone
<1> DEFINE g == FileOf(job[w])
           L == file[g].lines
<1>1. g \in Files /\ L \in Seq(Lines) /\ DOMAIN L = 1 .. Len(L) /\ Len(L) \in Nat
  BY FileOfType, Typed DEF FileType
<1>2. PICK i \in 1 .. Len(L) : L[i] = Content(r.text)
  BY <1>1 DEF ToSet
<1>3. KeyUnder(L, g) /\ Unglued(L) /\ NoComment(L, job[w].id)
  BY <1>1 DEF PlacedInv, EndedInv, RevokedInv, Files
<1>4. PICK q \in Requests :
        /\ q.action = "grant" /\ FileOf(q) = g /\ L[i] = Content(q.text)
        /\ i > 1 /\ L[i - 1] \in {Comment(q.id), Glued(q.id)}
  <2>1. L[i].kind = "content"
    BY <1>2 DEF Content
  <2> HIDE DEF L
  <2> QED BY <1>3, <2>1 DEF KeyUnder
<1>5. i - 1 \in 1 .. Len(L)
  BY <1>1, <1>4
<1>6. L[i - 1] = Comment(q.id)
  BY <1>3, <1>4, <1>5 DEF Unglued, Glued
<1>7. q.text = r.text
  BY <1>2, <1>4 DEF Content
<1>8. q.id = job[w].id
  BY <1>4, <1>7
<1> QED BY <1>3, <1>5, <1>6, <1>8 DEF NoComment

\* When scripts do not overlap, authorized_keys ended in a newline and sed finds every id in
\* its comment, a revocation that was answered with success leaves no text that only its
\* request asks for.
THEOREM RevokedKeysAreGone ==
  ASSUME OneAtATime, Terminated, FindsOwn
  PROVE  Spec => []RevokedKeyIsGone
<1>1. Init => RevokedInv
  BY DEF Init, RevokedInv, Succeeded
<1>2. TypeInv /\ EndedInv("keys") /\ EndedInv("sudoers") /\ RevokedInv /\ [Next]_vars => RevokedInv'
  BY RevokedStep
<1>3. "keys" \in Files /\ "sudoers" \in Files /\ "sudoers" # "keys"
  BY DEF Files
<1>4. Init => EndedInv("keys") /\ EndedInv("sudoers")
  BY <1>3, EndedInit
<1>5. /\ TypeInv /\ EndedInv("keys") /\ [Next]_vars => EndedInv("keys")'
      /\ TypeInv /\ EndedInv("sudoers") /\ [Next]_vars => EndedInv("sudoers")'
  BY <1>3, EndedStep
<1> QED BY <1>1, <1>2, <1>4, <1>5, RevokedIsGone, TypeInvariance, PlacedInvariance, PTL DEF Spec

-----------------------------------------------------------------------------
(* The log of a file, by its lines.                                        *)

\* The numbers of the lines that are keys or rules.
Contents(lines) == {i \in 1 .. Len(lines) : lines[i].kind = "content"}

\* The log that lines stand for, so that it can be said of lines that are no file yet.
LogOfLines(lines) ==
  LET at == Ascending(Len(lines), Contents(lines))
  IN [n \in 1 .. Len(at) |-> [id |-> lines[at[n] - 1].of, text |-> lines[at[n]].of]]

\* Comments and texts alternate, and no blank line follows a comment.
Paired(lines) ==
  /\ \A i \in 1 .. Len(lines) : lines[i].kind = "content" =>
       i > 1 /\ lines[i - 1].kind = "comment"
  /\ \A i \in 1 .. Len(lines) : lines[i].kind = "comment" =>
       i + 1 \in 1 .. Len(lines) /\ lines[i + 1].kind = "content"
  /\ \A i, j \in 1 .. Len(lines) : i < j /\ lines[i].kind = "comment" =>
       lines[j] # Other("blank")

\* It is the log of the file.
LEMMA LogIsOfLines == \A f : LogOf(f) = LogOfLines(file[f].lines)
  BY DEF LogOf, LogOfLines, Contents

\* The log by any enumeration of the texts.
LEMMA LogEntries ==
  ASSUME NEW lines \in Seq(Lines), NEW k, Enumerates(k, Len(lines), Contents(lines))
  PROVE  LogOfLines(lines) =
           [n \in 1 .. Len(k) |-> [id |-> lines[k[n] - 1].of, text |-> lines[k[n]].of]]
<1>1. Len(lines) \in Nat
  OBVIOUS
<1>2. Enumerates(Ascending(Len(lines), Contents(lines)), Len(lines), Contents(lines))
  BY <1>1, AscendingEnumerates
<1>3. k = Ascending(Len(lines), Contents(lines))
  BY <1>1, <1>2, EnumerationIsUnique
<1> QED BY <1>3 DEF LogOfLines

\* A comment has an ID and a content line a text.
LEMMA LinesByKind ==
  ASSUME NEW l \in Lines
  PROVE  /\ l.kind = "comment" => l.of \in Id /\ l = Comment(l.of)
         /\ l.kind = "content" => l.of \in Text /\ l = Content(l.of)
  BY DEF Lines, Comment, Content, Glued, Other

\* An entry of the log, with the line it stands for.
LEMMA EntryLines ==
  ASSUME NEW lines \in Seq(Lines), Paired(lines),
         NEW k, Enumerates(k, Len(lines), Contents(lines)), NEW n \in 1 .. Len(k)
  PROVE  /\ k[n] \in 1 .. Len(lines) /\ k[n] - 1 \in 1 .. Len(lines)
         /\ lines[k[n]].kind = "content" /\ lines[k[n] - 1].kind = "comment"
         /\ LogOfLines(lines)[n] = [id |-> lines[k[n] - 1].of, text |-> lines[k[n]].of]
         /\ lines[k[n]].of \in Text /\ lines[k[n] - 1].of \in Id
<1>1. k \in Seq(1 .. Len(lines)) /\ k[n] \in Contents(lines)
  BY DEF Enumerates
<1>2. PICK i \in 1 .. Len(lines) : i = k[n] /\ lines[i].kind = "content"
  BY <1>1 DEF Contents
<1>3. i > 1 /\ lines[i - 1].kind = "comment"
  BY <1>2 DEF Paired
<1>4. i - 1 \in 1 .. Len(lines)
  BY <1>3
<1>5. lines[i].of \in Text /\ lines[i - 1].of \in Id
  BY <1>2, <1>3, <1>4, LinesByKind
<1>6. LogOfLines(lines)[n] = [id |-> lines[k[n] - 1].of, text |-> lines[k[n]].of]
  BY LogEntries
<1> QED BY <1>2, <1>3, <1>4, <1>5, <1>6

\* The log is as long as an enumeration of the texts, and there is one.
LEMMA EntriesOf ==
  ASSUME NEW lines \in Seq(Lines)
  PROVE  \E k : /\ Enumerates(k, Len(lines), Contents(lines))
                /\ Len(k) \in Nat /\ Len(LogOfLines(lines)) = Len(k)
                /\ LogOfLines(lines) = [n \in 1 .. Len(k) |->
                                          [id |-> lines[k[n] - 1].of, text |-> lines[k[n]].of]]
<1>1. Len(lines) \in Nat
  OBVIOUS
<1>2. PICK k : Enumerates(k, Len(lines), Contents(lines))
  BY <1>1, AscendingEnumerates
<1>3. LogOfLines(lines) =
        [n \in 1 .. Len(k) |-> [id |-> lines[k[n] - 1].of, text |-> lines[k[n]].of]]
  BY <1>2, LogEntries
<1>4. Len(k) \in Nat
  BY <1>2 DEF Enumerates
<1>5. Len(LogOfLines(lines)) = Len(k)
  BY <1>3, <1>4
<1> QED BY <1>2, <1>3, <1>4, <1>5

\* The entries of a log.
Entry == [id : Id, text : Text]

\* The log of paired lines is a sequence of them.
LEMMA LogIsASeq ==
  ASSUME NEW lines \in Seq(Lines), Paired(lines)
  PROVE  LogOfLines(lines) \in Seq(Entry)
<1>1. PICK k : /\ Enumerates(k, Len(lines), Contents(lines)) /\ Len(k) \in Nat
               /\ LogOfLines(lines) = [n \in 1 .. Len(k) |->
                                         [id |-> lines[k[n] - 1].of, text |-> lines[k[n]].of]]
  BY EntriesOf
<1>2. \A n \in 1 .. Len(k) : [id |-> lines[k[n] - 1].of, text |-> lines[k[n]].of] \in Entry
  BY <1>1, EntryLines DEF Entry
<1> QED BY <1>1, <1>2, IsASeq

\* Only the members up to n matter to an enumeration up to n.
LEMMA EnumerateSame ==
  ASSUME NEW n \in Nat, NEW S, NEW R, NEW k, Enumerates(k, n, S),
         \A i \in 1 .. n : i \in S <=> i \in R
  PROVE  Enumerates(k, n, R)
<1>1. \A p \in 1 .. Len(k) : k[p] \in 1 .. n
  BY DEF Enumerates
<1> QED BY <1>1 DEF Enumerates

\* The members up to m are the first of them.
LEMMA EnumerateFirst ==
  ASSUME NEW n \in Nat, NEW S, NEW k, Enumerates(k, n, S), NEW m \in Nat, m <= n
  PROVE  \E p \in 0 .. Len(k) : /\ Enumerates(SubSeq(k, 1, p), m, S)
                                /\ p < Len(k) => k[p + 1] > m
<1>1. k \in Seq(1 .. n) /\ Len(k) \in Nat /\ \A q \in 1 .. Len(k) : k[q] \in 1 .. n
  BY DEF Enumerates
<1>2. PICK p \in 0 .. Len(k) : /\ \A q \in 1 .. p : k[q] <= m
                               /\ p < Len(k) => k[p + 1] > m
  <2> DEFINE T == {q \in 1 .. Len(k) : k[q] > m}
  <2>1. CASE T = {}
    <3>1. Len(k) \in 0 .. Len(k) /\ ~(Len(k) < Len(k))
      BY <1>1
    <3>2. \A q \in 1 .. Len(k) : k[q] <= m
      BY <1>1, <2>1
    <3> QED BY <3>1, <3>2
  <2>2. CASE T # {}
    <3>1. PICK t \in T : \A q \in T : t <= q
      <4>1. T \subseteq Nat
        BY <1>1
      <4> HIDE DEF T
      <4> QED BY <2>2, <4>1, LeastNat
    <3>2. PICK p \in Nat : p = t - 1 /\ p + 1 = t
      <4>1. t \in Nat /\ t - 1 \in Nat /\ t - 1 + 1 = t
        BY <1>1
      <4> QED BY <4>1
    <3>3. p \in 0 .. Len(k) /\ k[p + 1] > m
      BY <1>1, <3>2
    <3>4. ASSUME NEW q \in 1 .. p PROVE k[q] <= m
      <4>1. q \in 1 .. Len(k) /\ q < t
        BY <1>1, <3>2
      <4>2. q \notin T
        BY <3>1, <4>1, <1>1
      <4> QED BY <1>1, <4>1, <4>2
    <3> QED BY <3>3, <3>4
  <2> QED BY <2>1, <2>2
<1>3. PICK h : h = SubSeq(k, 1, p)
  OBVIOUS
<1>4. \A q \in 1 .. p : q \in 1 .. Len(k) /\ k[q] \in 1 .. m
  BY <1>1, <1>2
<1>5. h \in Seq(1 .. m) /\ Len(h) = p /\ \A q \in 1 .. p : h[q] = k[q]
  <2>1. p \in Nat /\ \A q \in 1 .. p : k[q] \in 1 .. m
    BY <1>4
  <2>2. PICK R : R = 1 .. m
    OBVIOUS
  <2>3. h \in Seq(R) /\ Len(h) = p /\ \A q \in 1 .. p : h[q] = k[q]
    BY <1>3, <2>1, <2>2, CutLines
  <2> QED BY <2>2, <2>3
<1>6. ASSUME NEW i \in 1 .. m, i \in S PROVE \E q \in 1 .. Len(h) : h[q] = i
  <2>1. i \in 1 .. n
    OBVIOUS
  <2>2. PICK q \in 1 .. Len(k) : k[q] = i
    BY <1>6, <2>1 DEF Enumerates
  <2>3. q \in 1 .. p
    <3> SUFFICES ASSUME p < q PROVE FALSE
      BY <1>1
    <3>1. p + 1 \in 1 .. Len(k) /\ k[p + 1] > m /\ p + 1 <= q
      BY <1>1, <1>2
    <3>2. p + 1 < q => k[p + 1] < k[q]
      BY <3>1 DEF Enumerates
    <3> QED BY <1>1, <2>2, <3>1, <3>2
  <2> QED BY <1>5, <2>2, <2>3
<1>7. \A q, r \in 1 .. Len(h) : q < r => h[q] < h[r]
  BY <1>4, <1>5 DEF Enumerates
<1>8. \A q \in 1 .. Len(h) : h[q] \in S
  BY <1>4, <1>5 DEF Enumerates
<1> QED BY <1>2, <1>3, <1>5, <1>6, <1>7, <1>8 DEF Enumerates

-----------------------------------------------------------------------------
(* What a foreign line, a grant and sed do to the log.                     *)

\* Lines A are lines L with a foreign line behind them.
LEMMA LogOfForeign ==
  ASSUME NEW L \in Seq(Lines), NEW A, A = Append(L, Other("foreign")), Paired(L)
  PROVE  Paired(A) /\ LogOfLines(A) = LogOfLines(L)
<1>1. /\ Other("foreign") \in Lines /\ Other("foreign").kind = "foreign"
      /\ Other("foreign") # Other("blank")
  BY LinesType DEF Other
<1>2. PICK n \in Nat : n = Len(L)
  OBVIOUS
<1>3. /\ A \in Seq(Lines) /\ Len(A) = n + 1 /\ A[n + 1] = Other("foreign")
      /\ \A i \in 1 .. n : A[i] = L[i]
  BY <1>1, <1>2, AppendProperties
<1>4. \A i \in 1 .. n + 1 : i = n + 1 \/ i \in 1 .. n
  OBVIOUS
<1>5. Paired(A)
  <2>1. ASSUME NEW i \in 1 .. n + 1, A[i].kind = "content"
        PROVE  i > 1 /\ A[i - 1].kind = "comment"
    <3>1. i \in 1 .. n
      BY <1>1, <1>3, <1>4, <2>1
    <3>2. i > 1 /\ L[i - 1].kind = "comment"
      BY <1>2, <1>3, <2>1, <3>1 DEF Paired
    <3>3. i - 1 \in 1 .. n
      BY <3>1, <3>2
    <3> QED BY <1>3, <3>2, <3>3
  <2>2. ASSUME NEW i \in 1 .. n + 1, A[i].kind = "comment"
        PROVE  i + 1 \in 1 .. n + 1 /\ A[i + 1].kind = "content"
    <3>1. i \in 1 .. n
      BY <1>1, <1>3, <1>4, <2>2
    <3>2. i + 1 \in 1 .. n /\ L[i + 1].kind = "content"
      BY <1>2, <1>3, <2>2, <3>1 DEF Paired
    <3> QED BY <1>3, <3>2
  <2>3. ASSUME NEW i \in 1 .. n + 1, NEW j \in 1 .. n + 1, i < j, A[i].kind = "comment"
        PROVE  A[j] # Other("blank")
    <3>1. i \in 1 .. n
      BY <2>3
    <3>2. j \in 1 .. n => L[j] # Other("blank")
      BY <1>2, <1>3, <2>3, <3>1 DEF Paired
    <3> QED BY <1>1, <1>3, <1>4, <3>2
  <2> QED BY <1>3, <2>1, <2>2, <2>3 DEF Paired
<1>6. PICK k : /\ Enumerates(k, n, Contents(L)) /\ Len(k) \in Nat
               /\ LogOfLines(L) =
                    [p \in 1 .. Len(k) |-> [id |-> L[k[p] - 1].of, text |-> L[k[p]].of]]
  BY <1>2, EntriesOf
<1>7. Enumerates(k, n + 1, Contents(A))
  <2>1. \A i \in 1 .. n : i \in Contents(L) <=> i \in Contents(A)
    BY <1>2, <1>3 DEF Contents
  <2>2. n + 1 \notin Contents(A)
    BY <1>1, <1>3 DEF Contents
  <2>3. Enumerates(k, n, Contents(A))
    BY <1>6, <2>1, EnumerateSame
  <2>4. k = IF n + 1 \in Contents(A) THEN Append(k, n + 1) ELSE k
    BY <2>2
  <2> QED BY <2>3, <2>4, EnumerateOneMore
<1>8. LogOfLines(A) = [p \in 1 .. Len(k) |-> [id |-> A[k[p] - 1].of, text |-> A[k[p]].of]]
  BY <1>3, <1>7, LogEntries
<1>9. ASSUME NEW p \in 1 .. Len(k) PROVE A[k[p]] = L[k[p]] /\ A[k[p] - 1] = L[k[p] - 1]
  <2>1. k[p] \in 1 .. n /\ k[p] - 1 \in 1 .. n
    BY <1>2, <1>6, EntryLines
  <2> QED BY <1>3, <2>1
<1> QED BY <1>5, <1>6, <1>8, <1>9

\* Lines A are lines L with the comment and the text of a grant behind them.
LEMMA LogOfGrant ==
  ASSUME NEW L \in Seq(Lines), Paired(L), NEW A \in Seq(Lines), NEW id \in Id, NEW t \in Text,
         Len(A) = Len(L) + 2, \A i \in 1 .. Len(L) : A[i] = L[i],
         A[Len(L) + 1] = Comment(id), A[Len(L) + 2] = Content(t)
  PROVE  Paired(A) /\ LogOfLines(A) = Append(LogOfLines(L), [id |-> id, text |-> t])
<1>1. /\ Comment(id).kind = "comment" /\ Content(t).kind = "content"
      /\ Comment(id) # Other("blank") /\ Content(t) # Other("blank")
      /\ Comment(id).of = id /\ Content(t).of = t
  BY DEF Comment, Content, Other
<1>2. PICK n \in Nat : n = Len(L)
  OBVIOUS
<1>3. /\ Len(A) = n + 2 /\ A[n + 1] = Comment(id) /\ A[n + 2] = Content(t)
      /\ \A i \in 1 .. n : A[i] = L[i]
  BY <1>2
<1>4. \A i \in 1 .. n + 2 : i = n + 1 \/ i = n + 2 \/ i \in 1 .. n
  OBVIOUS
<1>5. Paired(A)
  <2>1. ASSUME NEW i \in 1 .. n + 2, A[i].kind = "content"
        PROVE  i > 1 /\ A[i - 1].kind = "comment"
    <3>1. CASE i = n + 2
      <4>1. i - 1 = n + 1 /\ i > 1
        BY <3>1
      <4> QED BY <4>1, <1>1, <1>3
    <3>2. CASE i \in 1 .. n
      <4>1. i > 1 /\ L[i - 1].kind = "comment"
        BY <1>2, <1>3, <2>1, <3>2 DEF Paired
      <4>2. i - 1 \in 1 .. n
        BY <3>2, <4>1
      <4> QED BY <1>3, <4>1, <4>2
    <3> QED BY <1>1, <1>3, <1>4, <2>1, <3>1, <3>2
  <2>2. ASSUME NEW i \in 1 .. n + 2, A[i].kind = "comment"
        PROVE  i + 1 \in 1 .. n + 2 /\ A[i + 1].kind = "content"
    <3>1. CASE i = n + 1
      BY <1>1, <1>3, <3>1
    <3>2. CASE i \in 1 .. n
      <4>1. i + 1 \in 1 .. n /\ L[i + 1].kind = "content"
        BY <1>2, <1>3, <2>2, <3>2 DEF Paired
      <4> QED BY <1>3, <4>1
    <3> QED BY <1>1, <1>3, <1>4, <2>2, <3>1, <3>2
  <2>3. ASSUME NEW i \in 1 .. n + 2, NEW j \in 1 .. n + 2, i < j, A[i].kind = "comment"
        PROVE  A[j] # Other("blank")
    <3>1. CASE j \in 1 .. n
      <4>1. i \in 1 .. n
        BY <2>3, <3>1
      <4> QED BY <1>2, <1>3, <2>3, <3>1, <4>1 DEF Paired
    <3> QED BY <1>1, <1>3, <1>4, <3>1
  <2> QED BY <1>3, <2>1, <2>2, <2>3 DEF Paired
<1>6. PICK k : /\ Enumerates(k, n, Contents(L)) /\ Len(k) \in Nat
               /\ LogOfLines(L) =
                    [p \in 1 .. Len(k) |-> [id |-> L[k[p] - 1].of, text |-> L[k[p]].of]]
  BY <1>2, EntriesOf
<1>7. PICK h : h = Append(k, n + 2)
  OBVIOUS
<1>8. Enumerates(h, n + 2, Contents(A))
  <2>1. \A i \in 1 .. n : i \in Contents(L) <=> i \in Contents(A)
    BY <1>2, <1>3 DEF Contents
  <2>2. n + 1 \notin Contents(A) /\ n + 2 \in Contents(A)
    BY <1>1, <1>3 DEF Contents
  <2>3. Enumerates(k, n, Contents(A))
    BY <1>6, <2>1, EnumerateSame
  <2>4. k = IF n + 1 \in Contents(A) THEN Append(k, n + 1) ELSE k
    BY <2>2
  <2>5. Enumerates(k, n + 1, Contents(A))
    BY <2>3, <2>4, EnumerateOneMore
  <2>6. PICK m \in Nat : m = n + 1 /\ m + 1 = n + 2
    OBVIOUS
  <2>7. h = IF m + 1 \in Contents(A) THEN Append(k, m + 1) ELSE k
    BY <1>7, <2>2, <2>6
  <2>8. Enumerates(h, m + 1, Contents(A))
    BY <2>5, <2>6, <2>7, EnumerateOneMore
  <2> QED BY <2>6, <2>8
<1>9. /\ Len(h) = Len(k) + 1 /\ h[Len(k) + 1] = n + 2
      /\ \A p \in 1 .. Len(k) : h[p] = k[p]
  <2>1. k \in Seq(Nat)
    BY <1>6 DEF Enumerates
  <2>2. n + 2 \in Nat
    OBVIOUS
  <2>3. PICK e \in Nat : e = n + 2
    BY <2>2
  <2>4. h = Append(k, e)
    BY <1>7, <2>3
  <2>5. /\ Len(h) = Len(k) + 1 /\ h[Len(k) + 1] = e
        /\ \A p \in 1 .. Len(k) : h[p] = k[p]
    BY <2>1, <2>4, AppendProperties
  <2> QED BY <2>3, <2>5
<1>10. LogOfLines(A) = [p \in 1 .. Len(h) |-> [id |-> A[h[p] - 1].of, text |-> A[h[p]].of]]
  BY <1>3, <1>8, LogEntries
<1>11. ASSUME NEW p \in 1 .. Len(k) PROVE A[h[p]] = L[k[p]] /\ A[h[p] - 1] = L[k[p] - 1]
  <2>1. k[p] \in 1 .. n /\ k[p] - 1 \in 1 .. n
    BY <1>2, <1>6, EntryLines
  <2> QED BY <1>3, <1>9, <2>1
<1>12. A[h[Len(k) + 1]].of = t /\ A[h[Len(k) + 1] - 1].of = id
  <2>1. h[Len(k) + 1] - 1 = n + 1
    BY <1>9
  <2> QED BY <1>1, <1>3, <1>9, <2>1
<1>13. PICK e : e = [id |-> id, text |-> t]
  OBVIOUS
<1>14. e \in Entry /\ LogOfLines(L) \in Seq(Entry) /\ LogOfLines(A) \in Seq(Entry)
  BY <1>5, <1>13, LogIsASeq DEF Entry
<1>15. PICK B \in Seq(Entry) : /\ B = Append(LogOfLines(L), e)
                              /\ Len(B) = Len(k) + 1 /\ B[Len(k) + 1] = e
                              /\ \A p \in 1 .. Len(k) : B[p] = LogOfLines(L)[p]
  <2>1. Len(LogOfLines(L)) = Len(k)
    BY <1>6
  <2>2. PICK Q \in Seq(Entry) : Q = LogOfLines(L) /\ Len(Q) = Len(k)
    BY <1>14, <2>1
  <2>3. /\ Append(Q, e) \in Seq(Entry) /\ Len(Append(Q, e)) = Len(Q) + 1
        /\ Append(Q, e)[Len(Q) + 1] = e
        /\ \A p \in 1 .. Len(Q) : Append(Q, e)[p] = Q[p]
    BY <1>14, AppendProperties
  <2> QED BY <2>2, <2>3
<1>16. Len(LogOfLines(A)) = Len(k) + 1
  BY <1>6, <1>9, <1>10
<1>17. ASSUME NEW p \in 1 .. Len(k) + 1 PROVE LogOfLines(A)[p] = B[p]
  <2>1. p \in 1 .. Len(h)
    BY <1>9
  <2>2. LogOfLines(A)[p] = [id |-> A[h[p] - 1].of, text |-> A[h[p]].of]
    BY <1>10, <2>1
  <2>3. CASE p = Len(k) + 1
    BY <1>12, <1>13, <1>15, <2>2, <2>3
  <2>4. CASE p \in 1 .. Len(k)
    BY <1>6, <1>11, <1>15, <2>2, <2>4
  <2> QED BY <1>6, <2>3, <2>4
<1>18. LogOfLines(A) = B
  BY <1>14, <1>15, <1>16, <1>17, SeqEqual
<1> QED BY <1>5, <1>13, <1>15, <1>18

\* Lines O are lines L up to the first comment of the request, or up to where only
\* lines of others follow.
Cut(O, L, id) ==
  /\ Len(O) <= Len(L)
  /\ \A i \in 1 .. Len(O) : O[i] = L[i] /\ L[i] # Comment(id)
  /\ \/ Len(O) < Len(L) /\ L[Len(O) + 1] = Comment(id)
     \/ \A i \in Len(O) + 1 .. Len(L) : L[i] = Other("foreign")

\* Of paired lines, what sed leaves is a cut: the first comment of the request and all that
\* follows go, for there is no blank line behind a comment at which the range would end.
LEMMA SedCuts ==
  ASSUME FindsExact, NEW f, f.lines \in Seq(Lines), Paired(f.lines), NEW id \in Id
  PROVE  Cut(SedDeleted(f, id).lines, f.lines, id)
<1>0. \A i \in 1 .. Len(f.lines) : Finds(id, f.lines[i]) <=> f.lines[i] = Comment(id)
  <2> SUFFICES ASSUME NEW i \in 1 .. Len(f.lines)
               PROVE  Finds(id, f.lines[i]) <=> f.lines[i] = Comment(id)
    OBVIOUS
  <2>1. PICK l \in Lines : l = f.lines[i]
    OBVIOUS
  <2>2. l.kind = "comment" => l.of \in Id /\ l = Comment(l.of)
    BY LinesByKind
  <2>3. Comment(id).kind = "comment" /\ Comment(id).of = id
    BY DEF Comment
  <2> QED BY <2>1, <2>2, <2>3 DEF Finds, FindsExact
<1>1. PICK n \in Nat : n = Len(f.lines)
  OBVIOUS
<1>2. PICK k : /\ Enumerates(k, n, Kept(f.lines, id))
               /\ SedDeleted(f, id).lines \in Seq(Lines)
               /\ Len(SedDeleted(f, id).lines) = Len(k)
               /\ \A p \in 1 .. Len(k) : SedDeleted(f, id).lines[p] = f.lines[k[p]]
  BY <1>1, SedKeeps
<1>3. PICK m \in 0 .. n : /\ \A i \in 1 .. m : f.lines[i] # Comment(id)
                          /\ m < n => f.lines[m + 1] = Comment(id)
  <2> DEFINE T == {i \in 1 .. n : f.lines[i] = Comment(id)}
  <2>1. CASE T = {}
    <3>1. n \in 0 .. n /\ ~(n < n)
      OBVIOUS
    <3> QED BY <2>1, <3>1
  <2>2. CASE T # {}
    <3>1. PICK t \in T : \A i \in T : t <= i
      <4>1. T \subseteq Nat
        OBVIOUS
      <4> HIDE DEF T
      <4> QED BY <2>2, <4>1, LeastNat
    <3>2. t \in Nat /\ t - 1 \in 0 .. n /\ t - 1 + 1 = t
      OBVIOUS
    <3>3. ASSUME NEW i \in 1 .. t - 1 PROVE f.lines[i] # Comment(id)
      <4>1. i \in 1 .. n /\ i < t
        OBVIOUS
      <4>2. i \notin T
        BY <3>1, <3>2, <4>1
      <4> QED BY <4>1, <4>2
    <3> QED BY <3>2, <3>3
  <2> QED BY <2>1, <2>2
<1>4. ASSUME NEW i \in 1 .. n PROVE i \in Kept(f.lines, id) <=> i <= m
  <2>1. CASE i <= m
    <3>1. ~InRange(f.lines, id, i)
      <4>1. \A j \in 1 .. i : j \in 1 .. m /\ j \in 1 .. n
        BY <2>1
      <4> QED BY <1>0, <1>1, <1>3, <4>1 DEF InRange
    <3> QED BY <1>1, <2>1, <3>1 DEF Kept
  <2>2. CASE m < i
    <3>1. m + 1 \in 1 .. i /\ m + 1 \in 1 .. n /\ f.lines[m + 1] = Comment(id)
      BY <1>3, <2>2
    <3>2. ASSUME NEW j \in m + 1 + 1 .. i - 1 PROVE f.lines[j] # Other("blank")
      <4>1. j \in 1 .. n /\ m + 1 < j
        OBVIOUS
      <4>2. f.lines[m + 1].kind = "comment"
        BY <3>1 DEF Comment
      <4> QED BY <1>1, <3>1, <4>1, <4>2 DEF Paired
    <3>3. InRange(f.lines, id, i)
      BY <1>0, <1>1, <3>1, <3>2 DEF InRange
    <3> QED BY <2>2, <3>3 DEF Kept
  <2> QED BY <2>1, <2>2
<1>5. PICK d : d = [p \in 1 .. m |-> p]
  OBVIOUS
<1>6. Enumerates(d, n, Kept(f.lines, id))
  <2>1. d \in Seq(1 .. n) /\ Len(d) = m /\ \A p \in 1 .. m : d[p] = p
    <3>1. m \in Nat /\ \A p \in 1 .. m : p \in 1 .. n
      OBVIOUS
    <3>2. d \in [1 .. m -> 1 .. n]
      BY <1>5, <3>1
    <3> QED BY <1>5, <3>1, <3>2
  <2>2. \A i \in 1 .. m : i \in Kept(f.lines, id)
    BY <1>4
  <2>3. \A i \in 1 .. n : i \in Kept(f.lines, id) => i \in 1 .. m
    BY <1>4
  <2> QED BY <2>1, <2>2, <2>3 DEF Enumerates
<1>7. k = d
  BY <1>2, <1>6, EnumerationIsUnique
<1>8. Len(k) = m /\ \A p \in 1 .. m : k[p] = p
  BY <1>5, <1>7
<1>9. PICK O : O = SedDeleted(f, id).lines /\ Len(O) = m /\ \A p \in 1 .. m : O[p] = f.lines[p]
  BY <1>2, <1>8
<1>10. m < n \/ \A i \in m + 1 .. n : FALSE
  OBVIOUS
<1>11. Cut(O, f.lines, id)
  BY <1>1, <1>3, <1>9, <1>10 DEF Cut
<1> QED BY <1>9, <1>11

\* A cut takes no text from its comment.
LEMMA CutIsPaired ==
  ASSUME NEW L \in Seq(Lines), Paired(L), NEW O \in Seq(Lines), NEW id, Cut(O, L, id)
  PROVE  Paired(O)
<1>1. PICK m \in Nat : m = Len(O) /\ m <= Len(L) /\ Len(L) \in Nat
  BY DEF Cut
<1>2. \A i \in 1 .. m : i \in 1 .. Len(L) /\ O[i] = L[i]
  BY <1>1 DEF Cut
<1>3. ASSUME NEW i \in 1 .. m, O[i].kind = "content"
      PROVE  i > 1 /\ O[i - 1].kind = "comment"
  <2>1. i > 1 /\ L[i - 1].kind = "comment"
    BY <1>2, <1>3 DEF Paired
  <2>2. i - 1 \in 1 .. m
    BY <2>1
  <2> QED BY <1>2, <2>1, <2>2
<1>4. ASSUME NEW i \in 1 .. m, O[i].kind = "comment"
      PROVE  i + 1 \in 1 .. m /\ O[i + 1].kind = "content"
  <2>1. i + 1 \in 1 .. Len(L) /\ L[i + 1].kind = "content"
    BY <1>2, <1>4 DEF Paired
  <2>2. i # m
    <3> SUFFICES ASSUME i = m PROVE FALSE
      OBVIOUS
    <3>1. m + 1 \in 1 .. Len(L) /\ m + 1 \in m + 1 .. Len(L) /\ L[m + 1].kind = "content"
      BY <1>1, <2>1
    <3>2. L[m + 1] = Comment(id) \/ L[m + 1] = Other("foreign")
      BY <1>1, <3>1 DEF Cut
    <3> QED BY <3>1, <3>2 DEF Comment, Other
  <2>3. i + 1 \in 1 .. m
    BY <2>2
  <2> QED BY <1>2, <2>1, <2>3
<1>5. ASSUME NEW i \in 1 .. m, NEW j \in 1 .. m, i < j, O[i].kind = "comment"
      PROVE  O[j] # Other("blank")
  BY <1>2, <1>5 DEF Paired
<1> QED BY <1>1, <1>3, <1>4, <1>5 DEF Paired

\* What a cut does to the log: nothing, or it goes back to before the request.
Revoked(l, m, id) ==
  \E n \in 1 .. Len(l) : /\ l[n].id = id
                         /\ \A q \in 1 .. n - 1 : l[q].id # id
                         /\ m = SubSeq(l, 1, n - 1)

\* What the cut does to the log, for any number of entries.
LEMMA LogOfCut ==
  ASSUME NEW L \in Seq(Lines), Paired(L), NEW O \in Seq(Lines), NEW id, Cut(O, L, id)
  PROVE  LogOfLines(O) = LogOfLines(L) \/ Revoked(LogOfLines(L), LogOfLines(O), id)
<1>1. PICK n \in Nat, m \in Nat : n = Len(L) /\ m = Len(O) /\ m <= n
  BY DEF Cut
<1>2. \A i \in 1 .. m : i \in 1 .. n /\ O[i] = L[i] /\ L[i] # Comment(id)
  BY <1>1 DEF Cut
<1>3. PICK k : /\ Enumerates(k, n, Contents(L)) /\ Len(k) \in Nat
               /\ LogOfLines(L) =
                    [q \in 1 .. Len(k) |-> [id |-> L[k[q] - 1].of, text |-> L[k[q]].of]]
  BY <1>1, EntriesOf
<1>4. PICK p \in 0 .. Len(k) : /\ Enumerates(SubSeq(k, 1, p), m, Contents(L))
                               /\ p < Len(k) => k[p + 1] > m
  BY <1>1, <1>3, EnumerateFirst
<1>5. \A q \in 1 .. Len(k) : /\ k[q] \in 1 .. n /\ k[q] - 1 \in 1 .. n
                             /\ L[k[q]].kind = "content" /\ L[k[q] - 1].kind = "comment"
  BY <1>1, <1>3, EntryLines
<1>6. PICK h : h = SubSeq(k, 1, p)
  OBVIOUS
<1>7. Len(h) = p /\ \A q \in 1 .. p : h[q] = k[q]
  <2>1. p \in Nat /\ \A q \in 1 .. p : q \in 1 .. Len(k)
    BY <1>3
  <2>2. \A q \in 1 .. p : k[q] \in Nat
    BY <1>5, <2>1
  <2> QED BY <1>6, <2>1, <2>2, CutLines
<1>8. Enumerates(h, m, Contents(O))
  <2>1. \A i \in 1 .. m : i \in Contents(L) <=> i \in Contents(O)
    BY <1>1, <1>2 DEF Contents
  <2> QED BY <1>4, <1>6, <2>1, EnumerateSame
<1>9. LogOfLines(O) = [q \in 1 .. p |-> [id |-> O[h[q] - 1].of, text |-> O[h[q]].of]]
  BY <1>1, <1>7, <1>8, LogEntries
<1>10. ASSUME NEW q \in 1 .. p
       PROVE  /\ q \in 1 .. Len(k) /\ k[q] - 1 \in 1 .. m
              /\ LogOfLines(O)[q] = LogOfLines(L)[q]
  <2>1. q \in 1 .. Len(k) /\ h[q] = k[q]
    BY <1>3, <1>7
  <2>2. h[q] \in 1 .. m
    <3>1. h \in Seq(1 .. m)
      BY <1>8 DEF Enumerates
    <3>2. q \in 1 .. Len(h)
      BY <1>7
    <3> QED BY <3>1, <3>2, ElementOfSeq
  <2>3. k[q] \in 1 .. m /\ k[q] - 1 \in 1 .. m
    BY <1>5, <2>1, <2>2
  <2>4. O[h[q]] = L[k[q]] /\ O[h[q] - 1] = L[k[q] - 1]
    BY <1>2, <2>1, <2>3
  <2>5. LogOfLines(O)[q] = [id |-> O[h[q] - 1].of, text |-> O[h[q]].of]
    BY <1>9
  <2>6. LogOfLines(L)[q] = [id |-> L[k[q] - 1].of, text |-> L[k[q]].of]
    BY <1>3, <2>1
  <2> QED BY <2>1, <2>3, <2>4, <2>5, <2>6
<1>11. /\ LogOfLines(L) \in Seq(Entry) /\ Len(LogOfLines(L)) = Len(k)
       /\ LogOfLines(O) \in Seq(Entry) /\ Len(LogOfLines(O)) = p
  <2>1. LogOfLines(L) \in Seq(Entry) /\ LogOfLines(O) \in Seq(Entry)
    BY LogIsASeq, CutIsPaired
  <2> QED BY <1>3, <1>9, <2>1
<1>12. CASE p = Len(k)
  BY <1>10, <1>11, <1>12, SeqEqual
<1>13. CASE p < Len(k)
  <2>1. p + 1 \in 1 .. Len(k) /\ k[p + 1] \in m + 1 .. n
    BY <1>3, <1>4, <1>5, <1>13
  <2>2. L[k[p + 1]].kind = "content"
    BY <1>5, <2>1
  <2>3. m < n /\ L[m + 1] = Comment(id)
    <3>1. L[k[p + 1]] # Other("foreign")
      BY <2>2 DEF Other
    <3> QED BY <1>1, <2>1, <3>1 DEF Cut
  <2>4. m + 2 \in 1 .. n /\ L[m + 2].kind = "content"
    <3>1. m + 1 \in 1 .. n /\ L[m + 1].kind = "comment"
      BY <2>3 DEF Comment
    <3>2. PICK i \in 1 .. n : i = m + 1
      BY <3>1
    <3>3. i + 1 \in 1 .. n /\ L[i + 1].kind = "content"
      BY <1>1, <3>1, <3>2 DEF Paired
    <3>4. i + 1 = m + 2
      BY <3>2
    <3> QED BY <3>3, <3>4
  <2>5. m + 2 \in Contents(L)
    BY <1>1, <2>4 DEF Contents
  <2>6. PICK q \in 1 .. Len(k) : k[q] = m + 2
    BY <1>3, <2>4, <2>5 DEF Enumerates
  <2>7. k[p + 1] = m + 2
    <3>1. k[p + 1] # m + 1
      BY <2>2, <2>3 DEF Comment
    <3>2. q \notin 1 .. p
      BY <1>7, <1>8, <2>6 DEF Enumerates
    <3>3. p + 1 = q \/ p + 1 < q
      BY <1>3, <3>2
    <3>4. p + 1 < q => k[p + 1] < k[q]
      BY <1>3, <2>1 DEF Enumerates
    <3> QED BY <2>1, <2>6, <3>1, <3>3, <3>4
  <2>8. LogOfLines(L)[p + 1].id = id
    <3>1. k[p + 1] - 1 = m + 1
      BY <2>7
    <3>2. LogOfLines(L)[p + 1] = [id |-> L[m + 1].of, text |-> L[k[p + 1]].of]
      BY <1>3, <2>1, <3>1
    <3> QED BY <2>3, <3>2 DEF Comment
  <2>9. ASSUME NEW r \in 1 .. p PROVE LogOfLines(L)[r].id # id
    <3>1. r \in 1 .. Len(k) /\ k[r] - 1 \in 1 .. m
      BY <1>10
    <3>2. LogOfLines(L)[r].id = L[k[r] - 1].of
      BY <1>3, <3>1
    <3>3. L[k[r] - 1] # Comment(id) /\ L[k[r] - 1].kind = "comment" /\ L[k[r] - 1] \in Lines
      BY <1>1, <1>2, <1>5, <3>1
    <3> QED BY <3>2, <3>3, LinesByKind
  <2>10. LogOfLines(O) = SubSeq(LogOfLines(L), 1, p)
    <3>1. PICK B : B = SubSeq(LogOfLines(L), 1, p)
      OBVIOUS
    <3>2. p \in Nat /\ \A r \in 1 .. p : LogOfLines(L)[r] \in Entry
      BY <1>10, <1>11
    <3>3. B \in Seq(Entry) /\ Len(B) = p /\ \A r \in 1 .. p : B[r] = LogOfLines(L)[r]
      BY <3>1, <3>2, CutLines
    <3>4. LogOfLines(O) = B
      BY <1>10, <1>11, <3>3, SeqEqual
    <3> QED BY <3>1, <3>4
  <2>11. PICK s \in 1 .. Len(k) : s = p + 1 /\ s - 1 = p
    BY <2>1
  <2> QED BY <1>11, <2>8, <2>9, <2>10, <2>11 DEF Revoked
<1> QED BY <1>3, <1>12, <1>13

\* The file is a log; what grep said of it still holds, and so does what sed made of it.
LogInv(g) ==
  /\ Paired(file[g].lines)
  /\ \A w \in Workers : FileOf(job[w]) = g =>
       /\ pc[w] = "grepContent" => found[w] = HasComment(file[g], job[w].id)
       /\ pc[w] = "append" =>
            ~(HasComment(file[g], job[w].id) /\ HasContent(file[g], job[w].text))
       /\ pc[w] = "sedRename" => Cut(snapshot[w].lines, file[g].lines, job[w].id)

\* How the only worker comes to where it depends on what it has seen of the file.
LEMMA Arrives ==
  ASSUME OneAtATime, "grep" \notin Failures, TypeInv, [Next]_vars, NEW w \in Workers,
         pc'[w] \in {"grepContent", "append", "sedRename"}
  PROVE  /\ job'[w] = job[w]
         /\ \/ /\ pc'[w] = pc[w] /\ found'[w] = found[w] /\ snapshot'[w] = snapshot[w]
               /\ \A f \in Files : SameLines(f) \/ ByOperator(f)
            \/ GrepComment(w) \/ GrepContent(w) \/ SedReads(w)
<1>1. /\ pc \in [Workers -> PC] /\ file \in [Files -> FileType]
      /\ job \in [Workers -> Requests \cup {None}]
  BY Typed DEF TypeInv, TypeOK
<1>2. \A l : Goto(w, l) => l \in {"grepContent", "append", "sedRename"}
  BY <1>1 DEF Goto
<1>3. \A v \in Workers : v = w
  BY DEF OneAtATime
<1>4. CASE UNCHANGED vars
  BY <1>4 DEF vars, SameLines
<1>5. ASSUME NEW kind \in ByHand, OperatorAppends(kind)
      PROVE  /\ job'[w] = job[w] /\ pc'[w] = pc[w] /\ found'[w] = found[w]
             /\ snapshot'[w] = snapshot[w]
             /\ \A f \in Files : SameLines(f) \/ ByOperator(f)
  <2>1. ASSUME NEW f \in Files PROVE SameLines(f) \/ ByOperator(f)
    <3>1. CASE f = "keys"
      BY <1>1, <1>5, <3>1 DEF OperatorAppends, ByOperator, FileType
    <3>2. CASE f # "keys"
      BY <1>1, <1>5, <3>2 DEF OperatorAppends, SameLines
    <3> QED BY <3>1, <3>2
  <2> QED BY <1>5, <2>1 DEF OperatorAppends
<1>6. ASSUME NEW r \in Requests, Begin(w, r) \/ UserMissing(w, r) PROVE FALSE
  <2>1. PICK l \in {"statRemove", "mkdir", "failed", "succeeded"} : Goto(w, l)
    BY <1>6 DEF Begin, UserMissing
  <2> QED BY <1>2, <2>1
<1>7. ~CommandFails(w) /\ ~Dies(w)
  BY <1>2 DEF CommandFails, Dies
<1>8. ASSUME ScriptStep(w)
      PROVE  job'[w] = job[w] /\ (GrepComment(w) \/ GrepContent(w) \/ SedReads(w))
  <2>1. /\ ~MakeDirectory(w) /\ ~StatFile(w) /\ ~TouchFile(w) /\ ~ChangeMode(w)
        /\ ~GrepFails(w) /\ ~GrepInclude(w) /\ ~AppendInclude(w)
        /\ ~StatBeforeRemove(w) /\ ~SedRenames(w)
    BY <1>2 DEF MakeDirectory, StatFile, TouchFile, ChangeMode, GrepFails, GrepInclude,
                AppendInclude, StatBeforeRemove, SedRenames, Step
  <2>2. ~AppendContent(w)
    BY <1>2 DEF AppendContent, Step, AfterContent
  <2>3. GrepComment(w) \/ GrepContent(w) \/ SedReads(w)
    BY <1>8, <2>1, <2>2 DEF ScriptStep
  <2> QED BY <2>3 DEF GrepComment, GrepContent, SedReads
<1> QED BY <1>3, <1>4, <1>5, <1>6, <1>7, <1>8 DEF Next

-----------------------------------------------------------------------------
(* KeysAreALog and RulesAreALog.                                           *)

\* What may become of the log: nothing, an entry it does not hold, or a revocation.
LogStep(l, m) ==
  \/ m = l
  \/ \E e \in Entry : (\A i \in 1 .. Len(l) : l[i] # e) /\ m = Append(l, e)
  \/ \E id \in Id : Revoked(l, m, id)

\* An entry of the log is found by both greps.
LEMMA EntryIsFound ==
  ASSUME NEW f, f.lines \in Seq(Lines), Paired(f.lines),
         NEW n \in 1 .. Len(LogOfLines(f.lines)), NEW id, NEW t,
         LogOfLines(f.lines)[n] = [id |-> id, text |-> t]
  PROVE  HasComment(f, id) /\ HasContent(f, t)
<1>1. PICK k : /\ Enumerates(k, Len(f.lines), Contents(f.lines))
               /\ Len(LogOfLines(f.lines)) = Len(k)
  BY EntriesOf
<1>2. PICK j \in 1 .. Len(f.lines) : j = k[n] /\ n \in 1 .. Len(k)
  BY <1>1, EntryLines
<1>3. /\ j - 1 \in 1 .. Len(f.lines)
      /\ f.lines[j].kind = "content" /\ f.lines[j - 1].kind = "comment"
      /\ LogOfLines(f.lines)[n] = [id |-> f.lines[j - 1].of, text |-> f.lines[j].of]
  BY <1>1, <1>2, EntryLines
<1>4. f.lines[j - 1].of = id /\ f.lines[j].of = t
  BY <1>3
<1>5. HasContent(f, t)
  BY <1>3, <1>4, ContentIsALine
<1>6. HasComment(f, id)
  BY <1>3, <1>4, CommentIsALine
<1> QED BY <1>5, <1>6

\* What is written by hand into a tidy file is foreign.
LEMMA OperatorForeign ==
  ASSUME NEW g \in Files, Tidy(g), ByOperator(g)
  PROVE  file'[g].lines = Append(file[g].lines, Other("foreign"))
<1>1. PICK kind \in ByHand : file'[g].lines = Append(file[g].lines, Other(kind))
  BY DEF ByOperator
<1>2. kind = "foreign"
  BY RequestAssumption DEF Tidy, ByOperator
<1> QED BY <1>1, <1>2

\* Every step keeps the lines paired and does to the log what may become of it.
LEMMA LogChanges ==
  ASSUME NEW g \in Files, Tidy(g), TypeInv, EndedInv(g), LogInv(g), [Next]_vars
  PROVE  /\ Paired(file'[g].lines)
         /\ LogStep(LogOfLines(file[g].lines), LogOfLines(file'[g].lines))
<1> DEFINE L == file[g].lines
<1>1. file[g] \in FileType /\ L \in Seq(Lines) /\ Paired(L) /\ file[g].ended
  BY Typed DEF FileType, LogInv, EndedInv
<1>2. CASE SameLines(g)
  BY <1>1, <1>2 DEF SameLines, LogStep
<1>3. CASE ByOperator(g)
  <2>1. PICK A : A = file'[g].lines /\ A = Append(L, Other("foreign"))
    BY <1>3, OperatorForeign
  <2>2. Paired(A) /\ LogOfLines(A) = LogOfLines(L)
    BY <1>1, <2>1, LogOfForeign
  <2> QED BY <2>1, <2>2 DEF LogStep
<1>4. ASSUME NEW w \in Workers, Appends(w, g)
      PROVE  /\ Paired(file'[g].lines)
             /\ LogStep(LogOfLines(L), LogOfLines(file'[g].lines))
  <2>1. pc[w] = "append" /\ pc[w] \in GrantPC /\ pc[w] # "idle" /\ FileOf(job[w]) = g
    BY <1>4 DEF Appends, GrantPC
  <2>2. PICK id \in Id, t \in Text : id = job[w].id /\ t = job[w].text
    BY <2>1, JobType
  <2>3. PICK A : A = Appended(file[g], id, t).lines /\ A = file'[g].lines
    BY <1>4, <2>2 DEF Appends
  <2>4. /\ A \in Seq(Lines) /\ Len(A) = Len(L) + 2 /\ Len(A) \in Nat
        /\ A[Len(A)] = Content(t) /\ A[Len(A) - 1] = Comment(id)
        /\ \A i \in 1 .. Len(A) - 2 : A[i] = L[i]
    <3>1. PICK f \in FileType : f = file[g] /\ f.ended /\ f.lines = L
      BY <1>1
    <3>2. A = Appended(f, id, t).lines
      BY <2>3, <3>1
    <3>3. /\ A \in Seq(Lines) /\ Len(A) \in Nat /\ Len(A) = Len(f.lines) + 2
          /\ A[Len(A)] = Content(t)
          /\ A[Len(A) - 1] = IF f.ended THEN Comment(id) ELSE Glued(id)
          /\ \A i \in 1 .. Len(A) - 2 : A[i] = f.lines[i]
      BY <3>1, <3>2, AppendedLines
    <3>4. A[Len(A) - 1] = Comment(id)
      BY <3>1, <3>3
    <3>5. Len(A) = Len(L) + 2 /\ \A i \in 1 .. Len(A) - 2 : A[i] = L[i]
      BY <3>1, <3>3, Zenon
    <3> QED BY <3>3, <3>4, <3>5
  <2>5. Len(L) \in Nat /\ Len(A) - 1 = Len(L) + 1 /\ Len(A) - 2 = Len(L)
    BY <1>1, <2>4
  <2>6. /\ A[Len(L) + 1] = Comment(id) /\ A[Len(L) + 2] = Content(t)
        /\ \A i \in 1 .. Len(L) : A[i] = L[i]
    BY <2>4, <2>5
  <2>7. PICK e \in Entry : e = [id |-> id, text |-> t]
    BY DEF Entry
  <2>8. Paired(A) /\ LogOfLines(A) = Append(LogOfLines(L), e)
    BY <1>1, <2>4, <2>6, <2>7, LogOfGrant
  <2>9. ~(HasComment(file[g], id) /\ HasContent(file[g], t))
    BY <2>1, <2>2 DEF LogInv
  <2>10. \A i \in 1 .. Len(LogOfLines(L)) : LogOfLines(L)[i] # e
    BY <1>1, <2>7, <2>9, EntryIsFound
  <2> QED BY <2>3, <2>8, <2>10 DEF LogStep
<1>5. ASSUME NEW w \in Workers, Renames(w, g)
      PROVE  /\ Paired(file'[g].lines)
             /\ LogStep(LogOfLines(L), LogOfLines(file'[g].lines))
  <2>1. pc[w] = "sedRename" /\ pc[w] # "idle" /\ FileOf(job[w]) = g
    BY <1>5 DEF Renames
  <2>2. PICK id \in Id : id = job[w].id
    BY <2>1, JobType
  <2>3. PICK O \in Seq(Lines) : O = snapshot[w].lines /\ O = file'[g].lines
    BY <1>5, Typed DEF Renames, Snapshots
  <2>4. Cut(O, L, id)
    BY <2>1, <2>2, <2>3 DEF LogInv
  <2>5. Paired(O)
    BY <1>1, <2>4, CutIsPaired
  <2>6. LogOfLines(O) = LogOfLines(L) \/ Revoked(LogOfLines(L), LogOfLines(O), id)
    BY <1>1, <2>4, LogOfCut
  <2> QED BY <2>3, <2>5, <2>6 DEF LogStep
<1> QED BY <1>2, <1>3, <1>4, <1>5, LineChanges

\* A foreign line behind a file changes nothing that grep looks for, and no cut.
LEMMA ForeignFinds ==
  ASSUME NEW f, NEW h, f.lines \in Seq(Lines), h.lines = Append(f.lines, Other("foreign")),
         NEW id, NEW t
  PROVE  /\ HasComment(h, id) <=> HasComment(f, id)
         /\ HasContent(h, t) <=> HasContent(f, t)
         /\ \A O \in Seq(Lines) : Cut(O, f.lines, id) => Cut(O, h.lines, id)
<1>1. Other("foreign") \in Lines /\ Other("foreign").kind = "foreign"
  BY LinesType DEF Other
<1>2. PICK n \in Nat : n = Len(f.lines)
  OBVIOUS
<1>3. /\ h.lines \in Seq(Lines) /\ Len(h.lines) = n + 1 /\ h.lines[n + 1] = Other("foreign")
      /\ \A i \in 1 .. n : h.lines[i] = f.lines[i]
  BY <1>1, <1>2, AppendProperties
<1>4. \A i \in 1 .. n + 1 : i = n + 1 \/ i \in 1 .. n
  OBVIOUS
<1>5. \A i \in 1 .. n : i \in 1 .. n + 1
  OBVIOUS
<1>6. HasComment(h, id) <=> HasComment(f, id)
  <2>1. HasComment(f, id) <=>
           \E i \in 1 .. n : /\ f.lines[i].kind \in {"comment", "glued"}
                             /\ f.lines[i].of = id \/ <<id, f.lines[i].of>> \in PrefixOf
    BY <1>2, CommentIsALine
  <2>2. HasComment(h, id) <=>
           \E i \in 1 .. n + 1 : /\ h.lines[i].kind \in {"comment", "glued"}
                                 /\ h.lines[i].of = id \/ <<id, h.lines[i].of>> \in PrefixOf
    BY <1>3, CommentIsALine
  <2> QED BY <1>1, <1>3, <1>4, <1>5, <2>1, <2>2
<1>7. HasContent(h, t) <=> HasContent(f, t)
  <2>1. HasContent(f, t) <=>
           \E i \in 1 .. n : /\ f.lines[i].kind = "content"
                             /\ f.lines[i].of = t \/ <<t, f.lines[i].of>> \in PartOf
    BY <1>2, ContentIsALine
  <2>2. HasContent(h, t) <=>
           \E i \in 1 .. n + 1 : /\ h.lines[i].kind = "content"
                                 /\ h.lines[i].of = t \/ <<t, h.lines[i].of>> \in PartOf
    BY <1>3, ContentIsALine
  <2> QED BY <1>1, <1>3, <1>4, <1>5, <2>1, <2>2
<1>8. ASSUME NEW O \in Seq(Lines), Cut(O, f.lines, id) PROVE Cut(O, h.lines, id)
  <2>1. PICK m \in Nat : m = Len(O)
    OBVIOUS
  <2>2. m <= n /\ \A i \in 1 .. m : i \in 1 .. n /\ O[i] = f.lines[i] /\ f.lines[i] # Comment(id)
    BY <1>2, <1>8, <2>1 DEF Cut
  <2>3. m <= n + 1 /\ \A i \in 1 .. m : O[i] = h.lines[i] /\ h.lines[i] # Comment(id)
    BY <1>3, <2>2
  <2>4. CASE m < n /\ f.lines[m + 1] = Comment(id)
    <3>1. m + 1 \in 1 .. n /\ m < n + 1
      BY <2>4
    <3>2. h.lines[m + 1] = Comment(id)
      BY <1>3, <2>4, <3>1
    <3> QED BY <1>3, <2>1, <2>3, <3>1, <3>2 DEF Cut
  <2>5. CASE \A i \in m + 1 .. n : f.lines[i] = Other("foreign")
    <3>1. ASSUME NEW i \in m + 1 .. n + 1 PROVE h.lines[i] = Other("foreign")
      <4>1. i = n + 1 \/ (i \in m + 1 .. n /\ i \in 1 .. n)
        OBVIOUS
      <4> QED BY <1>3, <2>5, <4>1
    <3> QED BY <1>3, <2>1, <2>3, <3>1 DEF Cut
  <2>6. \/ m < n /\ f.lines[m + 1] = Comment(id)
        \/ \A i \in m + 1 .. n : f.lines[i] = Other("foreign")
    BY <1>2, <1>8, <2>1 DEF Cut
  <2> QED BY <2>4, <2>5, <2>6
<1> QED BY <1>6, <1>7, <1>8

\* What the only worker saw of the file is still so when it acts on it: grep found or did not
\* find its lines, and the snapshot of sed is a cut of the file.
LEMMA LogStays ==
  ASSUME OneAtATime, "grep" \notin Failures, FindsExact, NEW g \in Files, Tidy(g),
         TypeInv, LogInv(g), [Next]_vars, NEW w \in Workers, FileOf(job'[w]) = g
  PROVE  /\ pc'[w] = "grepContent" => found'[w] = HasComment(file'[g], job'[w].id)
         /\ pc'[w] = "append" =>
              ~(HasComment(file'[g], job'[w].id) /\ HasContent(file'[g], job'[w].text))
         /\ pc'[w] = "sedRename" => Cut(snapshot'[w].lines, file'[g].lines, job'[w].id)
<1> SUFFICES ASSUME pc'[w] \in {"grepContent", "append", "sedRename"}
             PROVE  /\ pc'[w] = "grepContent" => found'[w] = HasComment(file'[g], job'[w].id)
                    /\ pc'[w] = "append" =>
                         ~(HasComment(file'[g], job'[w].id) /\ HasContent(file'[g], job'[w].text))
                    /\ pc'[w] = "sedRename" => Cut(snapshot'[w].lines, file'[g].lines, job'[w].id)
  OBVIOUS
<1>1. /\ pc \in [Workers -> PC] /\ found \in [Workers -> BOOLEAN]
      /\ snapshot \in [Workers -> Snapshots] /\ file[g].lines \in Seq(Lines)
  BY Typed DEF FileType
<1>2. job'[w] = job[w] /\ FileOf(job[w]) = g
  BY Arrives
<1>3. /\ pc[w] = "grepContent" => found[w] = HasComment(file[g], job[w].id)
      /\ pc[w] = "append" =>
           ~(HasComment(file[g], job[w].id) /\ HasContent(file[g], job[w].text))
      /\ pc[w] = "sedRename" => Cut(snapshot[w].lines, file[g].lines, job[w].id)
  BY <1>2 DEF LogInv
<1>4. CASE /\ pc'[w] = pc[w] /\ found'[w] = found[w] /\ snapshot'[w] = snapshot[w]
           /\ SameLines(g) \/ ByOperator(g)
  <2>1. snapshot[w].lines \in Seq(Lines) /\ found[w] \in BOOLEAN
    BY <1>1 DEF Snapshots
  <2>2. /\ HasComment(file'[g], job[w].id) <=> HasComment(file[g], job[w].id)
        /\ HasContent(file'[g], job[w].text) <=> HasContent(file[g], job[w].text)
        /\ Cut(snapshot[w].lines, file[g].lines, job[w].id)
             => Cut(snapshot[w].lines, file'[g].lines, job[w].id)
    <3>1. CASE SameLines(g)
      BY <3>1 DEF SameLines, HasComment, HasContent
    <3>2. CASE ByOperator(g)
      <4>1. PICK h : h = file'[g] /\ h.lines = Append(file[g].lines, Other("foreign"))
        BY <3>2, OperatorForeign
      <4>2. PICK f : f = file[g] /\ f.lines \in Seq(Lines)
                     /\ h.lines = Append(f.lines, Other("foreign"))
        BY <1>1, <4>1
      <4>3. PICK id, t : id = job[w].id /\ t = job[w].text
        OBVIOUS
      <4>4. /\ HasComment(h, id) <=> HasComment(f, id)
            /\ HasContent(h, t) <=> HasContent(f, t)
            /\ \A O \in Seq(Lines) : Cut(O, f.lines, id) => Cut(O, h.lines, id)
        BY <4>2, ForeignFinds
      <4> QED BY <2>1, <4>1, <4>2, <4>3, <4>4
    <3> QED BY <1>4, <3>1, <3>2
  <2>3. HasComment(file[g], job[w].id) \in BOOLEAN /\ HasComment(file'[g], job[w].id) \in BOOLEAN
    BY DEF HasComment
  <2> QED BY <1>2, <1>3, <1>4, <2>2, <2>3
<1>5. CASE GrepComment(w)
  BY <1>1, <1>2, <1>5 DEF GrepComment, Step, Goto
<1>6. CASE GrepContent(w)
  <2>1. pc[w] = "grepContent" /\ UNCHANGED file /\ pc'[w] # "sedRename" /\ pc'[w] # "grepContent"
    BY <1>1, <1>6 DEF GrepContent, Step, Goto, AfterContent
  <2>2. pc'[w] = "append" => ~(found[w] /\ HasContent(file[g], job[w].text))
    BY <1>1, <1>2, <1>6 DEF GrepContent, Step, Goto, AfterContent
  <2> QED BY <1>2, <1>3, <2>1, <2>2
<1>7. CASE SedReads(w)
  <2>1. /\ pc'[w] = "sedRename" /\ UNCHANGED file
        /\ snapshot'[w] = SedDeleted(file[g], job[w].id) /\ pc[w] = "sedRead"
    BY <1>1, <1>2, <1>7 DEF SedReads, Step, Goto
  <2>2. PICK id \in Id : id = job[w].id
    BY <2>1, JobType
  <2>3. Cut(SedDeleted(file[g], id).lines, file[g].lines, id)
    BY <1>1, SedCuts DEF LogInv
  <2> QED BY <1>2, <2>1, <2>2, <2>3
<1> QED BY <1>4, <1>5, <1>6, <1>7, Arrives

\* The invariant of the log is inductive.
LEMMA LogInvStep ==
  ASSUME OneAtATime, "grep" \notin Failures, FindsExact, NEW g \in Files, Tidy(g)
  PROVE  TypeInv /\ EndedInv(g) /\ LogInv(g) /\ [Next]_vars => LogInv(g)'
<1> SUFFICES ASSUME TypeInv, EndedInv(g), LogInv(g), [Next]_vars PROVE LogInv(g)'
  OBVIOUS
<1>1. Paired(file[g].lines)'
  BY LogChanges DEF Paired, Other
<1>2. ASSUME NEW w \in Workers, FileOf(job'[w]) = g
      PROVE  (/\ pc[w] = "grepContent" => found[w] = HasComment(file[g], job[w].id)
              /\ pc[w] = "append" =>
                   ~(HasComment(file[g], job[w].id) /\ HasContent(file[g], job[w].text))
              /\ pc[w] = "sedRename" => Cut(snapshot[w].lines, file[g].lines, job[w].id))'
  BY <1>2, LogStays DEF HasComment, HasContent, Cut, Comment, Other
<1> QED BY <1>1, <1>2 DEF LogInv, FileOf

\* Nothing is logged before.
LEMMA LogInit ==
  ASSUME NEW g \in Files
  PROVE  Init => LogInv(g) /\ LogOf(g) = <<>>
<1> SUFFICES ASSUME Init PROVE LogInv(g) /\ LogOf(g) = <<>>
  OBVIOUS
<1>1. PICK f \in OldFiles : file = [keys |-> f, sudoers |-> AbsentFile]
  BY DEF Init
<1>2. /\ file[g].lines \in Seq({Other("blank"), Other("foreign")})
  <2>1. AbsentFile.lines \in Seq({Other("blank"), Other("foreign")})
    BY DEF AbsentFile
  <2>2. f.lines \in Seq({Other("blank"), Other("foreign")})
    <3>1. CASE OldKeys = {}
      BY <2>1, <3>1 DEF OldFiles
    <3>2. CASE OldKeys # {}
      BY <3>2, OldKeysAssumption DEF OldFiles
    <3> QED BY <3>1, <3>2
  <2> QED BY <1>1, <2>1, <2>2 DEF Files
<1>3. PICK L : L = file[g].lines /\ L \in Seq({Other("blank"), Other("foreign")})
  BY <1>2
<1>4. \A i \in 1 .. Len(L) : L[i].kind # "content" /\ L[i].kind # "comment"
  <2>1. \A i \in 1 .. Len(L) : L[i] \in {Other("blank"), Other("foreign")}
    BY <1>3
  <2> QED BY <2>1 DEF Other
<1>5. Paired(L)
  BY <1>4 DEF Paired
<1>6. LogOfLines(L) = <<>>
  <2>1. {Other("blank"), Other("foreign")} \subseteq Lines
    BY LinesType
  <2>2. L \in Seq(Lines)
    BY <1>3, <2>1, SeqMonotonic
  <2>3. PICK k : /\ Enumerates(k, Len(L), Contents(L)) /\ Len(k) \in Nat
                 /\ LogOfLines(L) \in Seq(Entry) /\ Len(LogOfLines(L)) = Len(k)
    BY <1>5, <2>2, EntriesOf, LogIsASeq
  <2>4. Len(k) = 0
    <3> SUFFICES ASSUME Len(k) # 0 PROVE FALSE
      OBVIOUS
    <3>1. 1 \in 1 .. Len(k)
      BY <2>3
    <3>2. k[1] \in Contents(L)
      BY <2>3, <3>1 DEF Enumerates
    <3> QED BY <1>4, <3>2 DEF Contents
  <2> QED BY <2>3, <2>4, EmptySeq
<1>7. LogInv(g)
  BY <1>3, <1>5 DEF Init, LogInv
<1> QED BY <1>3, <1>6, <1>7, LogIsOfLines

\* The step of the log in terms of the files.
LEMMA LogMoves ==
  ASSUME NEW g \in Files, Tidy(g)
  PROVE  TypeInv /\ EndedInv(g) /\ LogInv(g) /\ [Next]_vars => LogStep(LogOf(g), LogOf(g)')
<1> SUFFICES ASSUME TypeInv, EndedInv(g), LogInv(g), [Next]_vars
             PROVE  LogStep(LogOf(g), LogOf(g)')
  OBVIOUS
<1>1. LogOf(g)' = LogOfLines(file'[g].lines)
  BY DEF LogOf, LogOfLines, Contents
<1> QED BY <1>1, LogChanges, LogIsOfLines

\* authorized_keys implements AccessLog, step by step, when scripts do not overlap, grep does
\* not fail, sed finds the comment of an id by that id alone, and others leave the last newline
\* and write no blank lines: a grant is one entry more and a revocation goes back to before
\* its first entry, taking all later ones along.
THEOREM AuthorizedKeysAreALog ==
  ASSUME OneAtATime, "grep" \notin Failures, FindsExact, Terminated, "blank" \notin ByHand
  PROVE  Spec => KeysAreALog
<1>1. "keys" \in Files /\ Tidy("keys")
  BY DEF Files, Tidy
<1>2. Init => EndedInv("keys") /\ LogInv("keys") /\ KeyLog!Init
  BY <1>1, EndedInit, LogInit DEF KeyLog!Init
<1>3. /\ TypeInv /\ EndedInv("keys") /\ [Next]_vars => EndedInv("keys")'
      /\ TypeInv /\ EndedInv("keys") /\ LogInv("keys") /\ [Next]_vars => LogInv("keys")'
  BY <1>1, EndedStep, LogInvStep
<1>4. TypeInv /\ EndedInv("keys") /\ LogInv("keys") /\ [Next]_vars
        => [KeyLog!Next]_(LogOf("keys"))
  <2>1. LogStep(LogOf("keys"), LogOf("keys")') => [KeyLog!Next]_(LogOf("keys"))
    BY DEF LogStep, Revoked, Entry, KeyLog!Next, KeyLog!Grant, KeyLog!Revoke, KeyLog!Recorded,
           KeyLog!Entries
  <2> QED BY <1>1, <2>1, LogMoves
<1> QED BY <1>2, <1>3, <1>4, TypeInvariance, PTL DEF Spec, KeysAreALog, KeyLog!Spec

\* The sudoers file implements AccessLog under the first three of those conditions alone, for
\* only the scripts write it.
THEOREM SudoRulesAreALog ==
  ASSUME OneAtATime, "grep" \notin Failures, FindsExact
  PROVE  Spec => RulesAreALog
<1>1. "sudoers" \in Files /\ Tidy("sudoers") /\ ("sudoers" = "keys" => Terminated)
  BY DEF Files, Tidy
<1>2. Init => EndedInv("sudoers") /\ LogInv("sudoers") /\ SudoLog!Init
  BY <1>1, EndedInit, LogInit DEF SudoLog!Init
<1>3. /\ TypeInv /\ EndedInv("sudoers") /\ [Next]_vars => EndedInv("sudoers")'
      /\ TypeInv /\ EndedInv("sudoers") /\ LogInv("sudoers") /\ [Next]_vars => LogInv("sudoers")'
  BY <1>1, EndedStep, LogInvStep
<1>4. TypeInv /\ EndedInv("sudoers") /\ LogInv("sudoers") /\ [Next]_vars
        => [SudoLog!Next]_(LogOf("sudoers"))
  <2>1. LogStep(LogOf("sudoers"), LogOf("sudoers")') => [SudoLog!Next]_(LogOf("sudoers"))
    BY DEF LogStep, Revoked, Entry, SudoLog!Next, SudoLog!Grant, SudoLog!Revoke,
           SudoLog!Recorded, SudoLog!Entries
  <2> QED BY <1>1, <2>1, LogMoves
<1> QED BY <1>2, <1>3, <1>4, TypeInvariance, PTL DEF Spec, RulesAreALog, SudoLog!Spec
=============================================================================
