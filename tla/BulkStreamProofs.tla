-------------------------- MODULE BulkStreamProofs --------------------------
(***************************************************************************)
(* Theorems about BulkStream, for any products, variants, result, chunks   *)
(* and batch size.                                                         *)
(*                                                                         *)
(* The invariant behind what is given says that the run is after some      *)
(* number of lines: those have no error, the groups are the ones of their  *)
(* products, and the text of the other lines is what the buffer and the    *)
(* rest of the download hold, wherever the chunks were cut.                *)
(***************************************************************************)
EXTENDS BulkStream, SequenceTheorems, FiniteSetTheorems, SumLemmas, TLAPS

-----------------------------------------------------------------------------
(* No variant without its product.                                         *)

\* A group holds variants of its own product only: JoinGroup turns others away.
OwnGroups == {g \in Groups : \A v \in g.variants : Parent[v] = g.product}
GroupInv  == current \in OwnGroups \cup {NoGroup} /\ batch \in Seq(OwnGroups)

\* Between the two statements of a flush, the products of the batch are there.
RowsInv ==
  /\ VariantsHaveProducts
  /\ pc = "variants" => BatchProducts \subseteq rows

LEMMA ParseType == ASSUME NEW raw PROVE Parse(raw) \in Lines
  <1>1. Junk \in Lines
    BY DEF Lines
  <1> QED BY <1>1 DEF Parse

LEMMA GiveGroups ==
  ASSUME batch \in Seq(OwnGroups), NEW g \in OwnGroups, Give(g)
  PROVE  batch' \in Seq(OwnGroups)
  BY AppendProperties DEF Give

\* What a line does to the groups.
LEMMA HandleGroups ==
  ASSUME GroupInv, NEW l \in Lines, Handle(l)
  PROVE  GroupInv'
  <1>0. current \in OwnGroups \cup {NoGroup} /\ batch \in Seq(OwnGroups)
    BY DEF GroupInv
  <1>1. CASE l \in ProductLines /\ StartGroup(l.id)
    <2>1. current' = [product |-> l.id, variants |-> {}] /\ l.id \in Products
      BY <1>1 DEF StartGroup, ProductLines
    <2>2. current' \in OwnGroups
      BY <2>1 DEF OwnGroups, Groups
    <2>3. batch' = batch \/ (current # NoGroup /\ Give(current))
      BY <1>1, Zenon DEF StartGroup
    <2>4. batch' \in Seq(OwnGroups)
      BY <1>0, <2>3, GiveGroups
    <2> QED BY <2>2, <2>4 DEF GroupInv
  <1>2. CASE l \in VariantLines /\ JoinGroup(l.id)
    <2>1. l.id \in Variants
      BY <1>2 DEF VariantLines
    <2>2. CASE UNCHANGED <<current, batch>>
      BY <1>0, <2>2 DEF GroupInv
    <2>3. CASE /\ current # NoGroup /\ Parent[l.id] = current.product
               /\ current' = [current EXCEPT !.variants = @ \cup {l.id}] /\ batch' = batch
      <3>1. PICK g \in OwnGroups : current = g
        BY <1>0, <2>3
      <3>2. g.product \in Products /\ g.variants \subseteq Variants /\ \A v \in g.variants : Parent[v] = g.product
        BY <3>1 DEF OwnGroups, Groups
      <3>3. current' = [product |-> g.product, variants |-> g.variants \cup {l.id}]
        BY <2>3, <3>1 DEF OwnGroups, Groups
      <3>4. current' \in OwnGroups
        BY <2>1, <2>3, <3>1, <3>2, <3>3 DEF OwnGroups, Groups
      <3> QED BY <1>0, <2>3, <3>4 DEF GroupInv
    <2> QED BY <1>2, <2>2, <2>3 DEF JoinGroup
  <1>3. CASE UNCHANGED <<current, batch>>
    BY <1>0, <1>3 DEF GroupInv
  <1> QED BY <1>1, <1>2, <1>3 DEF Handle

LEMMA HandlePc ==
  ASSUME NEW l \in Lines, pc = "pull", Handle(l)
  PROVE  pc' # "variants"
  BY DEF Handle, StartGroup, JoinGroup, Give

\* A line is taken while the run pulls.
LEMMA TakeSteps ==
  ASSUME TakeLine \/ TakeTail
  PROVE  /\ pc = "pull" /\ UNCHANGED <<rows, kids>>
         /\ \E l \in Lines : Handle(l)
  <1>1. pc = "pull" /\ UNCHANGED <<rows, kids>> /\ \E raw : Handle(Parse(raw))
    BY Zenon DEF TakeLine, TakeTail
  <1> QED BY <1>1, ParseType

LEMMA GroupStep == GroupInv /\ [Next]_vars => GroupInv'
  <1> SUFFICES ASSUME GroupInv, [Next]_vars PROVE GroupInv'
    OBVIOUS
  <1>0. current \in OwnGroups \cup {NoGroup} /\ batch \in Seq(OwnGroups)
    BY DEF GroupInv
  <1>1. CASE UNCHANGED <<current, batch>>
    BY <1>0, <1>1 DEF GroupInv
  <1>2. CASE TakeLine \/ TakeTail
    BY <1>2, TakeSteps, HandleGroups
  <1>3. CASE GiveLast
    <2>1. current # NoGroup /\ Give(current) /\ current' = NoGroup
      BY <1>3 DEF GiveLast
    <2> QED BY <1>0, <2>1, GiveGroups DEF GroupInv
  <1>4. CASE WriteVariants
    <2>1. current' = current /\ batch' = <<>>
      BY <1>4 DEF WriteVariants
    <2> QED BY <1>0, <2>1 DEF GroupInv
  <1>5. \/ UNCHANGED <<current, batch>>
        \/ TakeLine \/ TakeTail
        \/ GiveLast \/ WriteVariants
    BY Zenon DEF Next, Advance, Open, Read, LastFlush, WriteProducts, Complete, Break, WriteFails, Throw, vars
  <1> QED BY <1>1, <1>2, <1>3, <1>4, <1>5

LEMMA RowsStep == GroupInv /\ RowsInv /\ [Next]_vars => RowsInv'
  <1> SUFFICES ASSUME GroupInv, RowsInv, [Next]_vars PROVE RowsInv'
    OBVIOUS
  <1>1. CASE WriteProducts
    <2>1. rows' = rows \cup BatchProducts /\ UNCHANGED <<kids, batch>>
      BY <1>1 DEF WriteProducts
    <2>2. BatchProducts' = BatchProducts
      BY <2>1 DEF BatchProducts
    <2> QED BY <2>1, <2>2 DEF RowsInv, VariantsHaveProducts
  <1>2. CASE WriteVariants
    <2>1. pc = "variants" /\ pc' = "pull" /\ kids' = kids \cup BatchVariants /\ rows' = rows
      BY <1>2 DEF WriteVariants
    <2>2. BatchProducts \subseteq rows /\ \A v \in kids : Parent[v] \in rows
      BY <2>1 DEF RowsInv, VariantsHaveProducts
    <2>3. ASSUME NEW v \in BatchVariants
          PROVE  Parent[v] \in BatchProducts
      <3>1. PICK i \in DOMAIN batch : v \in batch[i].variants
        BY <2>3 DEF BatchVariants
      <3>2. batch[i] \in OwnGroups
        BY <3>1 DEF GroupInv
      <3> QED BY <3>1, <3>2 DEF OwnGroups, BatchProducts
    <2> QED BY <2>1, <2>2, <2>3 DEF RowsInv, VariantsHaveProducts
  <1>3. CASE pc' # "variants" /\ UNCHANGED <<rows, kids>>
    BY <1>3 DEF RowsInv, VariantsHaveProducts
  <1>4. CASE UNCHANGED <<pc, batch, rows, kids>>
    BY <1>4 DEF RowsInv, VariantsHaveProducts, BatchProducts
  <1>5. CASE TakeLine \/ TakeTail
    <2>1. pc' # "variants" /\ UNCHANGED <<rows, kids>>
      BY <1>5, TakeSteps, HandlePc
    <2> QED BY <1>3, <2>1
  <1>6. CASE GiveLast
    <2>1. pc' # "variants" /\ UNCHANGED <<rows, kids>>
      BY <1>6 DEF GiveLast, Give
    <2> QED BY <1>3, <2>1
  <1>7. CASE Open \/ LastFlush \/ Complete \/ Break \/ WriteFails
    <2>1. pc' # "variants" /\ UNCHANGED <<rows, kids>>
      BY <1>7 DEF Open, LastFlush, Complete, Break, WriteFails, Throw
    <2> QED BY <1>3, <2>1
  <1>8. CASE Read \/ UNCHANGED vars
    BY <1>4, <1>8, Zenon DEF Read, vars
  <1> QED BY <1>1, <1>2, <1>5, <1>6, <1>7, <1>8 DEF Next, Advance

\* "Products first - the foreign key from Variant requires the parent": no
\* variant is ever in the database without its product, wherever a read or a
\* statement fails, since a group has variants of its own product only and
\* the products of a batch are written before its variants.
THEOREM VariantsAlwaysHaveProducts == Spec => []VariantsHaveProducts
  <1>1. Init => GroupInv /\ RowsInv
    <2> SUFFICES ASSUME Init PROVE GroupInv /\ RowsInv
      OBVIOUS
    <2>1. current = NoGroup /\ batch = <<>> /\ kids = {} /\ pc = "open"
      BY DEF Init
    <2> QED BY <2>1 DEF GroupInv, RowsInv, VariantsHaveProducts
  <1>2. RowsInv => VariantsHaveProducts
    BY DEF RowsInv
  <1> QED BY <1>1, <1>2, GroupStep, RowsStep, PTL DEF Spec

-----------------------------------------------------------------------------
(* Text.                                                                   *)

\* A set of numbers up to N has a first one.
LEMMA FirstOne ==
  ASSUME NEW N \in Nat, NEW S, S \subseteq 0 .. N, S # {}
  PROVE  \E m \in S : \A k \in S : m <= k
<1> DEFINE G == {T \in SUBSET (0 .. N) : T = {} \/ \E m \in T : \A k \in T : m <= k}
<1>1. ASSUME NEW T \in SUBSET (0 .. N), \A x \in T : T \ {x} \in G PROVE T \in G
  <2>1. CASE T = {}
    BY <2>1
  <2>2. CASE T # {}
    <3>1. PICK x \in T : x \in 0 .. N
      BY <2>2
    <3>2. CASE T \ {x} = {}
      BY <3>1, <3>2
    <3>3. CASE T \ {x} # {}
      <4>1. PICK m \in T \ {x} : \A k \in T \ {x} : m <= k
        BY <1>1, <3>3
      <4> QED
        BY <3>1, <4>1
    <3> QED
      BY <3>2, <3>3
  <2> QED
    BY <2>1, <2>2
<1>2. IsFiniteSet(0 .. N)
  BY FS_Interval
<1>3. S \in G
  <2> HIDE DEF G
  <2> QED
    BY <1>1, <1>2, SubsetInduction
<1> QED
  BY <1>3

\* Induction on the numbers up to N, for a set of numbers.
LEMMA UpTo ==
  ASSUME NEW N \in Nat, NEW G, 0 \in G, \A n \in 0 .. N - 1 : n \in G => n + 1 \in G
  PROVE  \A n \in 0 .. N : n \in G
<1> SUFFICES ASSUME NEW x \in 0 .. N, x \notin G PROVE FALSE
  OBVIOUS
<1> DEFINE Bad == (0 .. N) \ G
<1>1. PICK m \in Bad : \A k \in Bad : m <= k
  <2>1. Bad \subseteq 0 .. N /\ Bad # {}
    OBVIOUS
  <2> HIDE DEF Bad
  <2> QED
    BY <2>1, FirstOne
<1>2. m # 0 /\ m - 1 \in 0 .. N - 1 /\ m = (m - 1) + 1
  OBVIOUS
<1>3. m - 1 \in G
  BY <1>1, <1>2
<1> QED
  BY <1>2, <1>3

Letters == Lines \X {0, 1, 2}

LEMMA EmptyText == <<>> \in Text /\ Len(<<>>) = 0 /\ \A s \in Text : Len(s) = 0 => s = <<>>
  BY EmptySeq DEF Text

LEMMA TextLen == ASSUME NEW s \in Text PROVE Len(s) \in Nat
  BY LenProperties DEF Text

LEMMA Joined ==
  ASSUME NEW s \in Text, NEW t \in Text
  PROVE  /\ s \o t \in Text
         /\ Len(s \o t) = Len(s) + Len(t)
         /\ \A i \in 1 .. Len(s) : (s \o t)[i] = s[i]
         /\ \A i \in 1 .. Len(t) : (s \o t)[Len(s) + i] = t[i]
  <1>1. Len(s) \in Nat /\ Len(t) \in Nat
    BY TextLen
  <1>2. /\ s \o t \in Text
        /\ Len(s \o t) = Len(s) + Len(t)
        /\ \A i \in 1 .. Len(s) + Len(t) : (s \o t)[i] = IF i <= Len(s) THEN s[i] ELSE t[i - Len(s)]
    BY ConcatProperties DEF Text
  <1> QED
    BY <1>1, <1>2

LEMMA JoinedEmpty ==
  ASSUME NEW s \in Text, NEW t \in Text
  PROVE  /\ s \o <<>> = s /\ <<>> \o s = s
         /\ s \o t = s <=> t = <<>>
         /\ s \o t = <<>> <=> s = <<>> /\ t = <<>>
  BY ConcatEmptySeq, ConcatEqualIffEmpty DEF Text

LEMMA JoinedTwice ==
  ASSUME NEW s \in Text, NEW t \in Text, NEW u \in Text
  PROVE  (s \o t) \o u = s \o (t \o u)
  BY ConcatAssociative DEF Text

\* Appending u to s and t is appending it to t first.
Splits(s, t, u) == (s \o t) \o u = s \o (t \o u)

LEMMA AlwaysSplits ==
  ASSUME NEW s \in Text, NEW t \in Text, NEW u \in Text
  PROVE  Splits(s, t, u)
  BY JoinedTwice DEF Splits

LEMMA Cancelled ==
  ASSUME NEW s \in Text, NEW t \in Text, NEW u \in Text, s \o t = s \o u
  PROVE  t = u
  BY ConcatSimplifications DEF Text

LEMMA PiecesOf ==
  ASSUME NEW l \in Lines
  PROVE  /\ Newline \in Letters
         /\ Pieces(l) \in Text /\ Ended(l) \in Text
         /\ Len(Ended(l)) = Len(Pieces(l)) + 1
         /\ Ended(l)[Len(Pieces(l)) + 1] = Newline
         /\ \A i \in 1 .. Len(Pieces(l)) : Ended(l)[i] = Pieces(l)[i] /\ Pieces(l)[i] # Newline
<1>1. Newline \in Letters
  BY DEF Newline, Letters, Lines
<1>2. Pieces(l) \in Seq(Letters)
  <2>1. <<l, 1>> \in Letters /\ <<l, 2>> \in Letters
    BY DEF Letters
  <2> QED
    BY <2>1 DEF Pieces
<1>3. \A i \in 1 .. Len(Pieces(l)) : Pieces(l)[i] # Newline
  BY DEF Pieces, Newline
<1> QED
  BY <1>1, <1>2, <1>3, AppendProperties DEF Ended, Text, Letters

LEMMA ParsePieces ==
  ASSUME NEW l \in Lines
  PROVE  Parse(Pieces(l)) = l
<1>1. ASSUME NEW k \in Lines, Pieces(l) = Pieces(k) PROVE k = l
  BY <1>1 DEF Pieces
<1> QED
  BY <1>1 DEF Parse

\* F[i] is the text of the first i lines of f, up to n of them.
GrowsTo(f, n, F) ==
  /\ F \in [0 .. n -> Text]
  /\ F[0] = <<>>
  /\ \A i \in 1 .. n : F[i] = F[i - 1] \o Ended(f[i])
Grows(f, F) == GrowsTo(f, Len(f), F)

LEMMA GrowingStep ==
  ASSUME NEW f \in Seq(Lines), NEW n \in 0 .. Len(f) - 1, NEW F, GrowsTo(f, n, F)
  PROVE  \E H : GrowsTo(f, n + 1, H)
<1>0. Len(f) \in Nat /\ n \in Nat /\ n + 1 \in 1 .. Len(f)
  BY LenProperties
<1>1. f[n + 1] \in Lines
  BY <1>0, ElementOfSeq
<1>2. Ended(f[n + 1]) \in Text /\ F[n] \in Text
  BY <1>0, <1>1, PiecesOf DEF GrowsTo
<1> DEFINE last == F[n] \o Ended(f[n + 1])
<1>3. last \in Text
  BY <1>2, ConcatProperties DEF Text
<1> DEFINE H == [i \in 0 .. n + 1 |-> IF i = n + 1 THEN last ELSE F[i]]
<1>4. H \in [0 .. n + 1 -> Text] /\ H[n + 1] = last /\ \A i \in 0 .. n : H[i] = F[i]
  <2> HIDE DEF last
  <2> QED
    BY <1>0, <1>3 DEF GrowsTo
<1> HIDE DEF H
<1>5. ASSUME NEW i \in 1 .. n + 1 PROVE H[i] = H[i - 1] \o Ended(f[i])
  <2>1. CASE i = n + 1
    <3>1. i - 1 = n /\ H[n] = F[n] /\ H[n + 1] = last
      BY <1>0, <1>4, <2>1
    <3> QED
      BY <2>1, <3>1
  <2>2. CASE i # n + 1
    <3>1. i \in 1 .. n /\ i \in 0 .. n /\ i - 1 \in 0 .. n
      BY <1>0, <2>2
    <3>2. H[i] = F[i] /\ H[i - 1] = F[i - 1]
      BY <1>4, <3>1
    <3>3. F[i] = F[i - 1] \o Ended(f[i])
      BY <3>1 DEF GrowsTo
    <3> QED
      BY <3>2, <3>3
  <2> QED
    BY <2>1, <2>2
<1>6. H[0] = <<>>
  BY <1>0, <1>4 DEF GrowsTo
<1> QED
  BY <1>4, <1>5, <1>6 DEF GrowsTo

LEMMA Growing ==
  ASSUME NEW f \in Seq(Lines)
  PROVE  \E F : Grows(f, F)
<1> DEFINE G == {n \in 0 .. Len(f) : \E F : GrowsTo(f, n, F)}
<1>0. Len(f) \in Nat
  BY LenProperties
<1>1. GrowsTo(f, 0, [i \in 0 .. 0 |-> <<>>])
  BY EmptySeq DEF Text, GrowsTo
<1>2. 0 \in G
  BY <1>0, <1>1
<1>3. ASSUME NEW n \in 0 .. Len(f) - 1, n \in G PROVE n + 1 \in G
  BY <1>0, <1>3, GrowingStep
<1> HIDE DEF G
<1>4. \A n \in 0 .. Len(f) : n \in G
  BY <1>0, <1>2, <1>3, UpTo, Zenon
<1>5. Len(f) \in G
  BY <1>0, <1>4
<1> QED
  BY <1>5 DEF G, Grows

\* FlattenSeq's own function.
Flat(s, g) == g = [i \in 1 .. Len(s) |-> IF i = 1 THEN s[i] ELSE g[i - 1] \o s[i]]

LEMMA Flattened ==
  ASSUME NEW s
  PROVE  FlattenSeq(s) = IF Len(s) = 0 THEN s ELSE (CHOOSE g : Flat(s, g))[Len(s)]
  BY DEF FlattenSeq, Flat

LEMMA GrownIsText ==
  ASSUME NEW f \in Seq(Lines), NEW F, Grows(f, F)
  PROVE  F[Len(f)] = TextOf(f)
<1>1. PICK N : N = Len(f)
  OBVIOUS
<1>2. PICK s : s = [i \in DOMAIN f |-> Ended(f[i])]
  OBVIOUS
<1>3. PICK g : g = CHOOSE h : Flat(s, h)
  OBVIOUS
<1>4. N \in Nat /\ DOMAIN f = 1 .. N /\ \A i \in 1 .. N : f[i] \in Lines
  BY <1>1, LenProperties, ElementOfSeq
<1>5. s \in Seq(Text) /\ Len(s) = N /\ \A i \in 1 .. N : s[i] = Ended(f[i]) /\ s[i] \in Text
  BY <1>2, <1>4, PiecesOf
<1>6. TextOf(f) = IF N = 0 THEN s ELSE g[N]
  <2>1. TextOf(f) = FlattenSeq(s)
    BY <1>2 DEF TextOf
  <2>2. FlattenSeq(s) = IF Len(s) = 0 THEN s ELSE g[Len(s)]
    <3>1. FlattenSeq(s) = IF Len(s) = 0 THEN s ELSE (CHOOSE h : Flat(s, h))[Len(s)]
      BY Flattened
    <3> QED
      BY <1>3, <3>1
  <2> QED
    BY <1>5, <2>1, <2>2
<1>7. F[0] = <<>> /\ \A i \in 1 .. N : F[i] = F[i - 1] \o s[i]
  BY <1>1, <1>5 DEF Grows, GrowsTo
<1>8. CASE N = 0
  BY <1>1, <1>5, <1>6, <1>7, <1>8
<1>9. CASE N # 0
  <2>1. F[1] = s[1]
    <3>1. 1 \in 1 .. N /\ 1 - 1 = 0
      BY <1>4, <1>9
    <3>2. F[1] = F[0] \o s[1]
      BY <1>7, <3>1
    <3> QED
      BY <1>5, <1>7, <3>1, <3>2, ConcatEmptySeq DEF Text
  <2>2. Flat(s, [i \in 1 .. N |-> F[i]])
    <3>1. ASSUME NEW i \in 1 .. N, i # 1 PROVE i - 1 \in 1 .. N
      BY <1>4, <3>1
    <3> QED
      BY <1>5, <1>7, <2>1, <3>1 DEF Flat
  <2>3. Flat(s, g)
    BY <1>3, <2>2
  <2>4. \A i \in 1 .. N : g[i] = IF i = 1 THEN s[i] ELSE g[i - 1] \o s[i]
    BY <1>5, <2>3 DEF Flat
  <2> DEFINE G == {n \in 0 .. N : n = 0 \/ g[n] = F[n]}
  <2>5. 0 \in G
    BY <1>4
  <2>6. ASSUME NEW n \in 0 .. N - 1, n \in G PROVE n + 1 \in G
    <3>1. n + 1 \in 1 .. N /\ (n + 1) - 1 = n
      BY <1>4
    <3>2. g[n + 1] = F[n + 1]
      <4>1. CASE n = 0
        BY <1>4, <1>9, <2>1, <2>4, <4>1
      <4>2. CASE n # 0
        <5>1. g[n] = F[n] /\ n + 1 # 1
          BY <2>6, <4>2
        <5>2. g[n + 1] = g[n] \o s[n + 1]
          BY <2>4, <3>1, <5>1
        <5>3. F[n + 1] = F[n] \o s[n + 1]
          BY <1>7, <3>1
        <5> QED
          BY <5>1, <5>2, <5>3
      <4> QED
        BY <4>1, <4>2
    <3> QED
      BY <1>4, <3>1, <3>2
  <2> HIDE DEF G
  <2>7. \A n \in 0 .. N : n \in G
    BY <1>4, <2>5, <2>6, UpTo, Zenon
  <2>8. N \in G
    BY <1>4, <2>7
  <2> QED
    BY <1>1, <1>6, <1>9, <2>8 DEF G
<1> QED
  BY <1>8, <1>9

\* The text of n lines goes on from that of k; each line has something.
GoesOn(F, k, n) == \E R \in Text : F[n] = F[k] \o R /\ (R = <<>> => n = k)

LEMMA Ahead ==
  ASSUME NEW f \in Seq(Lines), NEW F, Grows(f, F), NEW k \in 0 .. Len(f)
  PROVE  \A n \in k .. Len(f) : GoesOn(F, k, n)
<1>1. PICK N : N = Len(f)
  OBVIOUS
<1>2. N \in Nat /\ k \in 0 .. N /\ \A i \in 1 .. N : f[i] \in Lines
  BY <1>1, LenProperties, ElementOfSeq
<1>3. \A i \in 0 .. N : F[i] \in Text
  BY <1>1 DEF Grows, GrowsTo
<1> DEFINE G == {n \in 0 .. N : n >= k => GoesOn(F, k, n)}
<1>4. k \in G
  <2>1. <<>> \in Text /\ F[k] = F[k] \o <<>>
    BY <1>2, <1>3, EmptyText, JoinedEmpty
  <2> QED
    BY <1>2, <2>1 DEF GoesOn
<1>5. 0 \in G
  BY <1>2, <1>4
<1>6. ASSUME NEW n \in 0 .. N - 1, n \in G PROVE n + 1 \in G
  <2>1. n + 1 \in 1 .. N /\ (n + 1) - 1 = n
    BY <1>2
  <2>2. CASE n + 1 <= k
    BY <1>2, <1>4, <2>1, <2>2
  <2>3. CASE n >= k
    <3>1. PICK R \in Text : F[n] = F[k] \o R
      BY <1>6, <2>3 DEF GoesOn
    <3>2. PICK e \in Text : e = Ended(f[n + 1]) /\ Len(e) # 0
      <4>1. f[n + 1] \in Lines
        BY <1>2, <2>1
      <4>2. Ended(f[n + 1]) \in Text /\ Len(Pieces(f[n + 1])) \in Nat
        BY <4>1, PiecesOf, TextLen
      <4> QED
        BY <4>1, <4>2, PiecesOf
    <3>3. F[n + 1] = F[n] \o e
      BY <1>1, <2>1, <3>2 DEF Grows, GrowsTo
    <3>4. R \o e \in Text /\ F[n + 1] = F[k] \o (R \o e)
      <4>1. PICK A \in Text : A = F[k]
        BY <1>2, <1>3
      <4>2. R \o e \in Text /\ (A \o R) \o e = A \o (R \o e)
        BY Joined, JoinedTwice
      <4>3. F[n + 1] = (A \o R) \o e
        BY <3>1, <3>3, <4>1
      <4> QED
        BY <4>1, <4>2, <4>3
    <3>5. R \o e # <<>>
      BY <3>2, JoinedEmpty, EmptyText
    <3>6. GoesOn(F, k, n + 1)
      BY <3>4, <3>5 DEF GoesOn
    <3> QED
      BY <1>2, <2>1, <3>6
  <2> QED
    BY <1>2, <2>2, <2>3
<1> HIDE DEF G
<1>7. \A n \in 0 .. N : n \in G
  BY <1>2, <1>5, <1>6, UpTo, Zenon
<1>8. ASSUME NEW n \in k .. N PROVE n \in G /\ n >= k
  BY <1>2, <1>7
<1> QED
  BY <1>1, <1>8 DEF G

\* Text that is left begins with the line after those that were read.
LEMMA LineAhead ==
  ASSUME NEW f \in Seq(Lines), NEW F, Grows(f, F), NEW n \in 0 .. Len(f), NEW rest \in Text,
         F[n] \o rest = F[Len(f)], rest # <<>>
  PROVE  /\ n < Len(f)
         /\ \E R \in Text : /\ rest = Ended(f[n + 1]) \o R
                            /\ F[n + 1] \o R = F[Len(f)]
                            /\ R = <<>> => n + 1 = Len(f)
<1>1. Len(f) \in Nat /\ \A i \in 0 .. Len(f) : F[i] \in Text
  BY LenProperties DEF Grows, GrowsTo
<1>2. n < Len(f)
  <2>1. CASE n = Len(f)
    BY <1>1, <2>1, JoinedEmpty
  <2> QED
    BY <1>1, <2>1
<1>3. n + 1 \in 1 .. Len(f) /\ n + 1 \in 0 .. Len(f) /\ (n + 1) - 1 = n /\ Len(f) \in n + 1 .. Len(f)
  BY <1>1, <1>2
<1>4. PICK R \in Text : F[Len(f)] = F[n + 1] \o R /\ (R = <<>> => Len(f) = n + 1)
  <2>1. GoesOn(F, n + 1, Len(f))
    BY <1>3, Ahead
  <2> QED
    BY <2>1 DEF GoesOn
<1>5. PICK e \in Text : e = Ended(f[n + 1])
  BY <1>3, ElementOfSeq, PiecesOf
<1>6. F[n + 1] = F[n] \o e
  BY <1>3, <1>5 DEF Grows, GrowsTo
<1>7. F[n] \in Text /\ e \o R \in Text
  BY <1>1, Joined
<1>8. PICK A \in Text : A = F[n]
  BY <1>7
<1>9. rest = e \o R
  <2>1. (A \o e) \o R = A \o (e \o R)
    BY JoinedTwice
  <2>2. A \o rest = (A \o e) \o R
    BY <1>4, <1>6, <1>8
  <2>3. A \o rest = A \o (e \o R)
    BY <2>1, <2>2
  <2> QED
    BY <1>7, <2>3, Cancelled
<1> QED
  BY <1>2, <1>4, <1>5, <1>9

LEMMA LineEnds ==
  ASSUME NEW b \in Text, HasLine(b)
  PROVE  /\ LineEnd(b) \in 1 .. Len(b) /\ b[LineEnd(b)] = Newline
         /\ \A j \in 1 .. LineEnd(b) - 1 : b[j] # Newline
<1>1. Len(b) \in Nat /\ DOMAIN b = 1 .. Len(b)
  BY LenProperties DEF Text
<1> DEFINE S == {i \in 1 .. Len(b) : b[i] = Newline}
<1>2. S \subseteq 0 .. Len(b) /\ S # {}
  BY <1>1 DEF HasLine
<1>3. PICK m \in S : \A k \in S : m <= k
  <2> HIDE DEF S
  <2> QED
    BY <1>1, <1>2, FirstOne
<1>4. m \in DOMAIN b /\ b[m] = Newline /\ \A j \in 1 .. m - 1 : b[j] # Newline
  BY <1>1, <1>3
<1> QED
  BY <1>1, <1>4 DEF LineEnd

\* What is cut from the buffer b is the line l, and R is left of it and w.
CutFrom(b, w, l, R) ==
  /\ SubSeq(b, 1, LineEnd(b) - 1) = Pieces(l)
  /\ SubSeq(b, LineEnd(b) + 1, Len(b)) \in Text
  /\ SubSeq(b, LineEnd(b) + 1, Len(b)) \o w = R

LEMMA CutLine ==
  ASSUME NEW l \in Lines, NEW b \in Text, NEW w \in Text, NEW R \in Text,
         b \o w = Ended(l) \o R, HasLine(b)
  PROVE  CutFrom(b, w, l, R)
<1>1. PICK k : k = LineEnd(b)
  OBVIOUS
<1>2. PICK e \in Text : e = Ended(l)
  BY PiecesOf
<1>3. PICK q \in Text : q = Pieces(l)
  BY PiecesOf
<1>4. PICK c \in Nat : c = Len(q)
  BY LenProperties DEF Text
<1>5. k \in 1 .. Len(b) /\ b[k] = Newline /\ \A j \in 1 .. k - 1 : b[j] # Newline
  BY <1>1, LineEnds
<1>6. Len(e) = c + 1 /\ e[c + 1] = Newline /\ \A i \in 1 .. c : e[i] = q[i] /\ q[i] # Newline
  BY <1>2, <1>3, <1>4, PiecesOf
<1>7. Len(b) \in Nat /\ Len(w) \in Nat /\ Len(R) \in Nat
  BY LenProperties DEF Text
<1>8. PICK t : t = b \o w /\ t = e \o R
  BY <1>2
<1>9. /\ Len(t) = Len(b) + Len(w)
      /\ \A i \in 1 .. Len(b) : t[i] = b[i]
      /\ \A i \in 1 .. Len(w) : t[Len(b) + i] = w[i]
  <2>1. /\ Len(b \o w) = Len(b) + Len(w)
        /\ \A i \in 1 .. Len(b) : (b \o w)[i] = b[i]
        /\ \A i \in 1 .. Len(w) : (b \o w)[Len(b) + i] = w[i]
    BY Joined
  <2> QED
    BY <1>8, <2>1, Zenon
<1>10. /\ Len(t) = (c + 1) + Len(R)
       /\ \A i \in 1 .. c + 1 : t[i] = e[i]
       /\ \A i \in 1 .. Len(R) : t[(c + 1) + i] = R[i]
  <2>1. /\ Len(e \o R) = Len(e) + Len(R)
        /\ \A i \in 1 .. Len(e) : (e \o R)[i] = e[i]
        /\ \A i \in 1 .. Len(R) : (e \o R)[Len(e) + i] = R[i]
    BY Joined
  <2> QED
    BY <1>6, <1>8, <2>1, Zenon
<1>11. k = c + 1
  <2>1. CASE k <= c
    <3>1. k \in 1 .. Len(b) /\ k \in 1 .. c + 1 /\ k \in 1 .. c
      BY <1>4, <1>5, <2>1
    <3> QED
      BY <1>5, <1>6, <1>9, <1>10, <3>1
  <2>2. CASE k > c + 1
    <3>1. c + 1 \in 1 .. k - 1 /\ c + 1 \in 1 .. Len(b) /\ c + 1 \in 1 .. c + 1
      BY <1>4, <1>5, <1>7, <2>2
    <3> QED
      BY <1>5, <1>6, <1>9, <1>10, <3>1
  <2> QED
    BY <1>4, <1>5, <2>1, <2>2
<1>12. SubSeq(b, 1, k - 1) = q
  <2>1. \A i \in 1 .. k - 1 : b[i] \in Letters
    BY <1>5, ElementOfSeq DEF Text, Letters
  <2>2. /\ SubSeq(b, 1, k - 1) \in Text /\ Len(SubSeq(b, 1, k - 1)) = c
        /\ \A i \in 1 .. c : SubSeq(b, 1, k - 1)[i] = b[i]
    BY <1>4, <1>5, <1>11, <2>1, SubSeqProperties DEF Text, Letters
  <2>3. ASSUME NEW i \in 1 .. c PROVE b[i] = q[i]
    <3>1. i \in 1 .. Len(b) /\ i \in 1 .. c + 1
      BY <1>4, <1>5, <1>11
    <3> QED
      BY <1>6, <1>9, <1>10, <3>1
  <2> QED
    BY <1>4, <2>2, <2>3, SeqEqual DEF Text
<1>13. PICK v : v = SubSeq(b, k + 1, Len(b))
  OBVIOUS
<1>14. v \in Text /\ Len(v) = Len(b) - k /\ \A i \in 1 .. Len(b) - k : v[i] = b[k + i]
  <2>1. \A i \in k + 1 .. Len(b) : b[i] \in Letters
    BY <1>5, <1>7, ElementOfSeq DEF Text, Letters
  <2> QED
    BY <1>5, <1>7, <1>13, <2>1, SubSeqProperties DEF Text, Letters
<1>15. v \o w = R
  <2>1. PICK x : x = v \o w
    OBVIOUS
  <2>2. /\ x \in Text /\ Len(x) = Len(v) + Len(w)
        /\ \A i \in 1 .. Len(v) : x[i] = v[i]
        /\ \A i \in 1 .. Len(w) : x[Len(v) + i] = w[i]
    <3>1. /\ v \o w \in Text /\ Len(v \o w) = Len(v) + Len(w)
          /\ \A i \in 1 .. Len(v) : (v \o w)[i] = v[i]
          /\ \A i \in 1 .. Len(w) : (v \o w)[Len(v) + i] = w[i]
      BY <1>14, Joined
    <3> QED
      BY <2>1, <3>1, Zenon
  <2>3. Len(x) = Len(R)
    <3>1. PICK m \in Nat, g \in Nat, d \in Nat : m = Len(b) /\ g = Len(w) /\ d = Len(R)
      BY <1>7
    <3>2. m + g = (c + 1) + d
      <4>1. m + g = Len(t) /\ Len(t) = (c + 1) + d
        BY <1>9, <1>10, <3>1, Zenon
      <4> QED
        BY <4>1, Zenon
    <3>3. Len(x) = (m - (c + 1)) + g
      BY <1>11, <1>14, <2>2, <3>1, Zenon
    <3>4. (m - (c + 1)) + g = d
      BY <1>4, <3>2
    <3> QED
      BY <3>1, <3>3, <3>4, Zenon
  <2>4. ASSUME NEW i \in 1 .. Len(R) PROVE x[i] = R[i]
    <3>1. R[i] = t[c + 1 + i]
      BY <1>10
    <3>2. CASE i <= Len(v)
      <4>1. i \in 1 .. Len(b) - k /\ k + i \in 1 .. Len(b) /\ k + i = c + 1 + i /\ i \in 1 .. Len(v)
        BY <1>4, <1>5, <1>7, <1>11, <1>14, <3>2
      <4>2. x[i] = v[i] /\ v[i] = b[k + i] /\ t[k + i] = b[k + i]
        BY <1>9, <1>14, <2>2, <4>1, Zenon
      <4> QED
        BY <3>1, <4>1, <4>2, Zenon
    <3>3. CASE ~(i <= Len(v))
      <4>1. PICK j : j = i - Len(v)
        OBVIOUS
      <4>2. j \in 1 .. Len(w) /\ Len(b) + j = c + 1 + i /\ Len(v) + j = i
        BY <1>4, <1>5, <1>7, <1>9, <1>10, <1>11, <1>14, <3>3, <4>1
      <4>3. x[Len(v) + j] = w[j] /\ t[Len(b) + j] = w[j]
        BY <1>9, <2>2, <4>2, Zenon
      <4> QED
        BY <3>1, <4>2, <4>3, Zenon
    <3> QED
      BY <3>2, <3>3
  <2>5. x = R
    BY <2>2, <2>3, <2>4, SeqEqual DEF Text
  <2> QED
    BY <2>1, <2>5
<1> QED
  BY <1>1, <1>3, <1>12, <1>13, <1>14, <1>15 DEF CutFrom

\* What is left of the text when no newline is left is the last line.
LEMMA CutTail ==
  ASSUME NEW l \in Lines, NEW b \in Text, NEW z \in {<<>>, <<Newline>>}, NEW R \in Text,
         b \o z = Ended(l) \o R, ~HasLine(b)
  PROVE  b = Pieces(l) /\ z = <<Newline>> /\ R = <<>>
<1>2. PICK e \in Text : e = Ended(l)
  BY PiecesOf
<1>3. PICK q \in Text : q = Pieces(l)
  BY PiecesOf
<1>4. PICK c \in Nat : c = Len(q)
  BY LenProperties DEF Text
<1>5. Len(e) = c + 1 /\ e[c + 1] = Newline /\ \A i \in 1 .. c : e[i] = q[i]
  BY <1>2, <1>3, <1>4, PiecesOf
<1>6. Len(b) \in Nat /\ Len(R) \in Nat /\ \A i \in 1 .. Len(b) : b[i] # Newline
  BY LenProperties DEF Text, HasLine
<1>7. z \in Text /\ (z = <<>> => Len(z) = 0) /\ (z # <<>> => z = <<Newline>> /\ Len(z) = 1)
  <2>1. <<Newline>> \in Text
    BY PiecesOf DEF Text, Letters
  <2> QED
    BY <2>1, EmptyText
<1>8. PICK t : t = b \o z /\ t = e \o R
  BY <1>2
<1>9. /\ Len(t) = Len(b) + Len(z)
      /\ \A i \in 1 .. Len(b) : t[i] = b[i]
  <2>1. /\ Len(b \o z) = Len(b) + Len(z)
        /\ \A i \in 1 .. Len(b) : (b \o z)[i] = b[i]
    BY <1>7, Joined
  <2> QED
    BY <1>8, <2>1, Zenon
<1>10. /\ Len(t) = (c + 1) + Len(R)
       /\ \A i \in 1 .. c + 1 : t[i] = e[i]
  <2>1. /\ Len(e \o R) = Len(e) + Len(R)
        /\ \A i \in 1 .. Len(e) : (e \o R)[i] = e[i]
    BY Joined
  <2> QED
    BY <1>5, <1>8, <2>1, Zenon
<1>11. Len(b) <= c
  <2>1. CASE Len(b) > c
    <3>1. c + 1 \in 1 .. Len(b) /\ c + 1 \in 1 .. c + 1
      BY <1>4, <1>6, <2>1
    <3> QED
      BY <1>5, <1>6, <1>9, <1>10, <3>1
  <2> QED
    BY <1>4, <1>6, <2>1
<1>12. z # <<>> /\ Len(b) = c /\ Len(R) = 0
  <2>1. PICK d : d = Len(z)
    OBVIOUS
  <2>2. Len(b) + d = (c + 1) + Len(R)
    BY <1>9, <1>10, <2>1
  <2>3. (z = <<>> => d = 0) /\ (z # <<>> => d = 1)
    BY <1>7, <2>1, Zenon
  <2>4. d # 0 /\ (d = 1 => Len(b) = c /\ Len(R) = 0)
    BY <1>4, <1>6, <1>11, <2>2
  <2> QED
    BY <2>3, <2>4, Zenon
<1>13. R = <<>>
  BY <1>12, EmptySeq DEF Text
<1>14. ASSUME NEW i \in 1 .. c PROVE b[i] = q[i]
  BY <1>4, <1>5, <1>9, <1>10, <1>12
<1>15. b = q
  BY <1>4, <1>12, <1>14, SeqEqual DEF Text
<1> QED
  BY <1>3, <1>7, <1>12, <1>13, <1>15

-----------------------------------------------------------------------------
(* Lines and their groups.                                                 *)

\* The first n lines have no error.
Sound(f, n) == \A i \in 1 .. n : f[i] # Junk /\ ~Misplaced(f, i)

\* The products of the first n lines, and a product with its variants among them.
HeadsTo(f, n)  == {h \in 1 .. n : ProductAt(f, h)}
Under(f, n, h) == {f[i].id : i \in {j \in 1 .. n : f[j] \in VariantLines /\ h \in HeadOf(f, j)}}
Group(f, n, h) == [product |-> f[h].id, variants |-> Under(f, n, h)]

\* No line after the n-th adds to the product at h.
Closed(f, n, h) == n = Len(f) \/ \E k \in h + 1 .. n : ProductAt(f, k)

\* The product at h is the k-th, it is closed, and g is its group.
GroupIs(f, n, k, g) ==
  \E h \in HeadsTo(f, n) : Cardinality(HeadsTo(f, h)) = k /\ g = Group(f, n, h) /\ Closed(f, n, h)

\* When n lines have been read, their products have been given, and the last of them
\* is being read unless it has been given at the end.
Reads(f, n, c, gs) ==
  /\ c = NoGroup =>
       Len(gs) = Cardinality(HeadsTo(f, n)) /\ (HeadsTo(f, n) = {} \/ n = Len(f))
  /\ c # NoGroup =>
       \E h \in HeadOf(f, n + 1) :
         c = Group(f, n, h) /\ Len(gs) + 1 = Cardinality(HeadsTo(f, n))
  /\ \A k \in 1 .. Len(gs) : GroupIs(f, n, k, gs[k])

LEMMA KindsApart ==
  /\ \A l \in ProductLines : l \notin VariantLines /\ l # Blank /\ l # Junk /\ l.id \in Products
  /\ \A l \in VariantLines : l \notin ProductLines /\ l # Blank /\ l # Junk /\ l.id \in Variants
  /\ Blank # Junk
<1>1. \A l \in ProductLines : l.kind = "product" /\ l.id \in Products
  BY DEF ProductLines
<1>2. \A l \in VariantLines : l.kind = "variant" /\ l.id \in Variants
  BY DEF VariantLines
<1>3. Blank.kind = "blank" /\ Junk.kind = "junk"
  BY DEF Blank, Junk
<1> QED
  BY <1>1, <1>2, <1>3

LEMMA HeadsFinite ==
  ASSUME NEW f, NEW n \in Nat
  PROVE  IsFiniteSet(HeadsTo(f, n)) /\ Cardinality(HeadsTo(f, n)) \in Nat
<1>1. IsFiniteSet(1 .. n) /\ HeadsTo(f, n) \subseteq 1 .. n
  BY FS_Interval DEF HeadsTo
<1> QED
  BY <1>1, FS_Subset, FS_CardinalityType

LEMMA NotHead ==
  ASSUME NEW f, NEW n \in Nat, ~ProductAt(f, n + 1)
  PROVE  HeadsTo(f, n + 1) = HeadsTo(f, n) /\ HeadOf(f, (n + 1) + 1) = HeadOf(f, n + 1)
<1>1. HeadsTo(f, n + 1) = HeadsTo(f, n)
  BY DEF HeadsTo
<1>2. ASSUME NEW h \in HeadOf(f, (n + 1) + 1) PROVE h \in HeadOf(f, n + 1)
  BY <1>2 DEF HeadOf
<1>3. ASSUME NEW h \in HeadOf(f, n + 1) PROVE h \in HeadOf(f, (n + 1) + 1)
  <2>1. h \in 1 .. (n + 1) - 1 /\ ProductAt(f, h) /\ \A j \in h + 1 .. (n + 1) - 1 : ~ProductAt(f, j)
    BY DEF HeadOf
  <2>2. \A j \in h + 1 .. ((n + 1) + 1) - 1 : j \in h + 1 .. (n + 1) - 1 \/ j = n + 1
    BY <2>1
  <2> QED
    BY <2>1, <2>2 DEF HeadOf
<1> QED
  BY <1>1, <1>2, <1>3

LEMMA IsHead ==
  ASSUME NEW f, NEW n \in Nat, ProductAt(f, n + 1)
  PROVE  /\ HeadsTo(f, n + 1) = HeadsTo(f, n) \cup {n + 1}
         /\ Cardinality(HeadsTo(f, n + 1)) = Cardinality(HeadsTo(f, n)) + 1
         /\ n + 1 \in HeadOf(f, (n + 1) + 1)
<1>1. HeadsTo(f, n + 1) = HeadsTo(f, n) \cup {n + 1}
  BY DEF HeadsTo
<1>2. n + 1 \notin HeadsTo(f, n)
  BY DEF HeadsTo
<1>3. Cardinality(HeadsTo(f, n) \cup {n + 1}) = Cardinality(HeadsTo(f, n)) + 1
  BY <1>2, HeadsFinite, FS_AddElement
<1>4. n + 1 \in HeadOf(f, (n + 1) + 1)
  BY DEF HeadOf
<1> QED
  BY <1>1, <1>3, <1>4

LEMMA LastHead ==
  ASSUME NEW f, NEW n \in Nat, NEW h \in HeadOf(f, n + 1)
  PROVE  h \in HeadsTo(f, n) /\ HeadsTo(f, h) = HeadsTo(f, n) /\ ProductAt(f, h)
  BY DEF HeadOf, HeadsTo

LEMMA OneHead ==
  ASSUME NEW f, NEW i \in Nat, NEW h \in HeadOf(f, i), NEW k \in HeadOf(f, i)
  PROVE  h = k
  BY DEF HeadOf

LEMMA RankUp ==
  ASSUME NEW f, NEW h \in Nat, NEW k \in Nat, h <= k
  PROVE  Cardinality(HeadsTo(f, h)) <= Cardinality(HeadsTo(f, k))
<1>1. HeadsTo(f, h) \subseteq HeadsTo(f, k)
  BY DEF HeadsTo
<1> QED
  BY <1>1, HeadsFinite, FS_Subset

LEMMA Ranked ==
  ASSUME NEW f, NEW n \in Nat, NEW h \in HeadsTo(f, n), NEW k \in HeadsTo(f, n),
         Cardinality(HeadsTo(f, h)) = Cardinality(HeadsTo(f, k))
  PROVE  h = k
<1>1. ASSUME NEW a \in HeadsTo(f, n), NEW b \in HeadsTo(f, n), a < b
      PROVE  Cardinality(HeadsTo(f, a)) < Cardinality(HeadsTo(f, b))
  <2>1. a \in Nat /\ b \in Nat /\ b - 1 \in Nat /\ a <= b - 1 /\ (b - 1) + 1 = b /\ ProductAt(f, b)
    BY <1>1 DEF HeadsTo
  <2>2. Cardinality(HeadsTo(f, b)) = Cardinality(HeadsTo(f, b - 1)) + 1
    BY <2>1, IsHead
  <2>3. Cardinality(HeadsTo(f, a)) <= Cardinality(HeadsTo(f, b - 1))
    BY <2>1, RankUp
  <2> QED
    BY <2>1, <2>2, <2>3, HeadsFinite
<1>2. h \in Nat /\ k \in Nat
  BY DEF HeadsTo
<1>3. Cardinality(HeadsTo(f, h)) \in Nat
  BY <1>2, HeadsFinite
<1> QED
  BY <1>1, <1>2, <1>3

LEMMA UnderSame ==
  ASSUME NEW f, NEW n \in Nat, NEW h, f[n + 1] \notin VariantLines \/ h \notin HeadOf(f, n + 1)
  PROVE  Under(f, n + 1, h) = Under(f, n, h)
<1>1. \A j \in 1 .. n + 1 : j \in 1 .. n \/ j = n + 1
  OBVIOUS
<1>2. 1 .. n \subseteq 1 .. n + 1
  OBVIOUS
<1> QED
  BY <1>1, <1>2 DEF Under

LEMMA UnderMore ==
  ASSUME NEW f, NEW n \in Nat, NEW h \in HeadOf(f, n + 1), f[n + 1] \in VariantLines
  PROVE  Under(f, n + 1, h) = Under(f, n, h) \cup {f[n + 1].id}
<1>1. \A j \in 1 .. n + 1 : j \in 1 .. n \/ j = n + 1
  OBVIOUS
<1>2. 1 .. n \subseteq 1 .. n + 1 /\ n + 1 \in 1 .. n + 1
  OBVIOUS
<1> QED
  BY <1>1, <1>2 DEF Under

LEMMA UnderNew ==
  ASSUME NEW f, NEW n \in Nat
  PROVE  Under(f, n + 1, n + 1) = {}
<1>1. \A j \in 1 .. n + 1 : n + 1 \notin HeadOf(f, j)
  BY DEF HeadOf
<1> QED
  BY <1>1 DEF Under

\* A closed product stays so, and keeps its group.
LEMMA ClosedStays ==
  ASSUME NEW f, NEW n \in 0 .. Len(f) - 1, Len(f) \in Nat, NEW h \in HeadsTo(f, n), Closed(f, n, h)
  PROVE  Closed(f, n + 1, h) /\ Group(f, n + 1, h) = Group(f, n, h)
<1>1. n \in Nat /\ h \in Nat /\ n # Len(f)
  BY DEF HeadsTo
<1>2. PICK k \in h + 1 .. n : ProductAt(f, k)
  BY <1>1 DEF Closed
<1>3. h \notin HeadOf(f, n + 1)
  BY <1>1, <1>2 DEF HeadOf
<1>4. k \in h + 1 .. n + 1
  BY <1>1
<1>5. Under(f, n + 1, h) = Under(f, n, h)
  BY <1>1, <1>3, UnderSame
<1> QED
  BY <1>2, <1>4, <1>5 DEF Closed, Group

LEMMA GroupStays ==
  ASSUME NEW f, NEW n \in 0 .. Len(f) - 1, Len(f) \in Nat, NEW k, NEW g, GroupIs(f, n, k, g)
  PROVE  GroupIs(f, n + 1, k, g)
<1>1. PICK h \in HeadsTo(f, n) : Cardinality(HeadsTo(f, h)) = k /\ g = Group(f, n, h) /\ Closed(f, n, h)
  BY DEF GroupIs
<1>2. h \in HeadsTo(f, n + 1)
  BY DEF HeadsTo
<1> QED
  BY <1>1, <1>2, ClosedStays DEF GroupIs

LEMMA GroupTyped ==
  ASSUME NEW f \in Seq(Lines), NEW n \in 0 .. Len(f), NEW h \in HeadsTo(f, n)
  PROVE  Group(f, n, h) \in Groups /\ Group(f, n, h) # NoGroup
<1>1. Len(f) \in Nat /\ \A i \in 1 .. Len(f) : f[i] \in Lines
  BY LenProperties, ElementOfSeq
<1>2. h \in 1 .. n /\ f[h] \in ProductLines
  BY DEF HeadsTo, ProductAt
<1>3. f[h].id \in Products
  BY <1>2, KindsApart
<1>4. Under(f, n, h) \subseteq Variants
  BY KindsApart DEF Under
<1>5. Group(f, n, h) \in Groups
  BY <1>3, <1>4 DEF Group, Groups
<1> QED
  BY <1>5, GroupAssumption DEF Groups

\* A variant line is misplaced unless it is of the product that is being read.
LEMMA Misplacing ==
  ASSUME NEW f \in Seq(Lines), NEW n \in 0 .. Len(f) - 1, NEW c, NEW gs, Reads(f, n, c, gs),
         f[n + 1] \in VariantLines
  PROVE  Misplaced(f, n + 1) <=> c = NoGroup \/ Parent[f[n + 1].id] # c.product
<1>0. Len(f) \in Nat /\ n \in Nat /\ n # Len(f)
  BY LenProperties
<1>1. CASE c = NoGroup
  <2>1. HeadsTo(f, n) = {}
    BY <1>0, <1>1 DEF Reads
  <2>2. HeadOf(f, n + 1) = {}
    BY <1>0, <2>1 DEF HeadOf, HeadsTo
  <2> QED
    BY <1>1, <2>2 DEF Misplaced
<1>2. CASE c # NoGroup
  <2>1. PICK h \in HeadOf(f, n + 1) : c = Group(f, n, h)
    BY <1>2 DEF Reads
  <2>2. \A k \in HeadOf(f, n + 1) : k = h
    BY <1>0, <2>1, OneHead
  <2>3. c.product = f[h].id
    BY <2>1 DEF Group
  <2> QED
    BY <1>2, <2>1, <2>2, <2>3 DEF Misplaced
<1> QED
  BY <1>1, <1>2

\* A line that is read leaves what was given as it was.
LEMMA GivenStays ==
  ASSUME NEW f \in Seq(Lines), NEW n \in 0 .. Len(f) - 1, NEW c, NEW gs, Reads(f, n, c, gs)
  PROVE  \A k \in 1 .. Len(gs) : GroupIs(f, n + 1, k, gs[k])
<1>1. Len(f) \in Nat
  BY LenProperties
<1>2. \A k \in 1 .. Len(gs) : GroupIs(f, n, k, gs[k])
  BY DEF Reads
<1> QED
  BY <1>1, <1>2, GroupStays

\* A line that says nothing about the groups.
LEMMA SkipReads ==
  ASSUME NEW f \in Seq(Lines), NEW n \in 0 .. Len(f) - 1, NEW c, NEW gs, Reads(f, n, c, gs),
         f[n + 1] \notin ProductLines, f[n + 1] \notin VariantLines
  PROVE  Reads(f, n + 1, c, gs)
<1>0. Len(f) \in Nat /\ n \in Nat /\ n # Len(f)
  BY LenProperties
<1>1. HeadsTo(f, n + 1) = HeadsTo(f, n) /\ HeadOf(f, (n + 1) + 1) = HeadOf(f, n + 1)
  BY <1>0, NotHead DEF ProductAt
<1>2. ASSUME NEW h PROVE Group(f, n + 1, h) = Group(f, n, h)
  BY <1>0, UnderSame DEF Group
<1>3. \A k \in 1 .. Len(gs) : GroupIs(f, n + 1, k, gs[k])
  BY GivenStays
<1> QED
  BY <1>0, <1>1, <1>2, <1>3 DEF Reads

\* A variant of the product that is being read.
LEMMA JoinReads ==
  ASSUME NEW f \in Seq(Lines), NEW n \in 0 .. Len(f) - 1, NEW c, NEW gs, Reads(f, n, c, gs),
         f[n + 1] \in VariantLines, c # NoGroup
  PROVE  Reads(f, n + 1, [c EXCEPT !.variants = @ \cup {f[n + 1].id}], gs)
<1>0. Len(f) \in Nat /\ n \in Nat /\ n + 1 \in 0 .. Len(f)
  BY LenProperties
<1>1. ~ProductAt(f, n + 1)
  BY KindsApart DEF ProductAt
<1>2. HeadsTo(f, n + 1) = HeadsTo(f, n) /\ HeadOf(f, (n + 1) + 1) = HeadOf(f, n + 1)
  BY <1>0, <1>1, NotHead
<1>3. PICK h \in HeadOf(f, n + 1) : c = Group(f, n, h) /\ Len(gs) + 1 = Cardinality(HeadsTo(f, n))
  BY DEF Reads
<1>4. Under(f, n + 1, h) = Under(f, n, h) \cup {f[n + 1].id}
  BY <1>0, UnderMore
<1>5. PICK d : d = [c EXCEPT !.variants = @ \cup {f[n + 1].id}]
  OBVIOUS
<1>6. d = Group(f, n + 1, h)
  BY <1>3, <1>4, <1>5 DEF Group
<1>7. h \in HeadsTo(f, n + 1)
  BY <1>0, <1>2, LastHead
<1>8. d # NoGroup
  BY <1>0, <1>6, <1>7, GroupTyped
<1>9. \A k \in 1 .. Len(gs) : GroupIs(f, n + 1, k, gs[k])
  BY GivenStays
<1>10. Reads(f, n + 1, d, gs)
  BY <1>2, <1>3, <1>6, <1>8, <1>9 DEF Reads
<1> QED
  BY <1>5, <1>10

\* A product, the first one.
LEMMA FirstReads ==
  ASSUME NEW f \in Seq(Lines), NEW n \in 0 .. Len(f) - 1, NEW gs, Reads(f, n, NoGroup, gs),
         ProductAt(f, n + 1)
  PROVE  Reads(f, n + 1, [product |-> f[n + 1].id, variants |-> {}], gs)
<1>0. Len(f) \in Nat /\ n \in Nat /\ n + 1 \in 0 .. Len(f) /\ n # Len(f)
  BY LenProperties
<1>1. /\ HeadsTo(f, n + 1) = HeadsTo(f, n) \cup {n + 1}
      /\ Cardinality(HeadsTo(f, n + 1)) = Cardinality(HeadsTo(f, n)) + 1
      /\ n + 1 \in HeadOf(f, (n + 1) + 1)
  BY <1>0, IsHead
<1>2. PICK d : d = [product |-> f[n + 1].id, variants |-> {}]
  OBVIOUS
<1>3. d = Group(f, n + 1, n + 1)
  BY <1>0, <1>2, UnderNew DEF Group
<1>4. d # NoGroup
  BY <1>0, <1>1, <1>3, GroupTyped
<1>5. Len(gs) = Cardinality(HeadsTo(f, n))
  BY DEF Reads
<1>6. \A k \in 1 .. Len(gs) : GroupIs(f, n + 1, k, gs[k])
  BY GivenStays
<1>7. Reads(f, n + 1, d, gs)
  BY <1>1, <1>3, <1>4, <1>5, <1>6 DEF Reads
<1> QED
  BY <1>2, <1>7

\* A group is given: it is the last one, and no line adds to it.
LEMMA GiveReads ==
  ASSUME NEW f \in Seq(Lines), NEW m \in 0 .. Len(f), NEW h \in HeadsTo(f, m), NEW gs \in Seq(Groups),
         Closed(f, m, h), Len(gs) + 1 = Cardinality(HeadsTo(f, h)),
         \A k \in 1 .. Len(gs) : GroupIs(f, m, k, gs[k])
  PROVE  /\ Len(Append(gs, Group(f, m, h))) = Len(gs) + 1
         /\ \A k \in 1 .. Len(Append(gs, Group(f, m, h))) : GroupIs(f, m, k, Append(gs, Group(f, m, h))[k])
<1>1. PICK g \in Groups : g = Group(f, m, h)
  BY GroupTyped
<1>2. Len(gs) \in Nat
  BY LenProperties
<1>3. PICK t : t = Append(gs, g)
  OBVIOUS
<1>4. Len(t) = Len(gs) + 1 /\ t[Len(gs) + 1] = g /\ \A i \in 1 .. Len(gs) : t[i] = gs[i]
  BY <1>3, AppendProperties
<1>5. GroupIs(f, m, Len(gs) + 1, g)
  BY <1>1 DEF GroupIs
<1>6. ASSUME NEW k \in 1 .. Len(t) PROVE GroupIs(f, m, k, t[k])
  <2>1. k \in 1 .. Len(gs) \/ k = Len(gs) + 1
    BY <1>2, <1>4
  <2> QED
    BY <1>4, <1>5, <2>1
<1> QED
  BY <1>1, <1>3, <1>4, <1>6

\* A product, when the one before it is given.
LEMMA NextReads ==
  ASSUME NEW f \in Seq(Lines), NEW n \in 0 .. Len(f) - 1, NEW c, NEW gs \in Seq(Groups), Reads(f, n, c, gs),
         c # NoGroup, ProductAt(f, n + 1)
  PROVE  Reads(f, n + 1, [product |-> f[n + 1].id, variants |-> {}], Append(gs, c))
<1>0. Len(f) \in Nat /\ n \in Nat /\ n + 1 \in 0 .. Len(f) /\ n # Len(f)
  BY LenProperties
<1>1. /\ HeadsTo(f, n + 1) = HeadsTo(f, n) \cup {n + 1}
      /\ Cardinality(HeadsTo(f, n + 1)) = Cardinality(HeadsTo(f, n)) + 1
      /\ n + 1 \in HeadOf(f, (n + 1) + 1)
  BY <1>0, IsHead
<1>2. PICK d : d = [product |-> f[n + 1].id, variants |-> {}]
  OBVIOUS
<1>3. d = Group(f, n + 1, n + 1)
  BY <1>0, <1>2, UnderNew DEF Group
<1>4. d # NoGroup
  BY <1>0, <1>1, <1>3, GroupTyped
<1>5. PICK h \in HeadOf(f, n + 1) : c = Group(f, n, h) /\ Len(gs) + 1 = Cardinality(HeadsTo(f, n))
  BY DEF Reads
<1>6. h \in HeadsTo(f, n + 1) /\ HeadsTo(f, h) = HeadsTo(f, n) /\ h \in 1 .. n
  BY <1>0, <1>1, LastHead DEF HeadsTo
<1>7. Closed(f, n + 1, h)
  BY <1>0, <1>6 DEF Closed
<1>8. c = Group(f, n + 1, h)
  <2>1. f[n + 1] \notin VariantLines
    BY KindsApart DEF ProductAt
  <2> QED
    BY <1>0, <1>5, <2>1, UnderSame DEF Group
<1>9. \A k \in 1 .. Len(gs) : GroupIs(f, n + 1, k, gs[k])
  BY GivenStays
<1>10. PICK t : t = Append(gs, c)
  OBVIOUS
<1>11. Len(t) = Len(gs) + 1 /\ \A k \in 1 .. Len(t) : GroupIs(f, n + 1, k, t[k])
  BY <1>0, <1>5, <1>6, <1>7, <1>8, <1>9, <1>10, GiveReads
<1>12. Reads(f, n + 1, d, t)
  BY <1>1, <1>3, <1>4, <1>5, <1>11 DEF Reads
<1> QED
  BY <1>2, <1>10, <1>12

\* The last product is given when all is read.
LEMMA LastReads ==
  ASSUME NEW f \in Seq(Lines), NEW c, NEW gs \in Seq(Groups), Reads(f, Len(f), c, gs), c # NoGroup
  PROVE  Reads(f, Len(f), NoGroup, Append(gs, c))
<1>0. Len(f) \in Nat
  BY LenProperties
<1>1. PICK h \in HeadOf(f, Len(f) + 1) : c = Group(f, Len(f), h) /\ Len(gs) + 1 = Cardinality(HeadsTo(f, Len(f)))
  BY DEF Reads
<1>2. h \in HeadsTo(f, Len(f)) /\ HeadsTo(f, h) = HeadsTo(f, Len(f)) /\ Closed(f, Len(f), h)
  BY <1>0, LastHead DEF Closed
<1>3. PICK t : t = Append(gs, c)
  OBVIOUS
<1>4. Len(t) = Len(gs) + 1 /\ \A k \in 1 .. Len(t) : GroupIs(f, Len(f), k, t[k])
  <2>1. \A k \in 1 .. Len(gs) : GroupIs(f, Len(f), k, gs[k])
    BY DEF Reads
  <2>2. Len(f) \in 0 .. Len(f)
    BY <1>0
  <2> QED
    BY <1>1, <1>2, <1>3, <2>1, <2>2, GiveReads
<1> QED
  BY <1>1, <1>3, <1>4 DEF Reads

-----------------------------------------------------------------------------
(* What the groups of a result are.                                        *)

\* The sound part is as many lines as have no error.
LEMMA SoundPartIs ==
  ASSUME NEW f \in Seq(Lines)
  PROVE  \E m \in 0 .. Len(f) : /\ SoundPart(f) = SubSeq(f, 1, m)
                                /\ \A n \in 0 .. Len(f) : Sound(f, n) => n <= m
<1>0. Len(f) \in Nat /\ DOMAIN f = 1 .. Len(f)
  BY LenProperties
<1>1. PICK bad : bad = {i \in DOMAIN f : f[i] = Junk \/ Misplaced(f, i)}
  OBVIOUS
<1>2. SoundPart(f) = IF bad = {} THEN f ELSE SubSeq(f, 1, (CHOOSE i \in bad : \A j \in bad : i <= j) - 1)
  BY <1>1 DEF SoundPart
<1>3. CASE bad = {}
  <2>1. SoundPart(f) = SubSeq(f, 1, Len(f))
    BY <1>2, <1>3, SubSeqFull
  <2>2. \A n \in 0 .. Len(f) : Sound(f, n) => n <= Len(f)
    BY <1>0
  <2>3. Len(f) \in 0 .. Len(f)
    BY <1>0
  <2> QED
    BY <2>1, <2>2, <2>3, Zenon
<1>4. CASE bad # {}
  <2>1. bad \subseteq 0 .. Len(f)
    BY <1>0, <1>1
  <2>2. \E m \in bad : \A j \in bad : m <= j
    BY <1>0, <1>4, <2>1, FirstOne
  <2>3. PICK m : m = CHOOSE i \in bad : \A j \in bad : i <= j
    OBVIOUS
  <2>4. m \in bad
    BY <2>2, <2>3
  <2>5. SoundPart(f) = SubSeq(f, 1, m - 1)
    BY <1>2, <1>4, <2>3
  <2>6. m \in 1 .. Len(f) /\ (f[m] = Junk \/ Misplaced(f, m))
    BY <1>0, <1>1, <2>4
  <2>7. ASSUME NEW n \in 0 .. Len(f), Sound(f, n) PROVE n <= m - 1
    <3>1. m \notin 1 .. n
      BY <2>6, <2>7 DEF Sound
    <3> QED
      BY <1>0, <2>6, <3>1
  <2>8. m - 1 \in 0 .. Len(f)
    BY <1>0, <2>6
  <2> QED
    BY <2>5, <2>7, <2>8
<1> QED
  BY <1>3, <1>4

\* What the first m lines say of their groups.
LEMMA PartGroups ==
  ASSUME NEW f \in Seq(Lines), NEW m \in 0 .. Len(f), NEW s, s = SubSeq(f, 1, m)
  PROVE  /\ Heads(s) = HeadsTo(f, m)
         /\ \A h \in HeadsTo(f, m) : Rank(s, h) = Cardinality(HeadsTo(f, h)) /\ GroupAt(s, h) = Group(f, m, h)
<1>0. Len(f) \in Nat /\ \A i \in 1 .. Len(f) : f[i] \in Lines
  BY LenProperties, ElementOfSeq
<1>1. s \in Seq(Lines) /\ Len(s) = m /\ \A i \in 1 .. m : s[i] = f[i]
  BY <1>0, SubSeqProperties
<1>2. DOMAIN s = 1 .. m
  BY <1>1, LenProperties
<1>3. Heads(s) = HeadsTo(f, m)
  BY <1>1, <1>2 DEF Heads, HeadsTo, ProductAt
<1>4. ASSUME NEW h \in HeadsTo(f, m) PROVE Rank(s, h) = Cardinality(HeadsTo(f, h))
  <2>1. {j \in HeadsTo(f, m) : j <= h} = HeadsTo(f, h)
    BY DEF HeadsTo
  <2> QED
    BY <1>3, <2>1 DEF Rank
<1>5. ASSUME NEW i \in 1 .. m PROVE HeadOf(s, i) = HeadOf(f, i)
  <2>1. \A j \in 1 .. i - 1 : s[j] = f[j]
    BY <1>1
  <2>2. \A h \in 1 .. i - 1 : \A j \in h + 1 .. i - 1 : j \in 1 .. i - 1
    OBVIOUS
  <2>3. \A h \in 1 .. i - 1 :
          (ProductAt(s, h) /\ \A j \in h + 1 .. i - 1 : ~ProductAt(s, j))
            <=> (ProductAt(f, h) /\ \A j \in h + 1 .. i - 1 : ~ProductAt(f, j))
    BY <2>1, <2>2 DEF ProductAt
  <2> QED
    BY <2>3 DEF HeadOf
<1>6. ASSUME NEW h \in HeadsTo(f, m) PROVE GroupAt(s, h) = Group(f, m, h)
  <2>1. s[h] = f[h]
    BY <1>1 DEF HeadsTo
  <2>2. {j \in DOMAIN s : s[j] \in VariantLines /\ h \in HeadOf(s, j)}
          = {j \in 1 .. m : f[j] \in VariantLines /\ h \in HeadOf(f, j)}
    BY <1>1, <1>2, <1>5
  <2>3. {s[i].id : i \in {j \in DOMAIN s : s[j] \in VariantLines /\ h \in HeadOf(s, j)}} = Under(f, m, h)
    BY <1>1, <2>2 DEF Under
  <2> QED
    BY <2>1, <2>3 DEF GroupAt, Group
<1> QED
  BY <1>3, <1>4, <1>6

\* A closed product has the same group in all that follows.
LEMMA ClosedGroup ==
  ASSUME NEW f \in Seq(Lines), NEW n \in 0 .. Len(f), NEW m \in n .. Len(f), NEW h \in HeadsTo(f, n),
         Closed(f, n, h)
  PROVE  Group(f, m, h) = Group(f, n, h)
<1>0. Len(f) \in Nat /\ h \in Nat
  BY LenProperties DEF HeadsTo
<1>1. CASE n = Len(f)
  BY <1>0, <1>1
<1>2. CASE n # Len(f)
  <2>1. PICK k \in h + 1 .. n : ProductAt(f, k)
    BY <1>2 DEF Closed
  <2>2. ASSUME NEW j \in n + 1 .. m PROVE h \notin HeadOf(f, j)
    <3>1. k \in h + 1 .. j - 1
      BY <1>0, <2>1
    <3> QED
      BY <2>1, <3>1 DEF HeadOf
  <2>3. \A j \in 1 .. m : j \in 1 .. n \/ j \in n + 1 .. m
    BY <1>0
  <2>4. 1 .. n \subseteq 1 .. m
    BY <1>0
  <2>5. {j \in 1 .. m : f[j] \in VariantLines /\ h \in HeadOf(f, j)}
          = {j \in 1 .. n : f[j] \in VariantLines /\ h \in HeadOf(f, j)}
    BY <2>2, <2>3, <2>4
  <2> QED
    BY <2>5 DEF Group, Under
<1> QED
  BY <1>1, <1>2

\* What is given is what the sound part begins with.
LEMMA GivenIsPrefix ==
  ASSUME NEW f \in Seq(Lines), NEW n \in 0 .. Len(f), NEW gs \in Seq(Groups), Sound(f, n),
         \A k \in 1 .. Len(gs) : GroupIs(f, n, k, gs[k])
  PROVE  IsPrefix(gs, GroupsOf(SoundPart(f)))
<1>0. Len(f) \in Nat /\ Len(gs) \in Nat /\ \A k \in 1 .. Len(gs) : gs[k] \in Groups
  BY LenProperties, ElementOfSeq
<1>1. PICK m \in 0 .. Len(f) : SoundPart(f) = SubSeq(f, 1, m) /\ n <= m
  BY SoundPartIs
<1>2. PICK s : s = SubSeq(f, 1, m) /\ s = SoundPart(f)
  BY <1>1
<1>3. /\ Heads(s) = HeadsTo(f, m)
      /\ \A h \in HeadsTo(f, m) : Rank(s, h) = Cardinality(HeadsTo(f, h)) /\ GroupAt(s, h) = Group(f, m, h)
  BY <1>2, PartGroups
<1>4. PICK K : K = Cardinality(Heads(s)) /\ K \in Nat
  BY <1>0, <1>3, HeadsFinite
<1>5. PICK t : t = GroupsOf(s)
  OBVIOUS
<1>6. t = [k \in 1 .. K |-> GroupAt(s, CHOOSE h \in Heads(s) : Rank(s, h) = k)]
  BY <1>4, <1>5 DEF GroupsOf
<1>7. Len(t) = K
  BY <1>4, <1>6
<1>8. ASSUME NEW k \in 1 .. Len(gs) PROVE k <= K /\ t[k] = gs[k]
  <2>1. PICK h \in HeadsTo(f, n) : Cardinality(HeadsTo(f, h)) = k /\ gs[k] = Group(f, n, h) /\ Closed(f, n, h)
    BY DEF GroupIs
  <2>2. h \in HeadsTo(f, m) /\ h \in Nat /\ h <= m
    BY <1>0, <1>1 DEF HeadsTo
  <2>3. k <= K
    BY <1>3, <1>4, <2>1, <2>2, RankUp
  <2>4. h \in Heads(s) /\ Rank(s, h) = k
    BY <1>3, <2>1, <2>2
  <2>5. ASSUME NEW j \in Heads(s), Rank(s, j) = k PROVE j = h
    <3>1. j \in HeadsTo(f, m) /\ Cardinality(HeadsTo(f, j)) = k
      BY <1>3, <2>5
    <3> QED
      BY <2>1, <2>2, <3>1, Ranked
  <2>6. (CHOOSE j \in Heads(s) : Rank(s, j) = k) = h
    BY <2>4, <2>5
  <2>7. t[k] = GroupAt(s, h)
    BY <1>0, <1>4, <1>6, <2>3, <2>6
  <2>8. Group(f, m, h) = Group(f, n, h)
    BY <1>0, <1>1, <2>1, ClosedGroup
  <2> QED
    BY <1>3, <2>1, <2>2, <2>3, <2>7, <2>8
<1>9. Len(gs) <= Len(t)
  BY <1>0, <1>4, <1>7, <1>8
<1>10. SubSeq(gs, 1, Len(gs)) = SubSeq(t, 1, Len(gs))
  <2>1. SubSeq(gs, 1, Len(gs)) = gs
    BY SubSeqFull
  <2>2. \A k \in 1 .. Len(gs) : t[k] \in Groups
    BY <1>0, <1>8
  <2>3. /\ SubSeq(t, 1, Len(gs)) \in Seq(Groups) /\ Len(SubSeq(t, 1, Len(gs))) = Len(gs)
        /\ \A k \in 1 .. Len(gs) : SubSeq(t, 1, Len(gs))[k] = t[k]
    BY <1>0, <2>2, SubSeqProperties
  <2>4. SubSeq(t, 1, Len(gs)) = gs
    BY <1>8, <2>3, SeqEqual
  <2> QED
    BY <2>1, <2>4
<1> QED
  BY <1>2, <1>5, <1>9, <1>10 DEF IsPrefix

\* When every line has been read and every product given, nothing is missing.
LEMMA GivenIsWhole ==
  ASSUME NEW f \in Seq(Lines), NEW gs \in Seq(Groups), Sound(f, Len(f)), Reads(f, Len(f), NoGroup, gs)
  PROVE  /\ WellFormed(f)
         /\ {gs[k].product : k \in DOMAIN gs} = {l.id : l \in ToSet(f) \cap ProductLines}
         /\ UNION {gs[k].variants : k \in DOMAIN gs} = {l.id : l \in ToSet(f) \cap VariantLines}
<1>0. Len(f) \in Nat /\ DOMAIN f = 1 .. Len(f) /\ Len(gs) \in Nat /\ DOMAIN gs = 1 .. Len(gs)
  BY LenProperties
<1>1. WellFormed(f)
  BY <1>0 DEF WellFormed, Sound
<1>2. ASSUME NEW k \in DOMAIN gs
      PROVE  \E h \in HeadsTo(f, Len(f)) : Cardinality(HeadsTo(f, h)) = k /\ gs[k] = Group(f, Len(f), h)
  BY <1>0 DEF Reads, GroupIs
<1>3. ASSUME NEW h \in HeadsTo(f, Len(f))
      PROVE  \E k \in DOMAIN gs : gs[k] = Group(f, Len(f), h)
  <2>1. PICK r : r = Cardinality(HeadsTo(f, h))
    OBVIOUS
  <2>2. h \in Nat /\ h - 1 \in Nat /\ (h - 1) + 1 = h /\ h <= Len(f) /\ ProductAt(f, h)
    BY <1>0 DEF HeadsTo
  <2>3. r = Cardinality(HeadsTo(f, h - 1)) + 1
    BY <2>1, <2>2, IsHead
  <2>4. r <= Cardinality(HeadsTo(f, Len(f)))
    BY <1>0, <2>1, <2>2, RankUp
  <2>5. r \in 1 .. Len(gs)
    BY <1>0, <2>2, <2>3, <2>4, HeadsFinite DEF Reads
  <2>6. PICK j \in HeadsTo(f, Len(f)) : Cardinality(HeadsTo(f, j)) = r /\ gs[r] = Group(f, Len(f), j)
    BY <1>0, <1>2, <2>5
  <2>7. j = h
    BY <1>0, <2>1, <2>6, Ranked
  <2> QED
    BY <1>0, <2>5, <2>6, <2>7
<1>4. \A h \in HeadsTo(f, Len(f)) : f[h] \in ToSet(f) \cap ProductLines
  BY <1>0 DEF HeadsTo, ProductAt, ToSet
<1>5. \A l \in ToSet(f) : \E i \in 1 .. Len(f) : l = f[i]
  BY <1>0 DEF ToSet
<1>6. {gs[k].product : k \in DOMAIN gs} = {l.id : l \in ToSet(f) \cap ProductLines}
  <2>1. ASSUME NEW k \in DOMAIN gs PROVE gs[k].product \in {l.id : l \in ToSet(f) \cap ProductLines}
    BY <1>2, <1>4 DEF Group
  <2>2. ASSUME NEW l \in ToSet(f) \cap ProductLines PROVE l.id \in {gs[k].product : k \in DOMAIN gs}
    <3>1. PICK h \in 1 .. Len(f) : l = f[h]
      BY <1>5
    <3>2. h \in HeadsTo(f, Len(f))
      BY <3>1 DEF HeadsTo, ProductAt
    <3>3. PICK k \in DOMAIN gs : gs[k] = Group(f, Len(f), h)
      BY <1>3, <3>2
    <3> QED
      BY <3>1, <3>3 DEF Group
  <2> QED
    BY <2>1, <2>2
<1>7. UNION {gs[k].variants : k \in DOMAIN gs} = {l.id : l \in ToSet(f) \cap VariantLines}
  <2>1. ASSUME NEW k \in DOMAIN gs, NEW v \in gs[k].variants
        PROVE  v \in {l.id : l \in ToSet(f) \cap VariantLines}
    <3>1. PICK h : gs[k] = Group(f, Len(f), h)
      BY <1>2
    <3>2. v \in Under(f, Len(f), h)
      BY <2>1, <3>1 DEF Group
    <3>3. PICK i \in 1 .. Len(f) : f[i] \in VariantLines /\ v = f[i].id
      BY <3>2 DEF Under
    <3> QED
      BY <1>0, <3>3 DEF ToSet
  <2>2. ASSUME NEW l \in ToSet(f) \cap VariantLines PROVE l.id \in UNION {gs[k].variants : k \in DOMAIN gs}
    <3>1. PICK i \in 1 .. Len(f) : l = f[i]
      BY <1>5
    <3>2. PICK h \in HeadOf(f, i) : TRUE
      BY <3>1 DEF Sound, Misplaced
    <3>3. h \in HeadsTo(f, Len(f))
      BY <1>0 DEF HeadOf, HeadsTo
    <3>4. l.id \in Under(f, Len(f), h)
      BY <3>1, <3>2 DEF Under
    <3>5. PICK k \in DOMAIN gs : gs[k] = Group(f, Len(f), h)
      BY <1>3, <3>3
    <3> QED
      BY <3>4, <3>5 DEF Group
  <2> QED
    BY <2>1, <2>2
<1> QED
  BY <1>1, <1>6, <1>7

-----------------------------------------------------------------------------
(* What is left to read.                                                   *)

TextTo(f) == CHOOSE F : Grows(f, F)

\* With w, and perhaps the newline that the last line lacks, the text of n lines is whole.
Left(f, n, w) ==
  \E z \in {<<>>, <<Newline>>} :
    /\ TextTo(f)[n] \o (w \o z) = TextOf(f)
    /\ z # <<>> => f # <<>> /\ Last(f) # Blank

LEMMA TextGrows ==
  ASSUME NEW f \in Seq(Lines)
  PROVE  /\ Grows(f, TextTo(f)) /\ TextTo(f)[0] = <<>> /\ TextTo(f)[Len(f)] = TextOf(f)
         /\ TextOf(f) \in Text
<1>1. Grows(f, TextTo(f))
  BY Growing DEF TextTo
<1>2. TextTo(f)[Len(f)] = TextOf(f)
  BY <1>1, GrownIsText
<1>3. Len(f) \in Nat
  BY LenProperties
<1> QED
  BY <1>1, <1>2, <1>3 DEF Grows, GrowsTo

LEMMA EndText == ASSUME NEW z \in {<<>>, <<Newline>>} PROVE z \in Text
<1>1. Newline \in Lines \X {0, 1, 2}
  BY DEF Newline, Lines
<1>2. <<Newline>> \in Text
  BY <1>1 DEF Text
<1> QED
  BY <1>2, EmptyText

\* The text rest begins with line n + 1.
BeginsNext(f, n, rest) ==
  /\ n + 1 \in 1 .. Len(f)
  /\ \E l \in Lines, R \in Text : /\ l = f[n + 1]
                                  /\ rest = Ended(l) \o R
                                  /\ TextTo(f)[n + 1] \o R = TextOf(f)
                                  /\ R = <<>> => n + 1 = Len(f)

\* What is left, if anything, begins with the next line.
LEMMA LeftNext ==
  ASSUME NEW f \in Seq(Lines), NEW n \in 0 .. Len(f), NEW rest \in Text,
         TextTo(f)[n] \o rest = TextOf(f), rest # <<>>
  PROVE  BeginsNext(f, n, rest)
<1>1. Len(f) \in Nat
  BY LenProperties
<1>2. PICK F : F = TextTo(f)
  OBVIOUS
<1>3. Grows(f, F) /\ F[Len(f)] = TextOf(f)
  BY <1>2, TextGrows
<1>4. /\ n < Len(f)
      /\ \E R \in Text : /\ rest = Ended(f[n + 1]) \o R
                         /\ F[n + 1] \o R = F[Len(f)]
                         /\ R = <<>> => n + 1 = Len(f)
  <2>1. F[n] \o rest = F[Len(f)]
    BY <1>2, <1>3
  <2> QED
    BY <1>3, <2>1, LineAhead
<1>5. n + 1 \in 1 .. Len(f)
  BY <1>1, <1>4
<1>6. f[n + 1] \in Lines
  BY <1>5, ElementOfSeq
<1> QED
  BY <1>2, <1>3, <1>4, <1>5, <1>6 DEF BeginsNext

\* A line that is complete in the buffer is the next one.
LEMMA LeftLine ==
  ASSUME NEW f \in Seq(Lines), NEW n \in 0 .. Len(f), NEW b \in Text, NEW w \in Text,
         Left(f, n, b \o w), HasLine(b)
  PROVE  /\ n + 1 \in 1 .. Len(f)
         /\ Parse(SubSeq(b, 1, LineEnd(b) - 1)) = f[n + 1]
         /\ Left(f, n + 1, SubSeq(b, LineEnd(b) + 1, Len(b)) \o w)
<1>1. PICK z \in {<<>>, <<Newline>>} : /\ TextTo(f)[n] \o ((b \o w) \o z) = TextOf(f)
                                       /\ z # <<>> => f # <<>> /\ Last(f) # Blank
  BY DEF Left
<1>2. z \in Text
  BY EndText
<1>3. PICK v \in Text : v = w \o z
  BY <1>2, Joined
<1>4. (b \o w) \o z = b \o v
  BY <1>2, <1>3, JoinedTwice
<1>5. PICK rest \in Text : rest = b \o v
  BY Joined
<1>6. rest # <<>>
  BY <1>5, JoinedEmpty DEF HasLine
<1>7. TextTo(f)[n] \o rest = TextOf(f)
  BY <1>1, <1>4, <1>5
<1>8. PICK l \in Lines, R \in Text : /\ n + 1 \in 1 .. Len(f) /\ l = f[n + 1]
                                     /\ rest = Ended(l) \o R /\ TextTo(f)[n + 1] \o R = TextOf(f)
  <2>1. BeginsNext(f, n, rest)
    BY <1>6, <1>7, LeftNext
  <2> QED
    BY <2>1 DEF BeginsNext
<1>9. PICK r : r = SubSeq(b, LineEnd(b) + 1, Len(b))
  OBVIOUS
<1>10. SubSeq(b, 1, LineEnd(b) - 1) = Pieces(l) /\ r \in Text /\ r \o v = R
  <2>1. b \o v = Ended(l) \o R
    BY <1>5, <1>8
  <2>2. CutFrom(b, v, l, R)
    BY <2>1, CutLine
  <2> QED
    BY <1>9, <2>2, Zenon DEF CutFrom
<1>11. (r \o w) \o z = R
  <2>1. Splits(r, w, z)
    BY <1>2, <1>10, AlwaysSplits
  <2>2. (r \o w) \o z = r \o (w \o z)
    BY <2>1, Zenon DEF Splits
  <2> QED
    BY <1>3, <1>10, <2>2, Zenon
<1>12. Left(f, n + 1, r \o w)
  BY <1>1, <1>8, <1>11 DEF Left
<1> QED
  BY <1>8, <1>9, <1>10, <1>12, ParsePieces

\* What is in the buffer when no newline is left is the last line.
LEMMA LeftTail ==
  ASSUME NEW f \in Seq(Lines), NEW n \in 0 .. Len(f), NEW b \in Text,
         Left(f, n, b), ~HasLine(b), b # <<>>
  PROVE  n + 1 \in 1 .. Len(f) /\ Parse(b) = f[n + 1] /\ Left(f, n + 1, <<>>)
<1>1. PICK z \in {<<>>, <<Newline>>} : TextTo(f)[n] \o (b \o z) = TextOf(f)
  BY DEF Left
<1>2. z \in Text
  BY EndText
<1>3. PICK rest \in Text : rest = b \o z
  BY <1>2, Joined
<1>4. rest # <<>>
  BY <1>2, <1>3, JoinedEmpty
<1>0. BeginsNext(f, n, rest)
  BY <1>1, <1>3, <1>4, LeftNext
<1>5. n + 1 \in 1 .. Len(f)
  BY <1>0 DEF BeginsNext
<1>6. PICK l \in Lines, R \in Text : l = f[n + 1] /\ rest = Ended(l) \o R /\ TextTo(f)[n + 1] \o R = TextOf(f)
  BY <1>0 DEF BeginsNext
<1>7. b = Pieces(l) /\ R = <<>>
  BY <1>3, <1>6, CutTail
<1>8. <<>> \o <<>> = <<>>
  BY EmptyText, JoinedEmpty
<1>9. Left(f, n + 1, <<>>)
  BY <1>6, <1>7, <1>8 DEF Left
<1> QED
  BY <1>5, <1>6, <1>7, <1>9, ParsePieces

\* When nothing is left, all lines have been read.
LEMMA LeftNone ==
  ASSUME NEW f \in Seq(Lines), NEW n \in 0 .. Len(f), Left(f, n, <<>>)
  PROVE  n = Len(f)
<1>1. PICK z \in {<<>>, <<Newline>>} : /\ TextTo(f)[n] \o (<<>> \o z) = TextOf(f)
                                       /\ z # <<>> => f # <<>> /\ Last(f) # Blank
  BY DEF Left
<1>2. z \in Text /\ <<>> \o z = z /\ <<>> \in Text
  BY EndText, EmptyText, JoinedEmpty
<1>3. Len(f) \in Nat
  BY LenProperties
<1>4. CASE z = <<>>
  <2>1. PICK F : F = TextTo(f)
    OBVIOUS
  <2>2. Grows(f, F) /\ F[Len(f)] = TextOf(f) /\ F[n] \in Text
    BY <2>1, TextGrows DEF Grows, GrowsTo
  <2>3. F[n] = F[Len(f)]
    BY <1>1, <1>2, <1>4, <2>1, <2>2, JoinedEmpty
  <2>4. GoesOn(F, n, Len(f))
    BY <1>3, <2>2, Ahead
  <2>5. PICK R \in Text : F[Len(f)] = F[n] \o R /\ (R = <<>> => Len(f) = n)
    BY <2>4 DEF GoesOn
  <2> QED
    BY <2>2, <2>3, <2>5, JoinedEmpty
<1>5. CASE z # <<>>
  <2>1. TextTo(f)[n] \o z = TextOf(f)
    BY <1>1, <1>2
  <2>2. PICK l \in Lines, R \in Text : l = f[n + 1] /\ z = Ended(l) \o R /\ (R = <<>> => n + 1 = Len(f))
    <3>1. BeginsNext(f, n, z)
      BY <1>2, <1>5, <2>1, LeftNext
    <3> QED
      BY <3>1 DEF BeginsNext
  <2>3. PICK e \in Text : e = Ended(l) /\ Len(e) = Len(Pieces(l)) + 1 /\ Pieces(l) \in Text
    BY PiecesOf
  <2>4. Len(e \o R) = Len(e) + Len(R) /\ Len(R) \in Nat /\ Len(Pieces(l)) \in Nat
    BY <2>3, Joined, TextLen
  <2>5. Len(z) = 1
    BY <1>5
  <2>6. Len(R) = 0 /\ Len(Pieces(l)) = 0
    BY <2>2, <2>3, <2>4, <2>5
  <2>7. R = <<>> /\ l = Blank
    BY <2>6, EmptyText DEF Pieces
  <2> QED
    BY <1>1, <1>5, <2>2, <2>7 DEF Last
<1> QED
  BY <1>4, <1>5

-----------------------------------------------------------------------------
(* Types.                                                                  *)

Stages == {"open", "pull", "products", "variants", "mark", "completed", "failed"}

\* The types of the groups, and of what is given.
Handing ==
  /\ current \in Groups \cup {NoGroup}
  /\ batch \in Seq(Groups) /\ given \in Seq(Groups)

LEMMA GiveTyped ==
  ASSUME Handing, NEW g \in Groups, Give(g)
  PROVE  batch' \in Seq(Groups) /\ given' \in Seq(Groups) /\ pc' \in {"pull", "products"}
<1>1. batch \in Seq(Groups) /\ given \in Seq(Groups)
  BY DEF Handing
<1>2. batch' = Append(batch, g) /\ given' = Append(given, g) /\ pc' \in {"pull", "products"}
  BY DEF Give
<1> QED
  BY <1>1, <1>2, AppendProperties

LEMMA HandleTyped ==
  ASSUME Handing, pc = "pull", NEW l \in Lines, Handle(l)
  PROVE  Handing' /\ pc' \in {"pull", "products", "failed"}
<1>0. current \in Groups \cup {NoGroup} /\ batch \in Seq(Groups) /\ given \in Seq(Groups)
  BY DEF Handing
<1>1. CASE l \in ProductLines /\ StartGroup(l.id)
  <2>1. current' \in Groups
    BY <1>1, KindsApart DEF StartGroup, Groups
  <2>2. CASE current = NoGroup
    BY <1>0, <1>1, <2>1, <2>2 DEF StartGroup, Handing
  <2>3. CASE current # NoGroup
    <3>1. current \in Groups /\ Give(current)
      BY <1>0, <1>1, <2>3 DEF StartGroup
    <3> QED
      BY <2>1, <3>1, GiveTyped DEF Handing
  <2> QED
    BY <2>2, <2>3
<1>2. CASE l \in VariantLines /\ JoinGroup(l.id)
  <2>1. l.id \in Variants
    BY <1>2, KindsApart
  <2>2. CASE pc' = "failed" /\ UNCHANGED <<current, given, batch>>
    BY <1>0, <2>2 DEF Handing
  <2>3. CASE /\ current # NoGroup /\ current' = [current EXCEPT !.variants = @ \cup {l.id}]
             /\ UNCHANGED <<given, batch, pc>>
    <3>1. current' \in Groups
      BY <1>0, <2>1, <2>3 DEF Groups
    <3> QED
      BY <1>0, <2>3, <3>1 DEF Handing
  <2> QED
    BY <1>2, <2>2, <2>3 DEF JoinGroup
<1>3. CASE UNCHANGED <<current, given, batch>> /\ (pc' = pc \/ pc' = "failed")
  BY <1>0, <1>3 DEF Handing
<1> QED
  BY <1>1, <1>2, <1>3 DEF Handle

LEMMA TypesParts ==
  TypeOK <=> /\ file \in Seq(Lines) /\ Len(file) <= MaxLines
             /\ text \in Text /\ buffer \in Text /\ eof \in BOOLEAN
             /\ rows \subseteq Products /\ kids \subseteq Variants
             /\ pc \in Stages /\ Handing
  BY DEF TypeOK, Handing, Stages

\* A chunk is moved from the text to the buffer.
LEMMA ChunkMoves ==
  ASSUME NEW b \in Text, NEW t \in Text, NEW n \in 1 .. Len(t)
  PROVE  /\ b \o SubSeq(t, 1, n) \in Text /\ SubSeq(t, n + 1, Len(t)) \in Text
         /\ (b \o SubSeq(t, 1, n)) \o SubSeq(t, n + 1, Len(t)) = b \o t
<1>1. Len(t) \in Nat /\ \A i \in 1 .. Len(t) : t[i] \in Lines \X {0, 1, 2}
  BY LenProperties, ElementOfSeq DEF Text
<1>2. PICK x \in Text : x = SubSeq(t, 1, n)
  <2>1. \A i \in 1 .. n : t[i] \in Lines \X {0, 1, 2}
    BY <1>1
  <2>2. SubSeq(t, 1, n) \in Seq(Lines \X {0, 1, 2})
    BY <2>1, SubSeqProperties
  <2> QED
    BY <2>2 DEF Text
<1>3. PICK y \in Text : y = SubSeq(t, n + 1, Len(t))
  <2>1. \A i \in n + 1 .. Len(t) : t[i] \in Lines \X {0, 1, 2}
    BY <1>1
  <2>2. SubSeq(t, n + 1, Len(t)) \in Seq(Lines \X {0, 1, 2})
    BY <1>1, <2>1, SubSeqProperties
  <2> QED
    BY <2>2 DEF Text
<1>4. x \o y = t
  <2>1. 1 \in 1 .. Len(t) + 1 /\ n \in 1 - 1 .. Len(t) /\ Len(t) \in n .. Len(t)
    BY <1>1
  <2>2. SubSeq(t, 1, n) \o SubSeq(t, n + 1, Len(t)) = SubSeq(t, 1, Len(t))
    BY <2>1, ConcatAdjacentSubSeq DEF Text
  <2>3. SubSeq(t, 1, Len(t)) = t
    BY SubSeqFull DEF Text
  <2> QED
    BY <1>2, <1>3, <2>2, <2>3
<1>5. b \o x \in Text /\ (b \o x) \o y = b \o t
  <2>1. b \o x \in Text
    BY Joined
  <2>2. (b \o x) \o y = b \o (x \o y)
    BY JoinedTwice
  <2> QED
    BY <1>4, <2>1, <2>2
<1> QED
  BY <1>2, <1>3, <1>5

LEMMA RestTyped ==
  ASSUME NEW b \in Text, HasLine(b)
  PROVE  SubSeq(b, LineEnd(b) + 1, Len(b)) \in Text
<1>1. Len(b) \in Nat /\ \A i \in 1 .. Len(b) : b[i] \in Lines \X {0, 1, 2}
  BY LenProperties, ElementOfSeq DEF Text
<1>2. PICK k \in 1 .. Len(b) : k = LineEnd(b)
  BY LineEnds
<1>3. \A i \in k + 1 .. Len(b) : b[i] \in Lines \X {0, 1, 2}
  BY <1>1
<1>4. SubSeq(b, k + 1, Len(b)) \in Seq(Lines \X {0, 1, 2})
  BY <1>1, <1>3, SubSeqProperties
<1> QED
  BY <1>2, <1>4 DEF Text

\* What a line is, and that the run pulls when it is taken.
LEMMA Taking ==
  ASSUME TypeOK, TakeLine \/ TakeTail
  PROVE  /\ pc = "pull" /\ UNCHANGED <<file, text, eof, rows, kids>>
         /\ \E l \in Lines : Handle(l) /\ (TakeLine => l = Parse(SubSeq(buffer, 1, LineEnd(buffer) - 1)))
                                       /\ (TakeTail => l = Parse(buffer))
         /\ buffer' \in Text
<1>1. buffer \in Text /\ <<>> \in Text
  BY EmptyText DEF TypeOK
<1>2. CASE TakeLine
  <2>1. pc = "pull" /\ HasLine(buffer) /\ UNCHANGED <<file, text, eof, rows, kids>>
        /\ Handle(Parse(SubSeq(buffer, 1, LineEnd(buffer) - 1)))
        /\ buffer' = SubSeq(buffer, LineEnd(buffer) + 1, Len(buffer))
    BY <1>2, Zenon DEF TakeLine
  <2>2. ~TakeTail
    BY <2>1 DEF TakeTail
  <2> QED
    BY <1>1, <2>1, <2>2, RestTyped, ParseType
<1>3. CASE TakeTail
  <2>1. pc = "pull" /\ ~HasLine(buffer) /\ UNCHANGED <<file, text, eof, rows, kids>>
        /\ Handle(Parse(buffer)) /\ buffer' = <<>>
    BY <1>3, Zenon DEF TakeTail
  <2>2. ~TakeLine
    BY <2>1 DEF TakeLine
  <2> QED
    BY <1>1, <2>1, <2>2, ParseType
<1> QED
  BY <1>2, <1>3

LEMMA BatchTyped ==
  ASSUME Handing
  PROVE  BatchProducts \subseteq Products /\ BatchVariants \subseteq Variants
<1>1. \A i \in DOMAIN batch : batch[i] \in Groups
  BY DEF Handing
<1>2. \A g \in Groups : g.product \in Products /\ g.variants \subseteq Variants
  BY DEF Groups
<1> QED
  BY <1>1, <1>2 DEF BatchProducts, BatchVariants

LEMMA TypeStep == TypeOK /\ [Next]_vars => TypeOK'
<1> SUFFICES ASSUME TypeOK, [Next]_vars PROVE TypeOK'
  OBVIOUS
<1>0. /\ file \in Seq(Lines) /\ Len(file) <= MaxLines
      /\ text \in Text /\ buffer \in Text /\ eof \in BOOLEAN
      /\ rows \subseteq Products /\ kids \subseteq Variants
      /\ pc \in Stages /\ Handing
  BY TypesParts
<1>a. ASSUME file' = file, text' \in Text, buffer' \in Text, eof' \in BOOLEAN, rows' \subseteq Products,
             kids' \subseteq Variants, pc' \in Stages, Handing'
      PROVE  TypeOK'
  BY <1>0, <1>a DEF TypeOK, Handing, Stages
<1>1. CASE Read
  <2>1. UNCHANGED <<file, current, batch, rows, kids, pc, given>>
    BY <1>1 DEF Read
  <2>2. Handing'
    BY <1>0, <2>1 DEF Handing
  <2>3. text' \in Text /\ buffer' \in Text /\ eof' \in BOOLEAN
    <3>1. CASE eof' = TRUE /\ UNCHANGED <<text, buffer>>
      BY <1>0, <3>1
    <3>2. CASE \E n \in 1 .. MaxChunk : /\ n <= Len(text)
                                        /\ buffer' = buffer \o SubSeq(text, 1, n)
                                        /\ text' = SubSeq(text, n + 1, Len(text))
                                        /\ UNCHANGED eof
      <4>1. PICK n \in 1 .. MaxChunk : /\ n <= Len(text)
                                       /\ buffer' = buffer \o SubSeq(text, 1, n)
                                       /\ text' = SubSeq(text, n + 1, Len(text))
                                       /\ UNCHANGED eof
        BY <3>2
      <4>2. n \in 1 .. Len(text)
        BY <1>0, <4>1, TextLen, StreamAssumption
      <4>3. buffer \o SubSeq(text, 1, n) \in Text /\ SubSeq(text, n + 1, Len(text)) \in Text
        BY <1>0, <4>2, ChunkMoves
      <4> QED
        BY <1>0, <4>1, <4>3
    <3> QED
      BY <1>1, <3>1, <3>2, Zenon DEF Read
  <2> QED
    BY <1>0, <1>a, <2>1, <2>2, <2>3
<1>2. CASE TakeLine \/ TakeTail
  <2>1. /\ pc = "pull" /\ UNCHANGED <<file, text, eof, rows, kids>>
        /\ \E l \in Lines : Handle(l)
        /\ buffer' \in Text
    BY <1>2, Taking, Zenon
  <2>2. Handing' /\ pc' \in {"pull", "products", "failed"}
    BY <1>0, <2>1, HandleTyped
  <2> QED
    BY <1>0, <1>a, <2>1, <2>2 DEF Stages
<1>3. CASE GiveLast
  <2>1. current # NoGroup /\ Give(current) /\ current' = NoGroup /\ UNCHANGED <<file, text, buffer, eof, rows, kids>>
    BY <1>3 DEF GiveLast, readVars
  <2>2. current \in Groups
    BY <1>0, <2>1 DEF Handing
  <2>3. Handing' /\ pc' \in Stages
    BY <1>0, <2>1, <2>2, GiveTyped DEF Handing, Stages
  <2> QED
    BY <1>0, <1>a, <2>1, <2>3
<1>4. CASE WriteProducts
  <2>1. rows' = rows \cup BatchProducts /\ pc' = "variants"
        /\ UNCHANGED <<file, text, buffer, eof, current, batch, kids, given>>
    BY <1>4 DEF WriteProducts, readVars
  <2>2. Handing'
    BY <1>0, <2>1 DEF Handing
  <2> QED
    BY <1>0, <1>a, <2>1, <2>2, BatchTyped DEF Stages
<1>5. CASE WriteVariants
  <2>1. kids' = kids \cup BatchVariants /\ batch' = <<>> /\ pc' = "pull"
        /\ UNCHANGED <<file, text, buffer, eof, current, rows, given>>
    BY <1>5 DEF WriteVariants, readVars
  <2>2. Handing'
    BY <1>0, <2>1, EmptySeq DEF Handing
  <2> QED
    BY <1>0, <1>a, <2>1, <2>2, BatchTyped DEF Stages
<1>6. CASE pc' \in Stages /\ UNCHANGED <<file, text, buffer, eof, current, batch, rows, kids, given>>
  <2>1. Handing'
    BY <1>0, <1>6 DEF Handing
  <2> QED
    BY <1>0, <1>a, <1>6, <2>1
<1>7. CASE Open \/ LastFlush \/ Complete \/ Break \/ WriteFails
  BY <1>6, <1>7 DEF Open, LastFlush, Complete, Break, WriteFails, Throw, readVars, Stages
<1>8. CASE UNCHANGED vars
  BY <1>0, <1>6, <1>8 DEF vars, readVars
<1> QED
  BY <1>1, <1>2, <1>3, <1>4, <1>5, <1>7, <1>8 DEF Next, Advance

-----------------------------------------------------------------------------
(* The first text.                                                         *)

LEMMA FrontOf ==
  ASSUME NEW s \in Text
  PROVE  s \o <<Newline>> \in Text /\ Front(s \o <<Newline>>) = s
<1>1. PICK z \in Text : z = <<Newline>> /\ Len(z) = 1
  BY EndText
<1>2. PICK t : t = s \o z
  OBVIOUS
<1>3. t \in Text /\ Len(t) = Len(s) + 1 /\ \A i \in 1 .. Len(s) : t[i] = s[i]
  BY <1>1, <1>2, Joined
<1>4. Len(s) \in Nat /\ \A i \in 1 .. Len(s) : s[i] \in Lines \X {0, 1, 2}
  BY TextLen, ElementOfSeq DEF Text
<1>5. /\ SubSeq(t, 1, Len(s)) \in Seq(Lines \X {0, 1, 2}) /\ Len(SubSeq(t, 1, Len(s))) = Len(s)
      /\ \A i \in 1 .. Len(s) : SubSeq(t, 1, Len(s))[i] = t[i]
  BY <1>3, <1>4, SubSeqProperties
<1>6. SubSeq(t, 1, Len(s)) = s
  BY <1>3, <1>5, SeqEqual DEF Text
<1>7. Len(t) - 1 = Len(s)
  BY <1>3, <1>4
<1> QED
  BY <1>1, <1>2, <1>3, <1>6, <1>7 DEF Front

\* The text of a result ends with the newline of its last line.
LEMMA LastNewline ==
  ASSUME NEW f \in Seq(Lines), f # <<>>
  PROVE  Front(TextOf(f)) \in Text /\ TextOf(f) = Front(TextOf(f)) \o <<Newline>>
<1>1. PICK N \in Nat : N = Len(f) /\ N # 0
  BY EmptySeq, LenProperties
<1>2. PICK F : F = TextTo(f)
  OBVIOUS
<1>3. Grows(f, F) /\ F[N] = TextOf(f)
  BY <1>1, <1>2, TextGrows
<1>4. N \in 1 .. N /\ N - 1 \in 0 .. N
  BY <1>1
<1>5. PICK a \in Text : a = F[N - 1]
  BY <1>1, <1>3, <1>4 DEF Grows, GrowsTo
<1>6. PICK l \in Lines : l = f[N]
  BY <1>1, <1>4, ElementOfSeq
<1>7. TextOf(f) = a \o Ended(l)
  BY <1>1, <1>3, <1>4, <1>5, <1>6 DEF Grows, GrowsTo
<1>8. PICK q \in Text : q = Pieces(l)
  BY PiecesOf
<1>9. Ended(l) = q \o <<Newline>> /\ <<Newline>> \in Text
  <2>1. Newline \in Lines \X {0, 1, 2} /\ q \in Seq(Lines \X {0, 1, 2})
    BY PiecesOf DEF Letters, Text
  <2>2. Append(q, Newline) = q \o <<Newline>>
    BY <2>1, AppendIsConcat
  <2> QED
    BY <1>8, <2>2, EndText DEF Ended
<1>10. PICK s \in Text : s = a \o q
  BY Joined
<1>11. TextOf(f) = s \o <<Newline>>
  BY <1>7, <1>9, <1>10, JoinedTwice
<1>12. Front(s \o <<Newline>>) = s
  BY FrontOf
<1>13. Front(TextOf(f)) = s
  BY <1>11, <1>12
<1> QED
  BY <1>11, <1>13

LEMMA InitTexts ==
  ASSUME Init
  PROVE  file \in Seq(Lines) /\ Len(file) <= MaxLines /\ text \in Text /\ Left(file, 0, text)
<1>1. file \in SeqOf(Lines, MaxLines)
  BY DEF Init
<1>2. PICK m \in 0 .. MaxLines : file \in [1 .. m -> Lines]
  BY <1>1 DEF SeqOf
<1>3. m \in Nat /\ m <= MaxLines
  BY StreamAssumption
<1>4. file \in Seq(Lines) /\ Len(file) = m
  BY <1>2, <1>3
<1>5. TextTo(file)[0] = <<>> /\ TextOf(file) \in Text
  BY <1>4, TextGrows
<1>6. CASE text = TextOf(file)
  <2>1. <<>> \o (text \o <<>>) = TextOf(file)
    BY <1>5, <1>6, JoinedEmpty
  <2>2. Left(file, 0, text)
    BY <1>5, <2>1 DEF Left
  <2> QED
    BY <1>3, <1>4, <1>5, <1>6, <2>2
<1>7. CASE file # <<>> /\ Last(file) # Blank /\ text = Front(TextOf(file))
  <2>1. text \in Text /\ TextOf(file) = text \o <<Newline>>
    BY <1>4, <1>7, LastNewline
  <2>2. <<>> \o (text \o <<Newline>>) = TextOf(file)
    BY <1>5, <2>1, JoinedEmpty
  <2>3. Left(file, 0, text)
    BY <1>5, <1>7, <2>2 DEF Left
  <2> QED
    BY <1>3, <1>4, <2>1, <2>3
<1>8. text = TextOf(file) \/ (file # <<>> /\ Last(file) # Blank /\ text = Front(TextOf(file)))
  BY Zenon DEF Init
<1> QED
  BY <1>6, <1>7, <1>8

-----------------------------------------------------------------------------
(* The run is after some number of lines.                                  *)

\* After n lines of the result: none of them is an error, the groups are theirs, and
\* the buffer and what is not downloaded are the others.
After(n) ==
  /\ Sound(file, n)
  /\ Reads(file, n, current, given)
  /\ pc # "failed" => Left(file, n, buffer \o text)

PlaceInv ==
  /\ eof => text = <<>>
  /\ pc \notin {"open", "failed"} => file # <<>>
  /\ pc \in {"mark", "completed"} => batch = <<>> /\ current = NoGroup /\ AllRead

ProductsOf(gs) == {gs[k].product : k \in DOMAIN gs}
VariantsOf(gs) == UNION {gs[k].variants : k \in DOMAIN gs}

\* Each group that was given is in the batch or written.
WrittenInv ==
  /\ rows \cup ProductsOf(batch) = ProductsOf(given)
  /\ kids \cup VariantsOf(batch) = VariantsOf(given)

LEMMA BatchOf == BatchProducts = ProductsOf(batch) /\ BatchVariants = VariantsOf(batch)
  BY DEF BatchProducts, BatchVariants, ProductsOf, VariantsOf

LEMMA NoneOf == ProductsOf(<<>>) = {} /\ VariantsOf(<<>>) = {}
  BY DEF ProductsOf, VariantsOf

ImportInv ==
  /\ TypeOK /\ GroupInv /\ RowsInv /\ PlaceInv /\ WrittenInv
  /\ \E n \in 0 .. Len(file) : After(n)

\* What the next line does to the groups.
LEMMA HandleReads ==
  ASSUME TypeOK, pc = "pull", NEW n \in 0 .. Len(file) - 1, Sound(file, n), Reads(file, n, current, given),
         Handle(file[n + 1])
  PROVE  \/ pc' = "failed" /\ UNCHANGED <<current, given>>
         \/ Sound(file, n + 1) /\ Reads(file, n + 1, current', given')
<1>0. file \in Seq(Lines) /\ given \in Seq(Groups) /\ current \in Groups \cup {NoGroup}
  BY DEF TypeOK
<1>1. Len(file) \in Nat /\ n \in Nat /\ n + 1 \in 1 .. Len(file)
  BY <1>0, LenProperties
<1>2. PICK l \in Lines : l = file[n + 1]
  BY <1>0, <1>1, ElementOfSeq
<1>3. ASSUME l # Junk, ~Misplaced(file, n + 1) PROVE Sound(file, n + 1)
  <2>1. \A i \in 1 .. n + 1 : i \in 1 .. n \/ i = n + 1
    BY <1>1
  <2> QED
    BY <1>2, <1>3, <2>1 DEF Sound
<1>4. CASE l \in ProductLines /\ StartGroup(l.id)
  <2>1. ProductAt(file, n + 1) /\ l # Junk /\ ~Misplaced(file, n + 1)
    BY <1>2, <1>4, KindsApart DEF ProductAt, Misplaced
  <2>2. current' = [product |-> file[n + 1].id, variants |-> {}]
    BY <1>2, <1>4 DEF StartGroup
  <2>3. CASE current = NoGroup
    <3>1. given' = given
      BY <1>4, <2>3 DEF StartGroup
    <3>2. Reads(file, n, NoGroup, given)
      BY <2>3
    <3>3. Reads(file, n + 1, [product |-> file[n + 1].id, variants |-> {}], given)
      BY <1>0, <2>1, <3>2, FirstReads
    <3> QED
      BY <1>3, <2>1, <2>2, <3>1, <3>3
  <2>4. CASE current # NoGroup
    <3>1. given' = Append(given, current)
      BY <1>4, <2>4 DEF StartGroup, Give
    <3>2. Reads(file, n + 1, [product |-> file[n + 1].id, variants |-> {}], Append(given, current))
      BY <1>0, <2>1, <2>4, NextReads
    <3> QED
      BY <1>3, <2>1, <2>2, <3>1, <3>2
  <2> QED
    BY <2>3, <2>4
<1>5. CASE l \in VariantLines /\ JoinGroup(l.id)
  <2>1. CASE current = NoGroup \/ Parent[l.id] # current.product
    BY <1>5, <2>1 DEF JoinGroup
  <2>2. CASE ~(current = NoGroup \/ Parent[l.id] # current.product)
    <3>1. ~Misplaced(file, n + 1)
      BY <1>0, <1>2, <1>5, <2>2, Misplacing
    <3>2. current' = [current EXCEPT !.variants = @ \cup {file[n + 1].id}] /\ given' = given
      BY <1>2, <1>5, <2>2 DEF JoinGroup
    <3>3. Reads(file, n + 1, [current EXCEPT !.variants = @ \cup {file[n + 1].id}], given)
      BY <1>0, <1>2, <1>5, <2>2, JoinReads
    <3>4. l # Junk
      BY <1>5, KindsApart
    <3> QED
      BY <1>3, <3>1, <3>2, <3>3, <3>4
  <2> QED
    BY <2>1, <2>2
<1>6. CASE l = Blank /\ UNCHANGED <<current, given, batch, pc>>
  <2>1. l \notin ProductLines /\ l \notin VariantLines /\ l # Junk
    BY <1>6, KindsApart
  <2>2. ~Misplaced(file, n + 1)
    BY <1>2, <2>1 DEF Misplaced
  <2>3. Reads(file, n + 1, current, given)
    BY <1>0, <1>2, <2>1, SkipReads
  <2> QED
    BY <1>3, <1>6, <2>1, <2>2, <2>3
<1>7. CASE l = Junk /\ pc' = "failed" /\ UNCHANGED <<current, given, batch>>
  BY <1>7
<1> QED
  BY <1>2, <1>4, <1>5, <1>6, <1>7 DEF Handle

\* The next line is taken.
LEMMA TakeAfter ==
  ASSUME TypeOK, PlaceInv, NEW n \in 0 .. Len(file), After(n), TakeLine \/ TakeTail
  PROVE  \E m \in 0 .. Len(file) : After(m)'
<1>0. /\ file \in Seq(Lines) /\ buffer \in Text /\ text \in Text /\ Len(file) \in Nat
      /\ Sound(file, n) /\ Reads(file, n, current, given)
  BY LenProperties DEF TypeOK, After
<1>1. pc = "pull" /\ UNCHANGED <<file, text, eof, rows, kids>>
  BY Taking, Zenon
<1>2. Left(file, n, buffer \o text)
  BY <1>1 DEF After
<1>3. n + 1 \in 1 .. Len(file) /\ Handle(file[n + 1]) /\ Left(file, n + 1, buffer' \o text)
  <2>1. CASE TakeLine
    <3>1. /\ HasLine(buffer) /\ Handle(Parse(SubSeq(buffer, 1, LineEnd(buffer) - 1)))
          /\ buffer' = SubSeq(buffer, LineEnd(buffer) + 1, Len(buffer))
      BY <2>1, Zenon DEF TakeLine
    <3>2. /\ n + 1 \in 1 .. Len(file)
          /\ Parse(SubSeq(buffer, 1, LineEnd(buffer) - 1)) = file[n + 1]
          /\ Left(file, n + 1, SubSeq(buffer, LineEnd(buffer) + 1, Len(buffer)) \o text)
      BY <1>0, <1>2, <3>1, LeftLine
    <3> QED
      BY <3>1, <3>2, Zenon
  <2>2. CASE TakeTail
    <3>1. eof /\ ~HasLine(buffer) /\ buffer # <<>> /\ Handle(Parse(buffer)) /\ buffer' = <<>>
      BY <2>2, Zenon DEF TakeTail
    <3>2. text = <<>>
      BY <3>1 DEF PlaceInv
    <3>3. buffer \o text = buffer /\ buffer' \o text = <<>>
      BY <1>0, <3>1, <3>2, JoinedEmpty
    <3>4. Left(file, n, buffer)
      BY <1>2, <3>3
    <3>5. n + 1 \in 1 .. Len(file) /\ Parse(buffer) = file[n + 1] /\ Left(file, n + 1, <<>>)
      BY <1>0, <3>1, <3>4, LeftTail
    <3> QED
      BY <3>1, <3>3, <3>5, Zenon
  <2> QED
    BY <2>1, <2>2
<1>4. n \in 0 .. Len(file) - 1 /\ n + 1 \in 0 .. Len(file)
  BY <1>0, <1>3
<1>5. \/ pc' = "failed" /\ UNCHANGED <<current, given>>
      \/ Sound(file, n + 1) /\ Reads(file, n + 1, current', given')
  BY <1>0, <1>1, <1>3, <1>4, HandleReads
<1>6. CASE pc' = "failed" /\ UNCHANGED <<current, given>>
  <2>1. After(n)'
    BY <1>0, <1>1, <1>6 DEF After
  <2> QED
    BY <1>1, <2>1
<1>7. CASE Sound(file, n + 1) /\ Reads(file, n + 1, current', given')
  <2>1. After(n + 1)'
    BY <1>1, <1>3, <1>7 DEF After
  <2> QED
    BY <1>1, <1>4, <2>1
<1> QED
  BY <1>5, <1>6, <1>7

\* When the reader is done and the buffer is empty, every line has been taken.
LEMMA AllTaken ==
  ASSUME TypeOK, PlaceInv, NEW n \in 0 .. Len(file), After(n), pc # "failed", AllRead
  PROVE  n = Len(file)
<1>1. file \in Seq(Lines) /\ text = <<>> /\ buffer = <<>>
  BY DEF TypeOK, PlaceInv, AllRead
<1>2. <<>> \o <<>> = <<>>
  BY EmptyText, JoinedEmpty
<1>3. Left(file, n, <<>>)
  BY <1>1, <1>2 DEF After
<1> QED
  BY <1>1, <1>3, LeftNone

LEMMA AfterStep ==
  ASSUME TypeOK, PlaceInv, NEW n \in 0 .. Len(file), After(n), [Next]_vars
  PROVE  \E m \in 0 .. Len(file)' : After(m)'
<1>0. /\ file \in Seq(Lines) /\ given \in Seq(Groups) /\ buffer \in Text /\ text \in Text /\ Len(file) \in Nat
      /\ Sound(file, n) /\ Reads(file, n, current, given)
  BY LenProperties DEF TypeOK, After
<1>1. CASE /\ UNCHANGED <<file, current, given>>
           /\ pc' # "failed" => pc # "failed" /\ buffer' \o text' = buffer \o text
  <2>1. After(n)'
    BY <1>1 DEF After
  <2> QED
    BY <1>1, <2>1
<1>2. CASE Read
  <2>1. pc = "pull" /\ UNCHANGED <<file, current, pc, given>>
    BY <1>2 DEF Read
  <2>2. buffer' \o text' = buffer \o text
    <3>1. CASE UNCHANGED <<text, buffer>>
      BY <3>1
    <3>2. CASE \E k \in 1 .. MaxChunk : /\ k <= Len(text)
                                        /\ buffer' = buffer \o SubSeq(text, 1, k)
                                        /\ text' = SubSeq(text, k + 1, Len(text))
      <4>1. PICK k \in 1 .. MaxChunk : /\ k <= Len(text)
                                       /\ buffer' = buffer \o SubSeq(text, 1, k)
                                       /\ text' = SubSeq(text, k + 1, Len(text))
        BY <3>2
      <4>2. k \in 1 .. Len(text)
        BY <1>0, <4>1, TextLen, StreamAssumption
      <4>3. (buffer \o SubSeq(text, 1, k)) \o SubSeq(text, k + 1, Len(text)) = buffer \o text
        BY <1>0, <4>2, ChunkMoves
      <4> QED
        BY <4>1, <4>3, Zenon
    <3> QED
      BY <1>2, <3>1, <3>2, Zenon DEF Read
  <2> QED
    BY <1>1, <2>1, <2>2
<1>3. CASE TakeLine \/ TakeTail
  <2>1. \E m \in 0 .. Len(file) : After(m)'
    BY <1>3, TakeAfter
  <2>2. file' = file
    BY <1>3, Taking, Zenon
  <2> QED
    BY <2>1, <2>2
<1>4. CASE GiveLast
  <2>1. /\ pc = "pull" /\ AllRead /\ current # NoGroup /\ current' = NoGroup
        /\ given' = Append(given, current) /\ UNCHANGED <<file, buffer, text>>
    BY <1>4 DEF GiveLast, Give, readVars
  <2>2. n = Len(file)
    BY <2>1, AllTaken
  <2>3. Reads(file, Len(file), NoGroup, Append(given, current))
    BY <1>0, <2>1, <2>2, LastReads
  <2>4. Reads(file, n, current', given')
    BY <2>1, <2>2, <2>3
  <2>5. After(n)'
    BY <1>0, <2>1, <2>4 DEF After
  <2> QED
    BY <2>1, <2>5
<1>5. CASE Open \/ LastFlush \/ WriteProducts \/ WriteVariants \/ Complete \/ Break \/ WriteFails
  <2>1. pc' # "failed" => pc # "failed"
    BY <1>5 DEF Open, LastFlush, WriteProducts, WriteVariants, Complete, Break, WriteFails, Throw
  <2>2. UNCHANGED <<file, buffer, text, current, given>>
    BY <1>5 DEF Open, LastFlush, WriteProducts, WriteVariants, Complete, Break, WriteFails, Throw, readVars
  <2> QED
    BY <1>1, <2>1, <2>2
<1>6. CASE UNCHANGED vars
  BY <1>1, <1>6 DEF vars, readVars
<1> QED
  BY <1>2, <1>3, <1>4, <1>5, <1>6 DEF Next, Advance

LEMMA PlaceStep == TypeOK /\ PlaceInv /\ [Next]_vars => PlaceInv'
<1> SUFFICES ASSUME TypeOK, PlaceInv, [Next]_vars PROVE PlaceInv'
  OBVIOUS
<1>1. CASE Read
  <2>1. pc = "pull" /\ pc' = pc /\ file' = file
    BY <1>1 DEF Read
  <2>2. eof' => text' = <<>>
    BY <1>1 DEF Read
  <2> QED
    BY <2>1, <2>2 DEF PlaceInv
<1>2. CASE TakeLine \/ TakeTail
  <2>1. pc = "pull" /\ UNCHANGED <<file, text, eof>> /\ \E l \in Lines : Handle(l)
    BY <1>2, Taking, Zenon
  <2>2. Handing
    BY TypesParts
  <2>3. pc' \in {"pull", "products", "failed"}
    BY <2>1, <2>2, HandleTyped
  <2> QED
    BY <2>1, <2>3 DEF PlaceInv
<1>3. CASE Open
  BY <1>3 DEF Open, Throw, PlaceInv, readVars
<1>4. CASE GiveLast
  <2>1. pc = "pull" /\ pc' \in {"pull", "products"} /\ UNCHANGED <<file, text, eof>>
    BY <1>4 DEF GiveLast, Give, readVars
  <2> QED
    BY <2>1 DEF PlaceInv
<1>5. CASE LastFlush
  <2>1. /\ pc = "pull" /\ AllRead /\ current = NoGroup
        /\ pc' = (IF batch = <<>> THEN "mark" ELSE "products")
        /\ UNCHANGED <<file, text, buffer, eof, current, batch>>
    BY <1>5 DEF LastFlush, readVars
  <2> QED
    BY <2>1 DEF PlaceInv, AllRead
<1>6. CASE WriteProducts \/ WriteVariants
  <2>1. pc \in {"products", "variants"} /\ pc' \in {"variants", "pull"} /\ UNCHANGED <<file, text, eof>>
    BY <1>6 DEF WriteProducts, WriteVariants, readVars
  <2> QED
    BY <2>1 DEF PlaceInv
<1>7. CASE Complete
  <2>1. pc = "mark" /\ pc' = "completed" /\ UNCHANGED <<file, text, buffer, eof, current, batch>>
    BY <1>7 DEF Complete, readVars
  <2> QED
    BY <2>1 DEF PlaceInv, AllRead
<1>8. CASE Break \/ WriteFails
  <2>1. pc' = "failed" /\ UNCHANGED <<file, text, eof>>
    BY <1>8 DEF Break, WriteFails, Throw, readVars
  <2> QED
    BY <2>1 DEF PlaceInv
<1>9. CASE UNCHANGED vars
  BY <1>9 DEF PlaceInv, AllRead, vars, readVars
<1> QED
  BY <1>1, <1>2, <1>3, <1>4, <1>5, <1>6, <1>7, <1>8, <1>9 DEF Next, Advance

\* A group more.
LEMMA GroupMore ==
  ASSUME NEW s \in Seq(Groups), NEW g \in Groups
  PROVE  /\ ProductsOf(Append(s, g)) = ProductsOf(s) \cup {g.product}
         /\ VariantsOf(Append(s, g)) = VariantsOf(s) \cup g.variants
<1>1. Len(s) \in Nat /\ DOMAIN s = 1 .. Len(s)
  BY LenProperties
<1>2. PICK t : t = Append(s, g)
  OBVIOUS
<1>3. t \in Seq(Groups) /\ Len(t) = Len(s) + 1 /\ t[Len(s) + 1] = g /\ \A i \in 1 .. Len(s) : t[i] = s[i]
  BY <1>2, AppendProperties
<1>4. DOMAIN t = 1 .. Len(s) + 1
  BY <1>3, LenProperties
<1>5. DOMAIN t = DOMAIN s \cup {Len(s) + 1}
  BY <1>1, <1>4
<1>6. \A i \in DOMAIN s : t[i] = s[i]
  BY <1>1, <1>3
<1>7. ProductsOf(t) = ProductsOf(s) \cup {g.product}
  BY <1>3, <1>5, <1>6 DEF ProductsOf
<1>8. VariantsOf(t) = VariantsOf(s) \cup g.variants
  BY <1>3, <1>5, <1>6 DEF VariantsOf
<1> QED
  BY <1>2, <1>7, <1>8

LEMMA GiveWritten ==
  ASSUME Handing, WrittenInv, NEW g \in Groups, Give(g), UNCHANGED <<rows, kids>>
  PROVE  WrittenInv'
<1>1. batch \in Seq(Groups) /\ given \in Seq(Groups) /\ batch' = Append(batch, g) /\ given' = Append(given, g)
  BY DEF Handing, Give
<1>2. /\ rows \cup ProductsOf(batch') = ProductsOf(given')
      /\ kids \cup VariantsOf(batch') = VariantsOf(given')
  BY <1>1, GroupMore DEF WrittenInv
<1> QED
  BY <1>2 DEF WrittenInv

LEMMA WrittenStep == TypeOK /\ RowsInv /\ WrittenInv /\ [Next]_vars => WrittenInv'
<1> SUFFICES ASSUME TypeOK, RowsInv, WrittenInv, [Next]_vars PROVE WrittenInv'
  OBVIOUS
<1>0. Handing
  BY TypesParts
<1>1. CASE UNCHANGED <<rows, kids, batch, given>>
  BY <1>1 DEF WrittenInv
<1>2. CASE TakeLine \/ TakeTail
  <2>1. pc = "pull" /\ UNCHANGED <<rows, kids>>
    BY <1>2, Taking, Zenon
  <2>2. PICK l \in Lines : Handle(l)
    BY <1>2, Taking, Zenon
  <2>3. UNCHANGED <<batch, given>> \/ (current # NoGroup /\ Give(current))
    BY <2>2, Zenon DEF Handle, StartGroup, JoinGroup
  <2>4. CASE current # NoGroup /\ Give(current)
    BY <1>0, <2>1, <2>4, GiveWritten DEF Handing
  <2> QED
    BY <1>1, <2>1, <2>3, <2>4
<1>3. CASE GiveLast
  <2>1. current # NoGroup /\ Give(current) /\ UNCHANGED <<rows, kids>>
    BY <1>3 DEF GiveLast
  <2> QED
    BY <1>0, <2>1, GiveWritten DEF Handing
<1>4. CASE WriteProducts
  <2>1. rows' = rows \cup ProductsOf(batch) /\ UNCHANGED <<batch, kids, given>>
    BY <1>4, BatchOf DEF WriteProducts
  <2>2. /\ rows' \cup ProductsOf(batch) = ProductsOf(given)
        /\ kids' \cup VariantsOf(batch) = VariantsOf(given)
    BY <2>1 DEF WrittenInv
  <2> QED
    BY <2>1, <2>2 DEF WrittenInv
<1>5. CASE WriteVariants
  <2>1. pc = "variants" /\ kids' = kids \cup VariantsOf(batch) /\ batch' = <<>> /\ UNCHANGED <<rows, given>>
    BY <1>5, BatchOf DEF WriteVariants
  <2>2. ProductsOf(batch) \subseteq rows
    BY <2>1, BatchOf DEF RowsInv
  <2>3. /\ rows' \cup ProductsOf(<<>>) = ProductsOf(given)
        /\ kids' \cup VariantsOf(<<>>) = VariantsOf(given)
    BY <2>1, <2>2, NoneOf DEF WrittenInv
  <2> QED
    BY <2>1, <2>3 DEF WrittenInv
<1>6. CASE Open \/ Read \/ LastFlush \/ Complete \/ Break \/ WriteFails
  <2>1. UNCHANGED <<rows, kids, batch, given>>
    BY <1>6, Zenon DEF Open, Read, LastFlush, Complete, Break, WriteFails, Throw
  <2> QED
    BY <1>1, <2>1
<1>7. CASE UNCHANGED vars
  BY <1>1, <1>7 DEF vars
<1> QED
  BY <1>2, <1>3, <1>4, <1>5, <1>6, <1>7 DEF Next, Advance

LEMMA InitImport == Init => TypeOK /\ PlaceInv /\ WrittenInv /\ \E n \in 0 .. Len(file) : After(n)
<1> SUFFICES ASSUME Init PROVE TypeOK /\ PlaceInv /\ WrittenInv /\ \E n \in 0 .. Len(file) : After(n)
  OBVIOUS
<1>1. /\ buffer = <<>> /\ eof = FALSE /\ current = NoGroup /\ batch = <<>> /\ rows = {} /\ kids = {}
      /\ given = <<>> /\ pc = "open"
  BY DEF Init
<1>2. file \in Seq(Lines) /\ Len(file) <= MaxLines /\ text \in Text /\ Left(file, 0, text)
  BY InitTexts
<1>3. TypeOK
  BY <1>1, <1>2, EmptyText, EmptySeq DEF TypeOK
<1>4. PlaceInv
  BY <1>1 DEF PlaceInv
<1>5. WrittenInv
  BY <1>1 DEF WrittenInv
<1>6. Sound(file, 0)
  BY DEF Sound
<1>7. Reads(file, 0, current, given)
  <2>1. HeadsTo(file, 0) = {}
    BY DEF HeadsTo
  <2> QED
    BY <1>1, <2>1, FS_EmptySet DEF Reads
<1>8. buffer \o text = text
  BY <1>1, <1>2, JoinedEmpty
<1>9. After(0)
  BY <1>2, <1>6, <1>7, <1>8 DEF After
<1>10. 0 \in 0 .. Len(file)
  BY <1>2, LenProperties
<1> QED
  BY <1>3, <1>4, <1>5, <1>9, <1>10

LEMMA ImportGives == TypeOK /\ PlaceInv /\ WrittenInv /\ (\E n \in 0 .. Len(file) : After(n))
                       => GivenIsAPrefix /\ CompletedIsWhole
<1> SUFFICES ASSUME TypeOK, PlaceInv, WrittenInv, \E n \in 0 .. Len(file) : After(n)
             PROVE  GivenIsAPrefix /\ CompletedIsWhole
  OBVIOUS
<1>1. PICK n \in 0 .. Len(file) : After(n)
  OBVIOUS
<1>2. file \in Seq(Lines) /\ given \in Seq(Groups) /\ Sound(file, n) /\ Reads(file, n, current, given)
  BY <1>1 DEF TypeOK, After
<1>3. \A k \in 1 .. Len(given) : GroupIs(file, n, k, given[k])
  BY <1>2 DEF Reads
<1>4. GivenIsAPrefix
  BY <1>2, <1>3, GivenIsPrefix DEF GivenIsAPrefix
<1>5. ASSUME pc \in {"mark", "completed"}
      PROVE  /\ WellFormed(file) /\ file # <<>>
             /\ rows = {l.id : l \in ToSet(file) \cap ProductLines}
             /\ kids = {l.id : l \in ToSet(file) \cap VariantLines}
  <2>1. batch = <<>> /\ current = NoGroup /\ AllRead /\ file # <<>>
    BY <1>5 DEF PlaceInv
  <2>2. n = Len(file)
    BY <1>1, <1>5, <2>1, AllTaken
  <2>3. ProductsOf(batch) = {} /\ VariantsOf(batch) = {}
    BY <2>1, NoneOf
  <2>4. /\ WellFormed(file)
        /\ ProductsOf(given) = {l.id : l \in ToSet(file) \cap ProductLines}
        /\ VariantsOf(given) = {l.id : l \in ToSet(file) \cap VariantLines}
    BY <1>2, <2>1, <2>2, GivenIsWhole DEF ProductsOf, VariantsOf
  <2> QED
    BY <2>1, <2>3, <2>4 DEF WrittenInv
<1> QED
  BY <1>4, <1>5 DEF CompletedIsWhole

-----------------------------------------------------------------------------
LEMMA ImportHolds == Spec => []ImportInv
<1>1. Init => ImportInv
  <2> SUFFICES ASSUME Init PROVE ImportInv
    OBVIOUS
  <2>1. current = NoGroup /\ batch = <<>> /\ kids = {} /\ pc = "open"
    BY DEF Init
  <2>2. GroupInv /\ RowsInv
    BY <2>1 DEF GroupInv, RowsInv, VariantsHaveProducts
  <2> QED
    BY <2>2, InitImport DEF ImportInv
<1>2. ImportInv /\ [Next]_vars => ImportInv'
  <2> SUFFICES ASSUME ImportInv, [Next]_vars PROVE ImportInv'
    OBVIOUS
  <2>1. TypeOK' /\ PlaceInv' /\ WrittenInv' /\ GroupInv' /\ RowsInv'
    BY TypeStep, PlaceStep, WrittenStep, GroupStep, RowsStep DEF ImportInv
  <2>2. (\E n \in 0 .. Len(file) : After(n))'
    <3>1. PICK n \in 0 .. Len(file) : After(n)
      BY DEF ImportInv
    <3> QED
      BY <3>1, AfterStep DEF ImportInv
  <2> QED
    BY <2>1, <2>2 DEF ImportInv
<1> QED
  BY <1>1, <1>2, PTL DEF Spec

\* Every variable has its type: what is cut from the text are lines, and what is
\* given, batched and written are products of the result and sets of its variants.
THEOREM TypeCorrect == Spec => []TypeOK
<1>1. ImportInv => TypeOK
  BY DEF ImportInv
<1> QED
  BY <1>1, ImportHolds, PTL

\* However the download is cut into chunks, and wherever a line breaks the run, the
\* script is given the products in the order of the result, each once, with all the
\* variants that follow it and nothing from after a line that is an error.
THEOREM GivenAlwaysAPrefix == Spec => []GivenIsAPrefix
<1>1. ImportInv => GivenIsAPrefix
  BY ImportGives DEF ImportInv
<1> QED
  BY <1>1, ImportHolds, PTL

\* A run that goes on to mark deletions has read its result to the last line and
\* written every product and variant of it: a broken connection, a line that does not
\* parse or a statement that fails never passes for the end of the file.
THEOREM CompletedAlwaysWhole == Spec => []CompletedIsWhole
<1>1. ImportInv => CompletedIsWhole
  BY ImportGives DEF ImportInv
<1> QED
  BY <1>1, ImportHolds, PTL
=============================================================================
