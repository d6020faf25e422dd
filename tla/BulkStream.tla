----------------------------- MODULE BulkStream -----------------------------
(***************************************************************************)
(* Reading a bulk operation's result in sync-products: bulk.ts cuts the    *)
(* chunks of the download into lines (streamLines, parseLine) and puts the *)
(* variants after their product (groupByParent); the script writes what it *)
(* is given in batches.  The generators are pulled, so nothing is read     *)
(* while a batch is written.                                               *)
(*                                                                         *)
(* A line is a product, a variant or something that does not parse; its    *)
(* text is its two halves, of which a chunk may hold one.  Which rows the  *)
(* run then marks deleted is the subject of Catalog.                       *)
(***************************************************************************)
EXTENDS Naturals, Sequences, SequencesExt, FiniteSets

CONSTANTS
  Products,   \* product ids
  Variants,   \* variant ids
  Parent,     \* the product of each variant, its line's __parentId
  BatchSize,  \* BATCH_SIZE
  MaxLines,   \* bound: lines of a result
  MaxChunk,   \* bound: pieces of text a read returns
  NoGroup     \* no product has been read yet

ASSUME StreamAssumption == BatchSize \in Nat \ {0} /\ MaxLines \in Nat /\ MaxChunk \in Nat \ {0}
ASSUME ParentAssumption == Parent \in [Variants -> Products]
ASSUME GroupAssumption  == NoGroup \notin [product : Products, variants : SUBSET Variants]

VARIABLES
  file,      \* the lines of the result
  text,      \* what is still to be downloaded
  buffer,    \* streamLines: received, not yet cut into lines
  eof,       \* streamLines: the reader said done
  current,   \* groupByParent: the product whose variants are being read
  batch,     \* sync-products: groups not yet written
  rows,      \* database: products of this result that have been written
  kids,      \* database: variants of this result that have been written
  pc,        \* how far the run is
  given      \* history: the groups given to the script, in their order

readVars  == <<text, buffer, eof>>
vars      == <<file, readVars, current, batch, rows, kids, pc, given>>

ProductLines == [kind : {"product"}, id : Products]
VariantLines == [kind : {"variant"}, id : Variants]
Blank        == [kind |-> "blank"]
Junk         == [kind |-> "junk"]
Lines        == ProductLines \cup VariantLines \cup {Blank, Junk}
Groups       == [product : Products, variants : SUBSET Variants]

\* Text.  A line that is not blank is two pieces; a newline ends it.
Newline     == <<Blank, 0>>
Text        == Seq(Lines \X {0, 1, 2})
Pieces(l)   == IF l = Blank THEN <<>> ELSE << <<l, 1>>, <<l, 2>> >>
Ended(l)    == Append(Pieces(l), Newline)
TextOf(f)   == FlattenSeq([i \in DOMAIN f |-> Ended(f[i])])

\* Shopify lists a product and a variant once.
OnceEach(f) == \A i, j \in DOMAIN f : f[i] = f[j] /\ f[i] \in ProductLines \cup VariantLines => i = j

TypeOK ==
  /\ file \in Seq(Lines) /\ Len(file) <= MaxLines
  /\ text \in Text /\ buffer \in Text /\ eof \in BOOLEAN
  /\ current \in Groups \cup {NoGroup}
  /\ batch \in Seq(Groups) /\ rows \subseteq Products /\ kids \subseteq Variants
  /\ pc \in {"open", "pull", "products", "variants", "mark", "completed", "failed"}
  /\ given \in Seq(Groups)

\* The last line may lack its newline.
Init ==
  /\ file \in {f \in SeqOf(Lines, MaxLines) : OnceEach(f)}
  /\ text \in {TextOf(file)} \cup
              (IF file # <<>> /\ Last(file) # Blank THEN {Front(TextOf(file))} ELSE {})
  /\ buffer = <<>> /\ eof = FALSE /\ current = NoGroup
  /\ batch = <<>> /\ rows = {} /\ kids = {} /\ given = <<>>
  /\ pc = "open"

Throw ==
  /\ pc' = "failed"
  /\ UNCHANGED <<file, readVars, current, batch, rows, kids, given>>

(***************************************************************************)
(* streamLines.                                                            *)
(***************************************************************************)
HasLine(b)   == \E i \in DOMAIN b : b[i] = Newline
LineEnd(b)   == CHOOSE i \in DOMAIN b : b[i] = Newline /\ \A j \in 1 .. i - 1 : b[j] # Newline
\* What the pieces before a newline are: a line, or text that does not parse.
Parse(raw)   == IF \E l \in Lines : raw = Pieces(l) THEN CHOOSE l \in Lines : raw = Pieces(l) ELSE Junk

\* An operation without objects has no url.
Open ==
  /\ pc = "open"
  /\ \/ /\ file # <<>>
        /\ pc' = "pull"
        /\ UNCHANGED <<file, readVars, current, batch, rows, kids, given>>
     \/ Throw

\* FAULT: what is left of the previous chunk is dropped.
Read_forgets ==
  /\ pc = "pull" /\ ~HasLine(buffer) /\ ~eof
  /\ IF text = <<>>
     THEN eof' = TRUE /\ UNCHANGED <<text, buffer>>
     ELSE \E n \in 1 .. MaxChunk :
            /\ n <= Len(text)
            /\ buffer' = SubSeq(text, 1, n)
            /\ text' = SubSeq(text, n + 1, Len(text))
            /\ UNCHANGED eof
  /\ UNCHANGED <<file, current, batch, rows, kids, pc, given>>

\* FAULT: the loop goes on when the reader is done.
Read_on ==
  /\ pc = "pull" /\ ~HasLine(buffer) /\ text # <<>>
  /\ \E n \in 1 .. MaxChunk :
       /\ n <= Len(text)
       /\ buffer' = buffer \o SubSeq(text, 1, n)
       /\ text' = SubSeq(text, n + 1, Len(text))
  /\ UNCHANGED <<file, eof, current, batch, rows, kids, pc, given>>

\* A chunk ends anywhere.
Read ==
  /\ pc = "pull" /\ ~HasLine(buffer) /\ ~eof
  /\ IF text = <<>>
     THEN eof' = TRUE /\ UNCHANGED <<text, buffer>>
     ELSE \E n \in 1 .. MaxChunk :
            /\ n <= Len(text)
            /\ buffer' = buffer \o SubSeq(text, 1, n)
            /\ text' = SubSeq(text, n + 1, Len(text))
            /\ UNCHANGED eof
  /\ UNCHANGED <<file, current, batch, rows, kids, pc, given>>

\* The connection breaks: the read is rejected, not answered "done".
Break == pc = "pull" /\ ~HasLine(buffer) /\ ~eof /\ Throw

(***************************************************************************)
(* groupByParent, and the loop that takes its groups.                      *)
(***************************************************************************)
Give(g) ==
  /\ given' = Append(given, g)
  /\ batch' = Append(batch, g)
  /\ pc' = IF Len(batch') >= BatchSize THEN "products" ELSE "pull"

\* FAULT: a product starts without its list of variants.
StartGroup_bare(p) ==
  /\ IF current = NoGroup THEN UNCHANGED <<given, batch, pc>> ELSE Give(current)
  /\ current' = [product |-> p]

StartGroup(p) ==
  /\ IF current = NoGroup THEN UNCHANGED <<given, batch, pc>> ELSE Give(current)
  /\ current' = [product |-> p, variants |-> {}]

\* A variant of no product, or of another one, is an error.
JoinGroup(v) ==
  IF current = NoGroup \/ Parent[v] # current.product
  THEN pc' = "failed" /\ UNCHANGED <<current, given, batch>>
  ELSE current' = [current EXCEPT !.variants = @ \cup {v}] /\ UNCHANGED <<given, batch, pc>>

Handle(l) ==
  \/ l \in ProductLines /\ StartGroup(l.id)
  \/ l \in VariantLines /\ JoinGroup(l.id)
  \/ l = Blank /\ UNCHANGED <<current, given, batch, pc>>
  \/ l = Junk /\ pc' = "failed" /\ UNCHANGED <<current, given, batch>>

TakeLine ==
  /\ pc = "pull" /\ HasLine(buffer)
  /\ LET k == LineEnd(buffer)
     IN /\ Handle(Parse(SubSeq(buffer, 1, k - 1)))
        /\ buffer' = SubSeq(buffer, k + 1, Len(buffer))
  /\ UNCHANGED <<file, text, eof, rows, kids>>

\* FAULT: what follows the last newline is not looked at.
TakeTail_drops ==
  /\ pc = "pull" /\ eof /\ ~HasLine(buffer) /\ buffer # <<>>
  /\ buffer' = <<>>
  /\ UNCHANGED <<file, text, eof, current, batch, rows, kids, pc, given>>

TakeTail ==
  /\ pc = "pull" /\ eof /\ ~HasLine(buffer) /\ buffer # <<>>
  /\ Handle(Parse(buffer))
  /\ buffer' = <<>>
  /\ UNCHANGED <<file, text, eof, rows, kids>>

AllRead == eof /\ buffer = <<>>

\* The lines are over: the last product is given, then what is left is written.
GiveLast ==
  /\ pc = "pull" /\ AllRead /\ current # NoGroup
  /\ Give(current)
  /\ current' = NoGroup
  /\ UNCHANGED <<file, readVars, rows, kids>>

LastFlush ==
  /\ pc = "pull" /\ AllRead /\ current = NoGroup
  /\ pc' = IF batch = <<>> THEN "mark" ELSE "products"
  /\ UNCHANGED <<file, readVars, current, batch, rows, kids, given>>

(***************************************************************************)
(* flush: two statements, each of which may fail.                          *)
(***************************************************************************)
BatchProducts == {batch[i].product : i \in DOMAIN batch}
BatchVariants == UNION {batch[i].variants : i \in DOMAIN batch}

\* FAULT: the statements are in the other order.
WriteProducts_second ==
  /\ pc = "products"
  /\ kids' = kids \cup BatchVariants
  /\ pc' = "variants"
  /\ UNCHANGED <<file, readVars, current, batch, rows, given>>

WriteProducts ==
  /\ pc = "products"
  /\ rows' = rows \cup BatchProducts
  /\ pc' = "variants"
  /\ UNCHANGED <<file, readVars, current, batch, kids, given>>

WriteVariants ==
  /\ pc = "variants"
  /\ kids' = kids \cup BatchVariants
  /\ batch' = <<>>
  /\ pc' = "pull"
  /\ UNCHANGED <<file, readVars, current, rows, given>>

WriteFails == pc \in {"products", "variants", "mark"} /\ Throw

\* The deletions are marked and the run is recorded as completed.
Complete ==
  /\ pc = "mark"
  /\ pc' = "completed"
  /\ UNCHANGED <<file, readVars, current, batch, rows, kids, given>>

Advance ==
  Open \/ Read \/ TakeLine \/ TakeTail \/ GiveLast \/ LastFlush \/ WriteProducts \/ WriteVariants \/ Complete

Next == Advance \/ Break \/ WriteFails

Spec == Init /\ [][Next]_vars

\* A read that does not fail brings the next chunk, a statement its result.
FairSpec == Spec /\ WF_vars(Advance)

(***************************************************************************)
(* What the groups of a result are, said without reading it in chunks.     *)
(***************************************************************************)
ProductAt(f, i)  == f[i] \in ProductLines
\* The product line a variant line at i belongs under: the last one before it.
HeadOf(f, i)     == {h \in 1 .. i - 1 : ProductAt(f, h) /\ \A j \in h + 1 .. i - 1 : ~ProductAt(f, j)}
Misplaced(f, i)  == f[i] \in VariantLines /\ \A h \in HeadOf(f, i) : f[h].id # Parent[f[i].id]
WellFormed(f)    == \A i \in DOMAIN f : f[i] # Junk /\ ~Misplaced(f, i)
GroupAt(f, h)    == [product  |-> f[h].id,
                     variants |-> {f[i].id : i \in {j \in DOMAIN f : f[j] \in VariantLines /\ h \in HeadOf(f, j)}}]
Heads(f)         == {h \in DOMAIN f : ProductAt(f, h)}
\* Which of the products it is, counting from the first.
Rank(f, h)       == Cardinality({j \in Heads(f) : j <= h})
GroupsOf(f)      == [n \in 1 .. Cardinality(Heads(f)) |->
                       GroupAt(f, CHOOSE h \in Heads(f) : Rank(f, h) = n)]
\* The lines before the first one that is an error.
SoundPart(f)     == LET bad == {i \in DOMAIN f : f[i] = Junk \/ Misplaced(f, i)}
                    IN IF bad = {} THEN f
                       ELSE SubSeq(f, 1, (CHOOSE i \in bad : \A j \in bad : i <= j) - 1)

(***************************************************************************)
(* Properties.                                                             *)
(***************************************************************************)
\* However the download is cut into chunks, the script is given the products
\* in the order of the result, each once, with all the variants that follow it,
\* and nothing from after a line that is an error (streamLines, groupByParent).
GivenIsAPrefix == IsPrefix(given, GroupsOf(SoundPart(file)))

\* A run that goes on to mark deletions has written every product and variant
\* of its result: a broken connection, a line that does not parse or a
\* statement that fails never passes for the end of the file.
CompletedIsWhole ==
  pc \in {"mark", "completed"} =>
    /\ WellFormed(file) /\ file # <<>>
    /\ rows = {l.id : l \in ToSet(file) \cap ProductLines}
    /\ kids = {l.id : l \in ToSet(file) \cap VariantLines}

\* "Products first - the foreign key from Variant requires the parent": at
\* every moment, so also when the run stops between two statements.
VariantsHaveProducts == \A v \in kids : Parent[v] \in rows

\* The run ends.
EveryImportEnds == <>(pc \in {"completed", "failed"})
=============================================================================
