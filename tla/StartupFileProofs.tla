-------------------------- MODULE StartupFileProofs --------------------------
(***************************************************************************)
(* What holds of StartupFile for any texts, any number of runs and of      *)
(* lines other people add.                                                 *)
(*                                                                         *)
(* The argument: where the rewriting starts the file holds what the run    *)
(* read, and what it writes, then or to put things back, is all the rest;  *)
(* so a text cut to the length it should have is the text it should be.    *)
(* Installs that overlap all leave one text: the file starts with it from  *)
(* the first write on, and nothing behind it is a block.                   *)
(***************************************************************************)
EXTENDS StartupFile, SequenceTheorems, WellFoundedInduction, TLAPS

----------------------------------------------------------------------------
(* Texts.                                                                  *)

LEMMA ATextIsASequence ==
  ASSUME NEW n \in Nat, NEW t \in [1 .. n -> Words]
  PROVE  t \in Text /\ Len(t) = n
  BY SeqDef, LenProperties DEF Text

LEMMA TextProperties ==
  ASSUME NEW t \in Text
  PROVE  Len(t) \in Nat /\ t \in [1 .. Len(t) -> Words]
  BY LenProperties DEF Text

LEMMA SameText ==
  ASSUME NEW s \in Text, NEW t \in Text, Len(s) = Len(t),
         \A i \in 1 .. Len(s) : s[i] = t[i]
  PROVE  s = t
  BY SeqEqual DEF Text

LEMMA ConcatText ==
  ASSUME NEW s \in Text, NEW t \in Text
  PROVE  /\ s \o t \in Text /\ Len(s \o t) = Len(s) + Len(t)
         /\ \A i \in 1 .. Len(s) + Len(t) :
              (s \o t)[i] = IF i <= Len(s) THEN s[i] ELSE t[i - Len(s)]
  BY ConcatProperties DEF Text

(* A piece of a text.                                                      *)
LEMMA SubText ==
  ASSUME NEW t \in Text, NEW m \in Nat, NEW n \in Int, 1 <= m, n <= Len(t)
  PROVE  /\ SubSeq(t, m, n) \in Text
         /\ Len(SubSeq(t, m, n)) = IF m <= n THEN n - m + 1 ELSE 0
         /\ \A i \in 1 .. n - m + 1 : SubSeq(t, m, n)[i] = t[m + i - 1]
<1>1. \A i \in m .. n : t[i] \in Words
  BY TextProperties
<1> QED
  BY <1>1, SubSeqProperties DEF Text

LEMMA OverText ==
  ASSUME NEW t \in Text, NEW words \in Text, NEW f \in Nat
  PROVE  /\ Over(t, f, words) \in Text
         /\ Len(Over(t, f, words)) = Longer(Len(t), f + Len(words))
         /\ \A i \in 1 .. f : i <= Len(t) => Over(t, f, words)[i] = t[i]
         /\ \A i \in f + 1 .. f + Len(words) : Over(t, f, words)[i] = words[i - f]
<1> DEFINE n == Longer(Len(t), f + Len(words))
<1>1. /\ Len(t) \in Nat /\ t \in [1 .. Len(t) -> Words]
      /\ Len(words) \in Nat /\ words \in [1 .. Len(words) -> Words]
  BY TextProperties
<1>2. n \in Nat /\ f <= n /\ f + Len(words) <= n
  BY <1>1 DEF Longer
<1>3. \A i \in 1 .. n : f < i /\ i <= f + Len(words) => i - f \in 1 .. Len(words)
  BY <1>1, <1>2
<1>4. \A i \in 1 .. n : i <= Len(t) => t[i] \in Words
  BY <1>1, <1>2
<1>5. Over(t, f, words) \in [1 .. n -> Words]
  <2>1. "nul" \in Words
    BY DEF Words, Marks
  <2> QED
    BY <1>1, <1>3, <1>4, <2>1 DEF Over
<1>6. Over(t, f, words) \in Text /\ Len(Over(t, f, words)) = n
  BY <1>2, <1>5, ATextIsASequence
<1>7. \A i \in 1 .. f : i <= Len(t) => Over(t, f, words)[i] = t[i]
  BY <1>1, <1>2 DEF Over
<1>8. \A i \in f + 1 .. f + Len(words) : Over(t, f, words)[i] = words[i - f]
  BY <1>1, <1>2 DEF Over
<1> QED
  BY <1>6, <1>7, <1>8

LEMMA OverLength ==
  ASSUME NEW t \in Text, NEW words \in Text, NEW f \in Nat
  PROVE  /\ Over(t, f, words) \in Text
         /\ Len(Over(t, f, words)) = Longer(Len(t), f + Len(words))
  BY OverText

LEMMA OverHead ==
  ASSUME NEW t \in Text, NEW words \in Text, NEW f \in Nat
  PROVE  \A i \in 1 .. f : i <= Len(t) => Over(t, f, words)[i] = t[i]
  BY OverText

LEMMA CutText ==
  ASSUME NEW t \in Text, NEW n \in Nat
  PROVE  /\ Cut(t, n) \in Text /\ Len(Cut(t, n)) = n
         /\ \A i \in 1 .. n : i <= Len(t) => Cut(t, n)[i] = t[i]
<1>1. Len(t) \in Nat /\ t \in [1 .. Len(t) -> Words] /\ "nul" \in Words
  BY TextProperties DEF Words, Marks
<1>2. \A i \in 1 .. n : i <= Len(t) => t[i] \in Words
  BY <1>1
<1>3. Cut(t, n) \in [1 .. n -> Words]
  BY <1>1, <1>2 DEF Cut
<1> QED
  BY <1>3, ATextIsASequence DEF Cut

LEMMA PrefixText ==
  ASSUME NEW t \in Text, NEW words \in Prefixes(t)
  PROVE  words \in Text /\ Len(words) <= Len(t)
<1>1. PICK l \in 0 .. Len(t) : words = SubSeq(t, 1, l)
  BY DEF Prefixes
<1> QED
  BY <1>1, SubText, TextProperties

----------------------------------------------------------------------------
(* The lines of the markers.                                               *)

LEMMA LeastNumber ==
  ASSUME NEW S \in SUBSET Nat, S # {}
  PROVE  Min(S) \in S /\ \A i \in S : Min(S) <= i
<1> DEFINE R == {ss \in Nat \X Nat : ss[1] < ss[2]}
<1>1. IsWellFoundedOn(R, Nat)
  BY NatLessThanWellFounded DEF OpToRel
<1>2. \E i \in S : \A j \in S : <<j, i>> \notin R
  <2> HIDE DEF R
  <2> QED
    BY <1>1, WFMin
<1>3. \A i, j \in Nat : <<j, i>> \notin R => i <= j
  <2> SUFFICES ASSUME NEW i \in Nat, NEW j \in Nat, j < i PROVE <<j, i>> \in R
    OBVIOUS
  <2> QED
    OBVIOUS
<1>4. \E i \in S : \A j \in S : i <= j
  <2> HIDE DEF R
  <2> QED
    BY <1>2, <1>3
<1> QED
  BY <1>4 DEF Min

LEMMA MarkerText ==
  ASSUME NEW t \in Text, NEW marker, NEW f \in Nat
  PROVE  /\ markerLine(t, marker, f) \in 0 .. Len(t)
         /\ markerLine(t, marker, f) # 0 /\ f # 0 =>
              f <= markerLine(t, marker, f) /\ t[markerLine(t, marker, f)] = marker
<1> DEFINE lines == {i \in f .. Len(t) :
                       /\ t[i] = marker
                       /\ i = 1 \/ t[i - 1] = "nl"
                       /\ i = Len(t) \/ t[i + 1] = "nl"}
<1>1. Len(t) \in Nat
  BY TextProperties
<1>2. lines \in SUBSET Nat
  BY <1>1
<1>3. markerLine(t, marker, f) = IF lines = {} THEN 0 ELSE Min(lines)
  BY DEF markerLine
<1>4. lines # {} => Min(lines) \in lines
  <2> HIDE DEF lines
  <2> QED
    BY <1>2, LeastNumber
<1>5. Min(lines) \in lines =>
        Min(lines) \in 0 .. Len(t) /\ f <= Min(lines) /\ t[Min(lines)] = marker
  BY <1>1
<1> HIDE DEF lines
<1> QED
  BY <1>1, <1>3, <1>4, <1>5

LEMMA BlockText ==
  /\ block \in Text /\ Len(block) = 6
  /\ ownFile \in Text /\ Len(ownFile) = 4
  /\ <<>> \in Text /\ Len(<<>>) = 0
  /\ <<"nl">> \in Text /\ Len(<<"nl">>) = 1
<1>1. {"begin", "nl", "body", "end", "own"} \subseteq Words
  BY DEF Words, Marks
<1> QED
  BY <1>1 DEF block, ownFile, Text

LEMMA BlockIsText == block \in Text /\ Len(block) = 6
  BY BlockText

(* The words of two texts put together.                                    *)
LEMMA JoinText ==
  ASSUME NEW s \in Text, NEW t \in Text
  PROVE  s \o t \in Text /\ Len(s \o t) = Len(s) + Len(t)
  BY ConcatText

LEMMA HeadText ==
  ASSUME NEW s \in Text, NEW t \in Text, NEW i \in 1 .. Len(s)
  PROVE  (s \o t)[i] = s[i]
<1>1. Len(s) \in Nat /\ Len(t) \in Nat
  BY TextProperties
<1>2. i \in 1 .. Len(s) + Len(t) /\ i <= Len(s)
  BY <1>1
<1> QED
  BY <1>2, ConcatText

LEMMA TailText ==
  ASSUME NEW s \in Text, NEW t \in Text, NEW i \in 1 .. Len(t)
  PROVE  (s \o t)[Len(s) + i] = t[i]
<1>1. Len(s) \in Nat /\ Len(t) \in Nat
  BY TextProperties
<1> DEFINE j == Len(s) + i
<1>2. j \in 1 .. Len(s) + Len(t) /\ ~(j <= Len(s)) /\ j - Len(s) = i
  BY <1>1
<1> HIDE DEF j
<1>3. (s \o t)[j] = t[i]
  BY <1>2, ConcatText
<1> QED
  BY <1>3 DEF j

(* The three parts of a text with a whole block.                           *)
LEMMA PartsOfAText ==
  ASSUME NEW t \in Text, HasBlock(t), ~LostItsEnd(t)
  PROVE  /\ Begin(t) \in 1 .. Len(t) /\ Past(t) \in Begin(t) .. Len(t)
         /\ Before(t) \in Text /\ Len(Before(t)) = Begin(t) - 1
         /\ Found(t) \in Text /\ Len(Found(t)) = Past(t) - Begin(t) + 1
         /\ \A i \in 1 .. Len(Found(t)) : Found(t)[i] = t[Begin(t) + i - 1]
         /\ Behind(t) \in Text /\ Len(Behind(t)) = Len(t) - Past(t)
<1>1. Len(t) \in Nat
  BY TextProperties
<1>2. Begin(t) \in 1 .. Len(t)
  BY <1>1, MarkerText DEF Begin, HasBlock
<1>3. End(t) \in Begin(t) .. Len(t)
  BY <1>1, <1>2, MarkerText DEF End, HasBlock, LostItsEnd
<1>4. Past(t) \in Begin(t) .. Len(t)
  BY <1>1, <1>2, <1>3 DEF Past
<1>5. Before(t) \in Text /\ Len(Before(t)) = Begin(t) - 1
  BY <1>1, <1>2, SubText DEF Before
<1>6. /\ Found(t) \in Text /\ Len(Found(t)) = Past(t) - Begin(t) + 1
      /\ \A i \in 1 .. Len(Found(t)) : Found(t)[i] = t[Begin(t) + i - 1]
  BY <1>1, <1>2, <1>4, SubText DEF Found
<1>7. Behind(t) \in Text /\ Len(Behind(t)) = Len(t) - Past(t)
  BY <1>1, <1>2, <1>4, SubText DEF Behind
<1> QED
  BY <1>2, <1>4, <1>5, <1>6, <1>7

LEMMA AppendedText ==
  ASSUME NEW t \in Text
  PROVE  appendBlock(t) \in Text /\ Len(appendBlock(t)) > Len(t)
<1>1. CASE t = <<>>
  BY <1>1, BlockText DEF appendBlock
<1>2. CASE t # <<>>
  <2> DEFINE s == IF t[Len(t)] # "nl" THEN t \o <<"nl">> ELSE t
  <2>1. s \in Text /\ Len(s) >= Len(t) /\ Len(t) \in Nat
    BY BlockText, ConcatText, TextProperties
  <2>2. appendBlock(t) = s \o <<"nl">> \o block
    BY <1>2 DEF appendBlock
  <2> HIDE DEF s
  <2> DEFINE u == s \o <<"nl">>
             v == u \o block
  <2>3. u \in Text /\ Len(u) = Len(s) + 1
    BY <2>1, BlockText, ConcatText
  <2> HIDE DEF u
  <2>4. v \in Text /\ Len(v) = Len(u) + Len(block)
    BY <2>3, BlockText, ConcatText
  <2>5. appendBlock(t) = v
    BY <2>2 DEF u
  <2> HIDE DEF v
  <2>6. Len(s) \in Nat
    BY <2>1, TextProperties
  <2> QED
    BY <2>1, <2>3, <2>4, <2>5, <2>6, BlockText
<1> QED
  BY <1>1, <1>2

LEMMA RemovedText ==
  ASSUME NEW t \in Text, HasBlock(t), ~LostItsEnd(t)
  PROVE  removed(t) \in Text /\ Len(removed(t)) < Len(t)
<1>1. \A s \in Text : WithoutBlank(s) \in Text /\ Len(WithoutBlank(s)) <= Len(s)
  <2> SUFFICES ASSUME NEW s \in Text
               PROVE  WithoutBlank(s) \in Text /\ Len(WithoutBlank(s)) <= Len(s)
    OBVIOUS
  <2>1. Len(s) \in Nat
    BY TextProperties
  <2>2. CASE Len(s) > 1
    <3>1. SubSeq(s, 1, Len(s) - 1) \in Text /\ Len(SubSeq(s, 1, Len(s) - 1)) = Len(s) - 1
      BY <2>1, <2>2, SubText
    <3> QED
      BY <2>1, <3>1 DEF WithoutBlank
  <2>3. CASE ~(Len(s) > 1)
    BY <2>1, <2>3 DEF WithoutBlank
  <2> QED
    BY <2>2, <2>3
<1>2. /\ Before(t) \in Text /\ Len(Before(t)) = Begin(t) - 1
      /\ Behind(t) \in Text /\ Len(Behind(t)) = Len(t) - Past(t)
      /\ Begin(t) \in Nat /\ Past(t) \in Nat /\ Begin(t) <= Past(t) /\ Len(t) \in Nat
  BY PartsOfAText, TextProperties
<1>3. WithoutBlank(Before(t)) \in Text /\ Len(WithoutBlank(Before(t))) <= Begin(t) - 1
  BY <1>1, <1>2
<1>4. removed(t) \in Text
      /\ Len(removed(t)) = Len(WithoutBlank(Before(t))) + Len(Behind(t))
  BY <1>2, <1>3, ConcatText DEF removed
<1> QED
  BY <1>2, <1>3, <1>4, TextProperties

(* A block that is not bb's, replaced by bb's, gives another text.         *)
LEMMA ReplacedText ==
  ASSUME NEW t \in Text, HasBlock(t), ~LostItsEnd(t)
  PROVE  /\ Before(t) \o block \o Behind(t) \in Text
         /\ Found(t) # block => Before(t) \o block \o Behind(t) # t
<1> DEFINE s == Before(t) \o block
           u == s \o Behind(t)
<1>1. /\ Before(t) \in Text /\ Len(Before(t)) = Begin(t) - 1
      /\ Behind(t) \in Text /\ Len(Behind(t)) = Len(t) - Past(t)
      /\ Found(t) \in Text /\ Len(Found(t)) = Past(t) - Begin(t) + 1
      /\ \A i \in 1 .. Len(Found(t)) : Found(t)[i] = t[Begin(t) + i - 1]
      /\ Begin(t) \in Nat /\ Past(t) \in Nat /\ Begin(t) <= Past(t) /\ Len(t) \in Nat
      /\ 1 <= Begin(t) /\ Past(t) <= Len(t)
  BY PartsOfAText, TextProperties
<1>2. s \in Text /\ Len(s) = Len(Before(t)) + 6
  <2>1. Before(t) \in Text /\ block \in Text
    BY <1>1, BlockIsText
  <2>2. s \in Text /\ Len(s) = Len(Before(t)) + Len(block)
    BY <2>1, JoinText, Zenon
  <2> QED
    BY <2>2, BlockIsText
<1>3. ASSUME NEW i \in 1 .. 6 PROVE s[Len(Before(t)) + i] = block[i]
  <2>1. i \in 1 .. Len(block)
    BY BlockIsText
  <2> QED
    BY <1>1, <2>1, BlockIsText, TailText
<1> HIDE DEF s
<1>4. u \in Text /\ Len(u) = Len(s) + Len(Behind(t))
  BY <1>1, <1>2, JoinText
<1>5. ASSUME NEW j \in 1 .. Len(s) PROVE u[j] = s[j]
  BY <1>1, <1>2, HeadText
<1> HIDE DEF u
<1>6. ASSUME u = t PROVE Found(t) = block
  <2>1. Past(t) - Begin(t) + 1 = 6
    <3>1. Len(t) = Begin(t) - 1 + 6 + (Len(t) - Past(t))
      BY <1>1, <1>2, <1>4, <1>6
    <3>2. Begin(t) \in Nat /\ Past(t) \in Nat /\ Len(t) \in Nat
      BY <1>1
    <3> QED
      BY <3>1, <3>2
  <2>2. Len(Found(t)) = 6
    BY <1>1, <2>1
  <2>3. ASSUME NEW i \in 1 .. 6 PROVE Found(t)[i] = block[i]
    <3> DEFINE j == Len(Before(t)) + i
    <3>1. j \in 1 .. Len(s) /\ j = Begin(t) + i - 1
      <4>1. Len(Before(t)) = Begin(t) - 1 /\ Len(s) = Begin(t) + 5 /\ Begin(t) \in Nat
            /\ 1 <= Begin(t)
        BY <1>1, <1>2
      <4> QED
        BY <4>1
    <3> HIDE DEF j
    <3>2. u[j] = s[j]
      BY <1>5, <3>1
    <3>3. s[j] = block[i]
      BY <1>3 DEF j
    <3>4. Found(t)[i] = t[Begin(t) + i - 1]
      BY <1>1, <2>2
    <3> QED
      BY <1>6, <3>1, <3>2, <3>3, <3>4
  <2>4. block \in Text /\ Len(block) = Len(Found(t))
    BY <2>2, BlockIsText
  <2> QED
    BY <1>1, <2>2, <2>3, <2>4, SameText
<1> QED
  BY <1>4, <1>6 DEF u, s

(* What a run sets out to leave is a text or no file, and another than it  *)
(* read.                                                                   *)
LEMMA OutcomeIsOther ==
  ASSUME NEW o \in {"install", "remove"}, NEW t \in Text,
         ~Refused(o, t), ~AlreadySo(o, t), StartupAssumption
  PROVE  Outcome(o, t) \in Text \cup {Absent} /\ Outcome(o, t) # t
<1>1. Absent \notin Text
  BY DEF StartupAssumption
<1>2. CASE kind = "file"
  <2>1. CASE o = "install"
    BY <1>2, <2>1, BlockText DEF Outcome, Installed, AlreadySo
  <2>2. CASE o = "remove"
    BY <1>1, <1>2, <2>2 DEF Outcome, Removed
  <2> QED
    BY <2>1, <2>2
<1>3. CASE kind # "file" /\ o = "install"
  <2>1. CASE HasBlock(t)
    <3>1. Found(t) # block /\ ~LostItsEnd(t)
      BY <1>3, <2>1 DEF AlreadySo, Refused
    <3> QED
      BY <1>3, <2>1, <3>1, ReplacedText DEF Outcome, Installed
  <2>2. CASE ~HasBlock(t)
    <3>1. Outcome(o, t) = appendBlock(t)
      BY <1>3, <2>2 DEF Outcome, Installed
    <3> QED
      BY <3>1, AppendedText, TextProperties
  <2> QED
    BY <2>1, <2>2
<1>4. CASE kind # "file" /\ o = "remove"
  <2>1. HasBlock(t) /\ ~LostItsEnd(t)
    BY <1>4 DEF AlreadySo, Refused
  <2>2. removed(t) \in Text /\ removed(t) # t
    BY <2>1, RemovedText, TextProperties
  <2> QED
    BY <1>1, <1>4, <2>2 DEF Outcome, Removed
<1> QED
  BY <1>2, <1>3, <1>4

----------------------------------------------------------------------------
(* Types.                                                                  *)

Typed ==
  /\ kind \in Kinds
  /\ at \in Files \cup {Absent}
  /\ text \in [Files -> Text]
  /\ said \in 0 .. MaxSaid
  /\ pc \in [Runs -> Steps]
  /\ op \in [Runs -> {"install", "remove"}]
  /\ raw \in [Runs -> Text \cup {Absent}] /\ wanted \in [Runs -> Text \cup {Absent}]
  /\ opened \in [Runs -> Files]
  /\ told \in [Runs -> {"nothing", "changed", "unchanged", "notFound", "conflict", "failed",
                        "unreadable", "checkByHand"}]
  /\ alone \in [Runs -> BOOLEAN]

Creating == {"create", "fill", "uncreate"}
Rewriting == {"open", "write", "truncate", "putBack", "cutBack"}

(* What a run knows at each of its steps.                                  *)
KnowsAt(p) ==
  /\ pc[p] \in {"idle", "read"} => ~alone[p]
  /\ pc[p] \in Creating => raw[p] = Absent /\ wanted[p] \in Text
  /\ pc[p] \in Rewriting => raw[p] \in Text /\ wanted[p] \in Text
  /\ pc[p] = "delete" => raw[p] \in Text /\ wanted[p] = Absent
  /\ pc[p] \in Creating \cup Rewriting \cup {"delete"} => wanted[p] # raw[p]
  /\ pc[p] \notin {"done", "left"} => told[p] = "nothing"
  /\ told[p] = "changed" => wanted[p] # raw[p]

Knows == \A p \in Runs : KnowsAt(p)

(* Run's step leaves the other runs where they are.                        *)
LEMMA OthersStay ==
  ASSUME Typed, NEW p \in Runs, Run(p)
  PROVE  \A q \in Runs \ {p} :
           /\ pc'[q] = pc[q] /\ raw'[q] = raw[q] /\ wanted'[q] = wanted[q]
           /\ opened'[q] = opened[q] /\ told'[q] = told[q]
           /\ alone'[q] => alone[q] /\ File' = File
<1> SUFFICES ASSUME NEW q \in Runs, q # p
             PROVE  /\ pc'[q] = pc[q] /\ raw'[q] = raw[q] /\ wanted'[q] = wanted[q]
                    /\ opened'[q] = opened[q] /\ told'[q] = told[q]
                    /\ alone'[q] => alone[q] /\ File' = File
  OBVIOUS
<1> USE DEF Typed, Goto, Tell, plan, path
<1>1. ASSUME UNCHANGED <<at, text>> PROVE File' = File
  BY <1>1 DEF File
<1>2. CASE Start(p)
  BY <1>1, <1>2 DEF Start
<1>3. CASE ReadFails(p)
  BY <1>1, <1>3 DEF ReadFails
<1>4. CASE FindNone(p)
  BY <1>1, <1>4 DEF FindNone, Looks
<1>5. CASE FindOther(p) \/ FindSo(p)
  BY <1>1, <1>5 DEF FindOther, FindSo, Looks
<1>6. CASE FindWork(p)
  BY <1>1, <1>6 DEF FindWork, Looks
<1>7. CASE Create(p)
  BY <1>1, <1>7 DEF Create, Meddle
<1>8. CASE Fill(p)
  BY <1>8 DEF Fill, Store, Meddle
<1>9. CASE Uncreate(p)
  BY <1>1, <1>9 DEF Uncreate, Meddle
<1>10. CASE Open(p)
  BY <1>1, <1>10 DEF Open
<1>11. CASE WriteAt(p)
  BY <1>11 DEF WriteAt, Store, Meddle
<1>12. CASE Truncate(p)
  BY <1>1, <1>12 DEF Truncate, Store, Meddle
<1>13. CASE PutBack(p)
  BY <1>13 DEF PutBack, Store, Meddle
<1>14. CASE CutBack(p)
  BY <1>1, <1>14 DEF CutBack, Store, Meddle
<1>15. CASE Delete(p)
  BY <1>1, <1>15 DEF Delete, Meddle
<1>16. CASE Kill(p)
  BY <1>1, <1>16 DEF Kill
<1> QED
  BY <1>2, <1>3, <1>4, <1>5, <1>6, <1>7, <1>8, <1>9, <1>10, <1>11, <1>12, <1>13, <1>14, <1>15,
     <1>16 DEF Run

LEMMA MeddleType ==
  ASSUME NEW p \in Runs, Meddle({p}), Typed
  PROVE  alone' \in [Runs -> BOOLEAN] /\ alone'[p] = alone[p]
BY DEF Meddle, Typed

LEMMA StoreType ==
  ASSUME NEW p \in Runs, Typed, NEW t \in Text, Store(p, t)
  PROVE  /\ text' \in [Files -> Text] /\ text'[opened[p]] = t
         /\ alone' \in [Runs -> BOOLEAN] /\ alone'[p] = alone[p]
<1>1. opened[p] \in Files
  BY DEF Typed
<1> QED
  BY <1>1, MeddleType DEF Store, Typed

(* The texts the steps write.                                              *)
LEMMA WrittenText ==
  ASSUME Typed, Knows, NEW p \in Runs
  PROVE  /\ pc[p] = "fill" =>
              /\ Over(text[p], 0, wanted[p]) \in Text
              /\ \A words \in Prefixes(wanted[p]) : Over(text[p], 0, words) \in Text
         /\ pc[p] \in Rewriting =>
              /\ from(p) \in Nat /\ from(p) <= Len(raw[p]) /\ from(p) <= Len(wanted[p])
              /\ Rest(p, wanted[p]) \in Text /\ Rest(p, raw[p]) \in Text
              /\ Over(text[opened[p]], from(p), Rest(p, wanted[p])) \in Text
              /\ Over(text[opened[p]], from(p), Rest(p, raw[p])) \in Text
              /\ \A words \in Prefixes(Rest(p, wanted[p])) \cup Prefixes(Rest(p, raw[p])) :
                   words \in Text /\ Over(text[opened[p]], from(p), words) \in Text
              /\ Cut(text[opened[p]], Len(wanted[p])) \in Text
              /\ Cut(text[opened[p]], Len(raw[p])) \in Text
<1>1. text[opened[p]] \in Text /\ text[p] \in Text
  BY DEF Typed, Files
<1>2. ASSUME pc[p] = "fill"
      PROVE  /\ Over(text[p], 0, wanted[p]) \in Text
             /\ \A words \in Prefixes(wanted[p]) : Over(text[p], 0, words) \in Text
  <2>1. wanted[p] \in Text
    BY <1>2 DEF Knows, KnowsAt, Creating
  <2> QED
    BY <1>1, <2>1, PrefixText, OverText
<1>3. ASSUME pc[p] \in Rewriting
      PROVE  /\ from(p) \in Nat /\ from(p) <= Len(raw[p]) /\ from(p) <= Len(wanted[p])
             /\ Rest(p, wanted[p]) \in Text /\ Rest(p, raw[p]) \in Text
             /\ Over(text[opened[p]], from(p), Rest(p, wanted[p])) \in Text
             /\ Over(text[opened[p]], from(p), Rest(p, raw[p])) \in Text
             /\ \A words \in Prefixes(Rest(p, wanted[p])) \cup Prefixes(Rest(p, raw[p])) :
                  words \in Text /\ Over(text[opened[p]], from(p), words) \in Text
             /\ Cut(text[opened[p]], Len(wanted[p])) \in Text
             /\ Cut(text[opened[p]], Len(raw[p])) \in Text
  <2>1. raw[p] \in Text /\ wanted[p] \in Text
    BY <1>3 DEF Knows, KnowsAt
  <2>2. Len(raw[p]) \in Nat /\ Len(wanted[p]) \in Nat
    BY <2>1, TextProperties
  <2>3. from(p) \in Nat /\ from(p) <= Len(raw[p]) /\ from(p) <= Len(wanted[p])
    BY <2>2 DEF from, IsPrefix
  <2>4. Rest(p, wanted[p]) \in Text /\ Rest(p, raw[p]) \in Text
    BY <2>1, <2>2, <2>3, SubText DEF Rest
  <2>5. \A words \in Prefixes(Rest(p, wanted[p])) \cup Prefixes(Rest(p, raw[p])) : words \in Text
    BY <2>4, PrefixText
  <2>6. \A words \in Text : Over(text[opened[p]], from(p), words) \in Text
    BY <1>1, <2>3, OverText
  <2>7. /\ Cut(text[opened[p]], Len(wanted[p])) \in Text
        /\ Cut(text[opened[p]], Len(raw[p])) \in Text
    BY <1>1, <2>2, CutText
  <2> QED
    BY <2>3, <2>4, <2>5, <2>6, <2>7
<1> QED
  BY <1>2, <1>3

(* A run's own step keeps the types and what it knows.                     *)
LEMMA OwnStep ==
  ASSUME Typed, Knows, StartupAssumption, NEW p \in Runs, Run(p)
  PROVE  Typed' /\ KnowsAt(p)'
<1> USE DEF Goto, Tell, plan, path, Steps
<1>0. /\ Absent \notin Text /\ Absent \notin Files /\ p \in Files
      /\ KnowsAt(p)
  BY DEF StartupAssumption, Files, Knows
<1>1. CASE Start(p)
  BY <1>0, <1>1 DEF Start, Typed, KnowsAt, Creating, Rewriting
<1>2. CASE ReadFails(p)
  BY <1>0, <1>2 DEF ReadFails, Typed, KnowsAt, Creating, Rewriting
<1>3. CASE FindNone(p)
  <2>1. ownFile \in Text /\ appendBlock(<<>>) \in Text
    BY BlockText, AppendedText
  <2>2. CASE op[p] = "remove"
    BY <1>0, <1>3, <2>2 DEF FindNone, Looks, File, Typed, KnowsAt, Creating, Rewriting
  <2>3. CASE op[p] # "remove"
    <3> DEFINE w == IF kind = "file" THEN ownFile ELSE appendBlock(<<>>)
    <3>1. w \in Text
      BY <2>1
    <3>2. /\ raw' = [raw EXCEPT ![p] = Absent] /\ wanted' = [wanted EXCEPT ![p] = w]
          /\ pc' = [pc EXCEPT ![p] = "create"] /\ alone' = [alone EXCEPT ![p] = TRUE]
          /\ UNCHANGED <<at, text, kind, said, op, opened, told>> /\ pc[p] = "read"
      BY <1>3, <2>3 DEF FindNone, Looks, File
    <3> HIDE DEF w
    <3> QED
      BY <1>0, <3>1, <3>2 DEF Typed, KnowsAt, Creating, Rewriting
  <2> QED
    BY <2>2, <2>3
<1>4. CASE FindOther(p)
  <2>1. File = text[at] /\ File \in Text
    BY <1>4 DEF FindOther, File, Typed
  <2> QED
    BY <1>0, <1>4, <2>1 DEF FindOther, Looks, Typed, KnowsAt, Creating, Rewriting
<1>5. CASE FindSo(p)
  <2>1. File = text[at] /\ File \in Text
    BY <1>5 DEF FindSo, File, Typed
  <2> QED
    BY <1>0, <1>5, <2>1 DEF FindSo, Looks, Typed, KnowsAt, Creating, Rewriting
<1>6. CASE FindWork(p)
  <2> DEFINE w == Outcome(op[p], text[at])
             step == IF w = Absent THEN "delete" ELSE "open"
  <2>1. File = text[at] /\ File \in Text /\ op[p] \in {"install", "remove"}
    BY <1>6 DEF FindWork, File, Typed
  <2>2. w \in Text \cup {Absent} /\ w # File
    BY <1>6, <2>1, OutcomeIsOther DEF FindWork
  <2>3. /\ raw' = [raw EXCEPT ![p] = File] /\ wanted' = [wanted EXCEPT ![p] = w]
        /\ pc' = [pc EXCEPT ![p] = step] /\ alone' = [alone EXCEPT ![p] = TRUE]
        /\ UNCHANGED <<at, text, kind, said, op, opened, told>> /\ pc[p] = "read"
    BY <1>6 DEF FindWork, Looks
  <2> HIDE DEF w
  <2> QED
    BY <1>0, <2>1, <2>2, <2>3 DEF Typed, KnowsAt, Creating, Rewriting
<1>7. CASE Create(p)
  BY <1>0, <1>7, MeddleType DEF Create, Typed, KnowsAt, Creating, Rewriting
<1>8. CASE Fill(p)
  <2>1. PICK t \in Text : Store(p, t)
    BY <1>8, WrittenText DEF Fill
  <2>2. /\ pc[p] = "fill" /\ (Tell(p, "changed") \/ (Goto(p, "uncreate") /\ UNCHANGED told))
        /\ UNCHANGED <<kind, said, plan, opened>>
    BY <1>8 DEF Fill
  <2>3. text' \in [Files -> Text] /\ alone' \in [Runs -> BOOLEAN] /\ alone'[p] = alone[p] /\ UNCHANGED at
    BY <2>1, StoreType DEF Store
  <2> QED
    BY <1>0, <2>2, <2>3 DEF Typed, KnowsAt, Creating, Rewriting
<1>9. CASE Uncreate(p)
  <2>1. /\ at' \in Files \cup {Absent} /\ alone' \in [Runs -> BOOLEAN] /\ alone'[p] = alone[p]
        /\ pc[p] = "uncreate"
    BY <1>9, MeddleType DEF Uncreate, Typed
  <2>2. /\ \E step \in {"done", "left"} : pc' = [pc EXCEPT ![p] = step]
        /\ told' = [told EXCEPT ![p] = "failed"]
        /\ UNCHANGED <<text, kind, said, plan, opened>>
    BY <1>9 DEF Uncreate
  <2>3. Typed'
    BY <2>1, <2>2 DEF Typed
  <2>4. /\ pc'[p] \in {"done", "left"} /\ told'[p] = "failed"
        /\ raw'[p] = raw[p] /\ wanted'[p] = wanted[p]
    BY <2>2 DEF Typed
  <2> QED
    BY <2>3, <2>4 DEF KnowsAt, Creating, Rewriting
<1>10. CASE Open(p)
  BY <1>0, <1>10 DEF Open, Typed, KnowsAt, Creating, Rewriting
<1>11. CASE WriteAt(p)
  <2>1. PICK t \in Text : Store(p, t)
    BY <1>11, WrittenText DEF WriteAt, Rewriting
  <2>2. /\ pc[p] = "write" /\ (Goto(p, "truncate") \/ Goto(p, "putBack"))
        /\ UNCHANGED <<kind, said, plan, opened, told>>
    BY <1>11 DEF WriteAt
  <2>3. text' \in [Files -> Text] /\ alone' \in [Runs -> BOOLEAN] /\ alone'[p] = alone[p] /\ UNCHANGED at
    BY <2>1, StoreType DEF Store
  <2> QED
    BY <1>0, <2>2, <2>3 DEF Typed, KnowsAt, Creating, Rewriting
<1>12. CASE Truncate(p)
  <2>1. /\ pc[p] = "truncate" /\ UNCHANGED <<kind, said, plan, opened>>
        /\ \/ Tell(p, "changed") \/ Tell(p, "failed") \/ (Goto(p, "putBack") /\ UNCHANGED told)
    BY <1>12 DEF Truncate
  <2>2. text' \in [Files -> Text] /\ alone' \in [Runs -> BOOLEAN] /\ alone'[p] = alone[p] /\ UNCHANGED at
    <3>1. CASE UNCHANGED <<path, alone>>
      BY <3>1 DEF Typed
    <3>2. CASE Store(p, Cut(text[opened[p]], Len(wanted[p])))
      BY <2>1, <3>2, WrittenText, StoreType DEF Store, Rewriting
    <3> QED
      BY <1>12, <3>1, <3>2 DEF Truncate
  <2> QED
    BY <1>0, <2>1, <2>2 DEF Typed, KnowsAt, Creating, Rewriting
<1>13. CASE PutBack(p)
  <2>1. PICK t \in Text : Store(p, t)
    BY <1>13, WrittenText DEF PutBack, Rewriting
  <2>2. /\ pc[p] = "putBack" /\ (Tell(p, "checkByHand") \/ (Goto(p, "cutBack") /\ UNCHANGED told))
        /\ UNCHANGED <<kind, said, plan, opened>>
    BY <1>13 DEF PutBack
  <2>3. text' \in [Files -> Text] /\ alone' \in [Runs -> BOOLEAN] /\ alone'[p] = alone[p] /\ UNCHANGED at
    BY <2>1, StoreType DEF Store
  <2> QED
    BY <1>0, <2>2, <2>3 DEF Typed, KnowsAt, Creating, Rewriting
<1>14. CASE CutBack(p)
  <2>1. /\ pc[p] = "cutBack" /\ UNCHANGED <<kind, said, plan, opened>>
        /\ Tell(p, "checkByHand") \/ Tell(p, "failed")
    BY <1>14 DEF CutBack
  <2>2. text' \in [Files -> Text] /\ alone' \in [Runs -> BOOLEAN] /\ alone'[p] = alone[p] /\ UNCHANGED at
    <3>1. CASE UNCHANGED <<path, alone>>
      BY <3>1 DEF Typed
    <3>2. CASE Store(p, Cut(text[opened[p]], Len(raw[p])))
      BY <2>1, <3>2, WrittenText, StoreType DEF Store, Rewriting
    <3> QED
      BY <1>14, <3>1, <3>2 DEF CutBack
  <2> QED
    BY <1>0, <2>1, <2>2 DEF Typed, KnowsAt, Creating, Rewriting
<1>15. CASE Delete(p)
  BY <1>0, <1>15, MeddleType DEF Delete, Typed, KnowsAt, Creating, Rewriting
<1>16. CASE Kill(p)
  BY <1>0, <1>16 DEF Kill, Typed, KnowsAt, Creating, Rewriting
<1> QED
  BY <1>1, <1>2, <1>3, <1>4, <1>5, <1>6, <1>7, <1>8, <1>9, <1>10, <1>11, <1>12, <1>13, <1>14, <1>15,
     <1>16 DEF Run

(* Somebody else's line keeps them.                                        *)
LEMMA SaidStep ==
  ASSUME Typed, Knows, StartupAssumption, SaySomething
  PROVE  /\ Typed' /\ UNCHANGED <<kind, pc, plan, opened, told>>
         /\ \A p \in Runs : alone'[p] => alone[p] /\ File' = File
<1>1. PICK line \in Said :
        IF at = Absent
        THEN at' = said + 1 /\ text' = [text EXCEPT ![said + 1] = <<line, "nl">>]
        ELSE text' = [text EXCEPT ![at] = text[at] \o <<line, "nl">>] /\ UNCHANGED at
  BY DEF SaySomething
<1>2. <<line, "nl">> \in Text
  <2>1. line \in Words /\ "nl" \in Words
    BY DEF Words, Marks
  <2> QED
    BY <2>1 DEF Text
<1>3. said + 1 \in 1 .. MaxSaid /\ said + 1 \in 0 .. MaxSaid /\ said + 1 \in Files
  BY DEF SaySomething, Typed, StartupAssumption, Files
<1>4. at' \in Files \cup {Absent} /\ text' \in [Files -> Text]
  <2>1. CASE at = Absent
    BY <1>1, <1>2, <1>3, <2>1 DEF Typed
  <2>2. CASE at # Absent
    <3>1. at \in Files /\ text[at] \in Text
      BY <2>2 DEF Typed
    <3>2. text[at] \o <<line, "nl">> \in Text
      BY <1>2, <3>1, JoinText
    <3> QED
      <4>1. text \in [Files -> Text] /\ at \in Files
        BY <3>1 DEF Typed
      <4>2. text' = [text EXCEPT ![at] = text[at] \o <<line, "nl">>] /\ at' = at
        BY <1>1, <2>2
      <4>3. text' \in [Files -> Text]
        <5> DEFINE new == text[at] \o <<line, "nl">>
        <5>1. new \in Text /\ text' = [text EXCEPT ![at] = new]
          BY <3>2, <4>2
        <5> HIDE DEF new
        <5> QED
          BY <4>1, <5>1
      <4> QED
        BY <4>1, <4>2, <4>3
  <2> QED
    BY <2>1, <2>2
<1>5. \A p \in Runs : alone'[p] => alone[p] /\ File' = File
  BY DEF SaySomething, Meddle, Typed
<1>6. alone' \in [Runs -> BOOLEAN]
  BY DEF SaySomething, Meddle, Typed
<1> QED
  BY <1>3, <1>4, <1>5, <1>6 DEF SaySomething, Typed, plan

LEMMA TypedInit ==
  ASSUME StartupAssumption, Init
  PROVE  Typed /\ Knows
<1>1. \A t \in Texts : [f \in Files |-> IF f = Original THEN t ELSE <<>>] \in [Files -> Text]
  BY BlockText DEF StartupAssumption
<1>2. text \in [Files -> Text] /\ at \in Files \cup {Absent} /\ said \in 0 .. MaxSaid
  <2>1. text \in [Files -> Text]
    BY <1>1 DEF Init
  <2>2. at \in Files \cup {Absent} /\ said \in 0 .. MaxSaid
    BY DEF Init, Files, StartupAssumption
  <2> QED
    BY <2>1, <2>2
<1>3. Knows
  BY DEF Init, Knows, KnowsAt, Creating, Rewriting
<1>4. /\ kind \in Kinds /\ pc \in [Runs -> Steps] /\ opened \in [Runs -> Files]
      /\ op \in [Runs -> {"install", "remove"}] /\ alone \in [Runs -> BOOLEAN]
  BY DEF Init, Files, Steps
<1>5. /\ raw \in [Runs -> Text \cup {Absent}] /\ wanted \in [Runs -> Text \cup {Absent}]
      /\ told \in [Runs -> {"nothing", "changed", "unchanged", "notFound", "conflict", "failed",
                            "unreadable", "checkByHand"}]
  BY DEF Init
<1> QED
  BY <1>2, <1>3, <1>4, <1>5 DEF Typed

LEMMA TypedStep ==
  ASSUME Typed, Knows, StartupAssumption, [Next]_vars
  PROVE  Typed' /\ Knows'
<1>1. CASE UNCHANGED vars
  BY <1>1 DEF vars, path, plan, Typed, Knows, KnowsAt
<1>2. ASSUME NEW p \in Runs, Run(p) PROVE Typed' /\ Knows'
  <2>1. Typed' /\ KnowsAt(p)'
    BY <1>2, OwnStep
  <2>2. \A q \in Runs \ {p} : KnowsAt(q)'
    BY <1>2, OthersStay DEF Knows, KnowsAt
  <2> QED
    BY <2>1, <2>2 DEF Knows
<1>3. CASE SaySomething
  BY <1>3, SaidStep DEF Knows, KnowsAt, plan
<1> QED
  BY <1>1, <1>2, <1>3 DEF Next

----------------------------------------------------------------------------
(* What a run alone with the file finds in it at each of its steps.        *)

(* A run's own file is nobody's before it creates it.                      *)
Fresh ==
  \A p \in Runs : pc[p] \in {"idle", "read", "create"} =>
    at # p /\ text[p] = <<>> /\ \A q \in Runs : opened[q] # p

StartsAs(t, s, n) == n <= Len(t) /\ \A i \in 1 .. n : t[i] = s[i]

KeepsAt(p) ==
  alone[p] =>
    /\ pc[p] = "create" => at = Absent
    /\ pc[p] = "fill" => at = p /\ opened[p] = p /\ text[p] = <<>>
    /\ pc[p] = "uncreate" => File \in Prefixes(wanted[p])
    /\ pc[p] = "left" => raw[p] = Absent /\ File \in Prefixes(wanted[p])
    /\ pc[p] \in {"open", "delete"} => File = raw[p]
    /\ pc[p] \in Rewriting \ {"open"} => at = opened[p]
    /\ pc[p] = "write" => File = raw[p]
    /\ pc[p] = "truncate" => StartsAs(File, wanted[p], Len(wanted[p])) /\ StartsAs(File, raw[p], from(p))
    /\ pc[p] = "putBack" => StartsAs(File, raw[p], from(p))
    /\ pc[p] = "cutBack" => StartsAs(File, raw[p], Len(raw[p]))
    /\ pc[p] = "done" =>
         /\ told[p] = "changed" => File = wanted[p]
         /\ told[p] = "failed" => File \in {raw[p], wanted[p]}
         /\ told[p] \notin {"changed", "failed", "checkByHand"} => File = raw[p]

Keeps == \A p \in Runs : KeepsAt(p)

LEMMA FreshStep ==
  ASSUME Typed, Knows, Fresh, StartupAssumption, [Next]_vars
  PROVE  Fresh'
<1> USE DEF Fresh
<1>0. Absent \notin Files /\ Original \notin Runs
  BY DEF StartupAssumption, Files
<1>1. CASE UNCHANGED vars
  BY <1>1 DEF vars, path, plan
<1>2. ASSUME NEW p \in Runs, Run(p) PROVE Fresh'
  <2> SUFFICES ASSUME NEW q \in Runs, pc'[q] \in {"idle", "read", "create"}
               PROVE  at' # q /\ text'[q] = <<>> /\ \A r \in Runs : opened'[r] # q
    OBVIOUS
  <2>1. pc[q] \in {"idle", "read", "create"}
    <3>1. CASE q # p
      BY <1>2, <3>1, OthersStay
    <3>2. CASE q = p
      <4>1. CASE pc[p] \in {"idle", "read", "create"}
        BY <3>2, <4>1
      <4>2. CASE pc[p] \notin {"idle", "read", "create"}
        <5>1. \E step \in {"uncreate", "write", "truncate", "putBack", "cutBack", "done", "left",
                            "killed"} :
                pc' = [pc EXCEPT ![p] = step]
          BY <1>2, <4>2 DEF Run, Start, ReadFails, FindNone, FindOther, FindSo, FindWork, Looks,
             Create, Fill, Uncreate, Open, WriteAt, Truncate, PutBack, CutBack, Delete, Kill, Goto,
             Tell
        <5> QED
          BY <3>2, <5>1 DEF Typed
      <4> QED
        BY <4>1, <4>2
    <3> QED
      BY <3>1, <3>2
  <2>2. at # q /\ text[q] = <<>> /\ \A r \in Runs : opened[r] # q
    BY <2>1
  <2>3. q \in Files /\ q # Absent
    BY <1>0 DEF Files
  <2>4. at' # q
    <3>1. at' \in {at, Absent} \/ (at' = p /\ pc'[p] = "fill")
      BY <1>2 DEF Run, Start, ReadFails, FindNone, FindOther, FindSo, FindWork, Looks, Create, Fill,
         Uncreate, Open, WriteAt, Truncate, PutBack, CutBack, Delete, Kill, Goto, path, Store, Typed
    <3> QED
      BY <2>2, <2>3, <3>1
  <2>5. text'[q] = text[q]
    <3>1. text' = text \/ \E t : text' = [text EXCEPT ![opened[p]] = t]
      BY <1>2 DEF Run, Start, ReadFails, FindNone, FindOther, FindSo, FindWork, Looks, Create, Fill,
         Uncreate, Open, WriteAt, Truncate, PutBack, CutBack, Delete, Kill, path, Store
    <3> QED
      BY <2>2, <2>3, <3>1 DEF Typed
  <2>6. \A r \in Runs : opened'[r] # q
    <3>1. CASE Create(p)
      BY <2>2, <3>1 DEF Create, Goto, Typed
    <3>2. CASE Open(p)
      BY <2>2, <3>2 DEF Open, Typed
    <3>3. CASE ~Create(p) /\ ~Open(p)
      <4>1. opened' = opened
        BY <1>2, <3>3 DEF Run, Start, ReadFails, FindNone, FindOther, FindSo, FindWork, Looks, Fill,
           Uncreate, WriteAt, Truncate, PutBack, CutBack, Delete, Kill
      <4> QED
        BY <2>2, <4>1
    <3> QED
      BY <3>1, <3>2, <3>3
  <2> QED
    BY <2>2, <2>4, <2>5, <2>6
<1>3. CASE SaySomething
  <2> SUFFICES ASSUME NEW q \in Runs, pc'[q] \in {"idle", "read", "create"}
               PROVE  at' # q /\ text'[q] = <<>> /\ \A r \in Runs : opened'[r] # q
    OBVIOUS
  <2>1. UNCHANGED <<pc, opened>>
    BY <1>3, SaidStep
  <2>2. at # q /\ text[q] = <<>> /\ \A r \in Runs : opened[r] # q
    BY <2>1
  <2>3. said + 1 \in Nat /\ q \notin Nat
    BY DEF Typed, StartupAssumption
  <2>4. at' # q /\ text'[q] = text[q]
    <3>1. PICK line \in Said :
            IF at = Absent
            THEN at' = said + 1 /\ text' = [text EXCEPT ![said + 1] = <<line, "nl">>]
            ELSE text' = [text EXCEPT ![at] = text[at] \o <<line, "nl">>] /\ UNCHANGED at
      BY <1>3 DEF SaySomething
    <3>2. q \in Files /\ q # said + 1
      BY <2>3 DEF Files
    <3> QED
      BY <2>2, <3>1, <3>2 DEF Typed
  <2> QED
    BY <2>1, <2>2, <2>4
<1> QED
  BY <1>1, <1>2, <1>3 DEF Next

(* A file that reads the same to everybody is the same file.               *)
LEMMA SameFile ==
  ASSUME Typed, Typed', StartupAssumption, File' = File, at' = at \/ at = Absent \/ at' = Absent
  PROVE  at' = at
  BY DEF Typed, StartupAssumption, File

LEMMA PathMoves ==
  ASSUME [Next]_vars
  PROVE  at' = at \/ at = Absent \/ at' = Absent
<1>1. ASSUME NEW p \in Runs, Run(p) PROVE at' = at \/ at = Absent \/ at' = Absent
  BY <1>1 DEF Run, Start, ReadFails, FindNone, FindOther, FindSo, FindWork, Looks, Create, Fill,
     Uncreate, Open, WriteAt, Truncate, PutBack, CutBack, Delete, Kill, path, Store
<1> QED
  BY <1>1 DEF Next, SaySomething, vars, path

LEMMA KeptByOthers ==
  ASSUME Typed, Typed', StartupAssumption, NEW q \in Runs, KeepsAt(q),
         pc'[q] = pc[q], raw'[q] = raw[q], wanted'[q] = wanted[q], opened'[q] = opened[q],
         told'[q] = told[q], alone'[q] => alone[q] /\ File' = File,
         at' = at \/ at = Absent \/ at' = Absent
  PROVE  KeepsAt(q)'
<1> SUFFICES ASSUME alone'[q] PROVE KeepsAt(q)'
  BY DEF KeepsAt
<1>1. alone[q] /\ File' = File /\ at' = at
  BY SameFile
<1>2. pc[q] = "fill" => text'[q] = text[q]
  <2> SUFFICES ASSUME pc[q] = "fill" PROVE text'[q] = text[q]
    OBVIOUS
  <2>1. at = q /\ q # Absent
    BY <1>1 DEF KeepsAt, StartupAssumption, Files
  <2> QED
    BY <1>1, <2>1 DEF File
<1>3. from(q)' = from(q)
  BY DEF from
<1> QED
  BY <1>1, <1>2, <1>3 DEF KeepsAt

(* Writing the rest of a text over one that starts as it does.             *)
LEMMA RestWritten ==
  ASSUME NEW t \in Text, NEW s \in Text, NEW f \in Nat, f <= Len(s), StartsAs(t, s, f)
  PROVE  /\ Over(t, f, SubSeq(s, f + 1, Len(s))) \in Text
         /\ StartsAs(Over(t, f, SubSeq(s, f + 1, Len(s))), s, Len(s))
<1> DEFINE words == SubSeq(s, f + 1, Len(s))
           u == Over(t, f, words)
<1>1. Len(t) \in Nat /\ Len(s) \in Nat
  BY TextProperties
<1>2. /\ words \in Text /\ Len(words) = Len(s) - f
      /\ \A i \in 1 .. Len(s) - f : words[i] = s[f + i]
  <2>1. \A i \in 1 .. Len(s) - (f + 1) + 1 : words[i] = s[f + 1 + i - 1]
    BY <1>1, SubText
  <2>2. words \in Text /\ Len(words) = IF f + 1 <= Len(s) THEN Len(s) - (f + 1) + 1 ELSE 0
    BY <1>1, SubText
  <2>3. \A i \in 1 .. Len(s) - f : words[i] = s[f + i]
    <3> TAKE i \in 1 .. Len(s) - f
    <3>1. i \in 1 .. Len(s) - (f + 1) + 1 /\ f + 1 + i - 1 = f + i
      BY <1>1
    <3> QED
      BY <2>1, <3>1
  <2> QED
    BY <1>1, <2>2, <2>3
<1> HIDE DEF words
<1>3. /\ u \in Text /\ Len(u) = Longer(Len(t), f + Len(words))
      /\ \A i \in 1 .. f : i <= Len(t) => u[i] = t[i]
      /\ \A i \in f + 1 .. f + Len(words) : u[i] = words[i - f]
  BY <1>2, OverText
<1> HIDE DEF u
<1>4. Len(s) <= Len(u)
  BY <1>1, <1>2, <1>3 DEF Longer
<1>5. \A i \in 1 .. Len(s) : u[i] = s[i]
  <2> TAKE i \in 1 .. Len(s)
  <2>1. CASE i <= f
    <3>1. i \in 1 .. f /\ i <= Len(t)
      BY <1>1, <2>1 DEF StartsAs
    <3> QED
      BY <1>3, <3>1 DEF StartsAs
  <2>2. CASE ~(i <= f)
    <3>1. i \in f + 1 .. f + Len(words) /\ i - f \in 1 .. Len(s) - f /\ f + (i - f) = i
      BY <1>1, <1>2, <2>2
    <3>2. u[i] = words[i - f]
      BY <1>3, <3>1
    <3>3. words[i - f] = s[i]
      BY <1>2, <3>1
    <3> QED
      BY <3>2, <3>3
  <2> QED
    BY <2>1, <2>2
<1> QED
  BY <1>3, <1>4, <1>5 DEF StartsAs, u, words

LEMMA CutToSize ==
  ASSUME NEW t \in Text, NEW s \in Text, StartsAs(t, s, Len(s))
  PROVE  Cut(t, Len(s)) = s
<1>1. Len(s) \in Nat /\ Len(t) \in Nat
  BY TextProperties
<1>2. /\ Cut(t, Len(s)) \in Text /\ Len(Cut(t, Len(s))) = Len(s)
      /\ \A i \in 1 .. Len(s) : i <= Len(t) => Cut(t, Len(s))[i] = t[i]
  BY <1>1, CutText
<1>3. \A i \in 1 .. Len(s) : Cut(t, Len(s))[i] = s[i]
  BY <1>1, <1>2 DEF StartsAs
<1> QED
  BY <1>2, <1>3, SameText

LEMMA WholeSub ==
  ASSUME NEW t \in Text
  PROVE  SubSeq(t, 1, Len(t)) = t
<1>1. Len(t) \in Nat
  BY TextProperties
<1>2. /\ SubSeq(t, 1, Len(t)) \in Text
      /\ Len(SubSeq(t, 1, Len(t))) = IF 1 <= Len(t) THEN Len(t) - 1 + 1 ELSE 0
      /\ \A i \in 1 .. Len(t) - 1 + 1 : SubSeq(t, 1, Len(t))[i] = t[1 + i - 1]
  BY <1>1, SubText
<1>3. Len(SubSeq(t, 1, Len(t))) = Len(t) /\ \A i \in 1 .. Len(t) : SubSeq(t, 1, Len(t))[i] = t[i]
  BY <1>1, <1>2
<1> QED
  BY <1>2, <1>3, SameText

LEMMA FilledText ==
  ASSUME NEW s \in Text
  PROVE  Over(<<>>, 0, s) = s
<1>1. Len(s) \in Nat
  BY TextProperties
<1>2. /\ Over(<<>>, 0, s) \in Text /\ Len(Over(<<>>, 0, s)) = Longer(Len(<<>>), 0 + Len(s))
      /\ \A i \in 0 + 1 .. 0 + Len(s) : Over(<<>>, 0, s)[i] = s[i - 0]
  <2>1. <<>> \in Text /\ 0 \in Nat
    BY BlockText
  <2> QED
    BY <2>1, OverText
<1>3. Len(Over(<<>>, 0, s)) = Len(s)
  BY <1>1, <1>2, BlockText DEF Longer
<1>4. \A i \in 1 .. Len(s) : Over(<<>>, 0, s)[i] = s[i]
  <2> TAKE i \in 1 .. Len(s)
  <2>1. i \in 0 + 1 .. 0 + Len(s) /\ i - 0 = i
    BY <1>1
  <2> QED
    BY <1>2, <2>1
<1> QED
  BY <1>2, <1>3, <1>4, SameText

(* The text where the rewriting starts is what both texts start with.      *)
LEMMA SameStart ==
  ASSUME Typed, Knows, NEW p \in Runs, pc[p] \in Rewriting
  PROVE  /\ from(p) \in Nat /\ from(p) <= Len(raw[p]) /\ from(p) <= Len(wanted[p])
         /\ StartsAs(raw[p], raw[p], from(p)) /\ StartsAs(raw[p], wanted[p], from(p))
<1>1. from(p) \in Nat /\ from(p) <= Len(raw[p]) /\ from(p) <= Len(wanted[p])
  BY WrittenText
<1>2. raw[p] \in Text /\ wanted[p] \in Text
  BY DEF Knows, KnowsAt
<1>3. Len(raw[p]) \in Nat /\ Len(wanted[p]) \in Nat
  BY <1>2, TextProperties
<1>4. \A i \in 1 .. from(p) : raw[p][i] = wanted[p][i]
  <2>1. CASE IsPrefix(raw[p], wanted[p])
    <3> DEFINE r == raw[p]
               w == wanted[p]
    <3>1. /\ \A i \in 1 .. Len(r) - 1 + 1 : SubSeq(r, 1, Len(r))[i] = r[1 + i - 1]
          /\ \A i \in 1 .. Len(r) - 1 + 1 : SubSeq(w, 1, Len(r))[i] = w[1 + i - 1]
      BY <1>2, <1>3, <2>1, SubText DEF IsPrefix
    <3>2. SubSeq(r, 1, Len(r)) = SubSeq(w, 1, Len(r))
      BY <2>1 DEF IsPrefix
    <3>3. \A i \in 1 .. Len(r) : r[i] = w[i]
      <4> HIDE DEF r, w
      <4> TAKE i \in 1 .. Len(r)
      <4>1. i \in 1 .. Len(r) - 1 + 1 /\ 1 + i - 1 = i
        BY <1>3 DEF r
      <4> QED
        BY <3>1, <3>2, <4>1
    <3> QED
      BY <2>1, <3>3 DEF from
  <2>2. CASE ~IsPrefix(raw[p], wanted[p])
    BY <2>2 DEF from
  <2> QED
    BY <2>1, <2>2
<1> QED
  BY <1>1, <1>3, <1>4 DEF StartsAs

LEMMA KeptByItself ==
  ASSUME Typed, Knows, Fresh, StartupAssumption, NEW p \in Runs, KeepsAt(p), Run(p), Typed'
  PROVE  KeepsAt(p)'
<1> SUFFICES ASSUME alone'[p] PROVE KeepsAt(p)'
  BY DEF KeepsAt
<1> USE DEF Goto, Tell, plan, path
<1>0. /\ Absent \notin Text /\ Absent \notin Files /\ p \in Files
      /\ KnowsAt(p)
  BY DEF StartupAssumption, Files, Knows
<1>a. ASSUME pc'[p] = "killed" PROVE KeepsAt(p)'
  BY <1>a DEF KeepsAt, Rewriting
<1>b. ASSUME UNCHANGED <<at, text>> PROVE File' = File
  BY <1>b DEF File
(* A write goes to the path when the run is alone.                         *)
<1>c. ASSUME NEW t \in Text, Store(p, t), pc[p] \in Rewriting \ {"open"}
      PROVE  alone[p] /\ at = opened[p] /\ at' = at /\ File = text[opened[p]] /\ File' = t
  <2>1. alone[p] /\ text'[opened[p]] = t /\ at' = at
    BY <1>c, StoreType DEF Store
  <2>2. at = opened[p] /\ at # Absent
    BY <1>0, <1>c, <2>1 DEF KeepsAt, Typed
  <2> QED
    BY <2>1, <2>2 DEF File
<1>1. CASE Start(p)
  BY <1>0, <1>1 DEF Start, KnowsAt, Typed
<1>2. CASE ReadFails(p)
  BY <1>0, <1>2 DEF ReadFails, KnowsAt, Typed
<1>3. CASE FindNone(p)
  <2>1. /\ at' = Absent /\ File' = Absent /\ raw'[p] = Absent
        /\ pc'[p] = "create" \/ (pc'[p] = "done" /\ told'[p] = "notFound")
    BY <1>3 DEF FindNone, Looks, File, Typed
  <2> QED
    BY <2>1 DEF KeepsAt, Rewriting
<1>4. CASE FindOther(p) \/ FindSo(p)
  <2>1. /\ File' = raw'[p] /\ pc'[p] = "done"
        /\ told'[p] \in {"conflict", "unchanged", "notFound"}
    BY <1>b, <1>4 DEF FindOther, FindSo, Looks, Typed
  <2> QED
    BY <2>1 DEF KeepsAt, Rewriting
<1>5. CASE FindWork(p)
  <2>1. File' = raw'[p] /\ pc'[p] \in {"delete", "open"}
    BY <1>b, <1>5 DEF FindWork, Looks, Typed
  <2> QED
    BY <2>1 DEF KeepsAt, Rewriting
<1>6. CASE Create(p)
  <2>1. CASE at' = p /\ opened' = [opened EXCEPT ![p] = p] /\ UNCHANGED text /\ Goto(p, "fill")
    <3>1. at' = p /\ opened'[p] = p /\ text'[p] = <<>> /\ pc'[p] = "fill"
      BY <1>6, <2>1 DEF Create, Fresh, Typed
    <3> QED
      BY <3>1 DEF KeepsAt, Rewriting
  <2>2. CASE Tell(p, "failed") /\ UNCHANGED <<path, opened, alone>>
    <3>1. pc'[p] = "done" /\ told'[p] = "failed" /\ alone[p] /\ File' = File /\ raw'[p] = raw[p]
      BY <1>b, <1>6, <2>2 DEF Create, Typed
    <3>2. File = Absent /\ raw[p] = Absent
      BY <1>0, <1>6, <3>1 DEF Create, KeepsAt, KnowsAt, Creating, File
    <3> QED
      BY <3>1, <3>2 DEF KeepsAt, Rewriting
  <2> QED
    BY <1>6, <2>1, <2>2 DEF Create
<1>7. CASE Fill(p)
  <2>1. alone[p] /\ pc[p] = "fill"
    BY <1>7, MeddleType DEF Fill, Store
  <2>2. at = p /\ opened[p] = p /\ text[p] = <<>> /\ wanted[p] \in Text
    BY <1>0, <2>1 DEF KeepsAt, KnowsAt, Creating
  <2>3. CASE Store(p, Over(text[p], 0, wanted[p])) /\ Tell(p, "changed")
    <3>1. text'[p] = wanted[p] /\ at' = p
      BY <1>0, <2>2, <2>3, FilledText DEF Store, Typed
    <3>2. File' = wanted'[p] /\ pc'[p] = "done" /\ told'[p] = "changed"
      BY <1>0, <1>7, <2>3, <3>1 DEF Fill, File, Typed
    <3> QED
      BY <3>2 DEF KeepsAt, Rewriting
  <2>4. CASE Goto(p, "uncreate")
    <3>1. ASSUME NEW words \in Prefixes(wanted[p]), Store(p, Over(text[p], 0, words))
          PROVE  File' \in Prefixes(wanted[p])
      <4>1. words \in Text /\ Over(text[p], 0, words) = words
        BY <2>2, <3>1, PrefixText, FilledText
      <4>2. text'[p] = words /\ at' = p
        BY <1>0, <2>2, <3>1, <4>1 DEF Store, Typed
      <4> QED
        BY <1>0, <3>1, <4>2 DEF File
    <3>2. wanted[p] \in Prefixes(wanted[p])
      <4>1. Len(wanted[p]) \in 0 .. Len(wanted[p])
        BY <2>2, TextProperties
      <4> QED
        BY <2>2, <4>1, WholeSub DEF Prefixes
    <3>3. File' \in Prefixes(wanted[p]) /\ wanted' = wanted
      BY <1>7, <3>1, <3>2 DEF Fill
    <3> QED
      BY <2>4, <3>3 DEF KeepsAt, Rewriting, Typed
  <2> QED
    BY <1>7, <2>3, <2>4 DEF Fill
<1>8. CASE Uncreate(p)
  <2>1. raw'[p] = Absent /\ wanted' = wanted /\ told'[p] = "failed"
    BY <1>0, <1>8 DEF Uncreate, KnowsAt, Creating, Typed
  <2>2. CASE at' = Absent /\ Goto(p, "done")
    <3>1. File' = Absent /\ pc'[p] = "done"
      BY <2>2 DEF File, Typed
    <3> QED
      BY <2>1, <3>1 DEF KeepsAt, Rewriting
  <2>3. CASE Goto(p, "left") /\ UNCHANGED <<at, alone>>
    <3>1. alone[p] /\ pc[p] = "uncreate" /\ pc'[p] = "left"
      BY <1>8, <2>3 DEF Uncreate, Typed
    <3>2. File' = File
      BY <1>b, <1>8, <2>3 DEF Uncreate
    <3>3. File' \in Prefixes(wanted'[p])
      BY <2>1, <3>1, <3>2 DEF KeepsAt
    <3> QED
      BY <2>1, <3>1, <3>3 DEF KeepsAt, Rewriting
  <2> QED
    BY <1>8, <2>2, <2>3 DEF Uncreate
<1>9. CASE Open(p)
  <2>1. alone[p] /\ File' = File /\ File = raw[p] /\ raw'[p] = raw[p]
    BY <1>b, <1>9 DEF Open, KeepsAt
  <2>2. \/ pc'[p] = "write" /\ at' = opened'[p]
        \/ pc'[p] = "done" /\ told'[p] = "failed"
    BY <1>9 DEF Open, Typed
  <2> QED
    BY <2>1, <2>2 DEF KeepsAt, Rewriting
<1>10. CASE WriteAt(p)
  <2>0. pc[p] = "write" /\ pc[p] \in Rewriting \ {"open"} /\ UNCHANGED <<raw, wanted, opened>>
    BY <1>10 DEF WriteAt, Rewriting
  <2>1. raw[p] \in Text /\ wanted[p] \in Text /\ from(p)' = from(p)
    BY <1>0, <2>0 DEF KnowsAt, from
  <2>2. /\ from(p) \in Nat /\ from(p) <= Len(wanted[p]) /\ from(p) <= Len(raw[p])
        /\ StartsAs(raw[p], raw[p], from(p)) /\ StartsAs(raw[p], wanted[p], from(p))
    BY <2>0, SameStart
  <2>3. Len(raw[p]) \in Nat /\ Len(wanted[p]) \in Nat
    BY <2>1, TextProperties
  <2>4. ASSUME NEW words \in Text, Store(p, Over(text[opened[p]], from(p), words)),
               Over(text[opened[p]], from(p), words) \in Text
        PROVE  /\ at' = opened'[p] /\ File' = Over(raw[p], from(p), words)
               /\ StartsAs(File', raw[p], from(p))
    <3>1. alone[p] /\ at = opened[p] /\ at' = at /\ File = text[opened[p]]
          /\ File' = Over(text[opened[p]], from(p), words)
      BY <1>c, <2>0, <2>4
    <3>2. File = raw[p]
      BY <2>0, <3>1 DEF KeepsAt
    <3>3. File' = Over(raw[p], from(p), words)
      BY <3>1, <3>2
    <3> DEFINE u == Over(raw[p], from(p), words)
    <3>4. /\ u \in Text /\ Len(u) = Longer(Len(raw[p]), from(p) + Len(words))
          /\ \A i \in 1 .. from(p) : i <= Len(raw[p]) => u[i] = raw[p][i]
      <4>1. raw[p] \in Text /\ from(p) \in Nat
        BY <2>1, <2>2
      <4> QED
        <5> DEFINE t == raw[p]
                   f == from(p)
        <5>1. t \in Text /\ f \in Nat
          BY <4>1
        <5> HIDE DEF t, f
        <5>2. /\ Over(t, f, words) \in Text
              /\ Len(Over(t, f, words)) = Longer(Len(t), f + Len(words))
              /\ \A i \in 1 .. f : i <= Len(t) => Over(t, f, words)[i] = t[i]
          BY <5>1, OverLength, OverHead
        <5> QED
          BY <5>2 DEF t, f
    <3> HIDE DEF u
    <3>5. Len(words) \in Nat
      BY TextProperties
    <3>6. from(p) <= Len(u)
      BY <2>2, <2>3, <3>4, <3>5 DEF Longer
    <3>7. StartsAs(u, raw[p], from(p))
      BY <2>2, <2>3, <3>4, <3>6 DEF StartsAs
    <3> QED
      BY <2>0, <3>1, <3>3, <3>7 DEF u
  <2>5. CASE Store(p, Over(text[opened[p]], from(p), Rest(p, wanted[p]))) /\ Goto(p, "truncate")
    <3>1. /\ Rest(p, wanted[p]) \in Text
          /\ Over(text[opened[p]], from(p), Rest(p, wanted[p])) \in Text
      BY <2>0, WrittenText
    <3>2. /\ at' = opened'[p] /\ File' = Over(raw[p], from(p), Rest(p, wanted[p]))
          /\ StartsAs(File', raw[p], from(p))
      BY <2>4, <2>5, <3>1
    <3>3. StartsAs(File', wanted[p], Len(wanted[p]))
      BY <2>1, <2>2, <3>2, RestWritten DEF Rest
    <3>4. pc'[p] = "truncate"
      BY <2>5 DEF Typed
    <3> QED
      BY <2>0, <2>1, <3>2, <3>3, <3>4 DEF KeepsAt, Rewriting
  <2>6. CASE /\ \E words \in Prefixes(Rest(p, wanted[p])) :
                  Store(p, Over(text[opened[p]], from(p), words))
             /\ Goto(p, "putBack")
    <3>1. PICK words \in Prefixes(Rest(p, wanted[p])) :
            Store(p, Over(text[opened[p]], from(p), words))
      BY <2>6
    <3>2. words \in Text /\ Over(text[opened[p]], from(p), words) \in Text
      BY <2>0, WrittenText
    <3>3. at' = opened'[p] /\ StartsAs(File', raw[p], from(p))
      BY <2>4, <3>1, <3>2
    <3>4. pc'[p] = "putBack"
      BY <2>6 DEF Typed
    <3> QED
      BY <2>0, <2>1, <3>3, <3>4 DEF KeepsAt, Rewriting
  <2> QED
    BY <1>10, <2>5, <2>6 DEF WriteAt
<1>11. CASE Truncate(p)
  <2>0. pc[p] = "truncate" /\ pc[p] \in Rewriting \ {"open"} /\ UNCHANGED <<raw, wanted, opened>>
    BY <1>11 DEF Truncate, Rewriting
  <2>1. raw[p] \in Text /\ wanted[p] \in Text /\ from(p)' = from(p)
    BY <1>0, <2>0 DEF KnowsAt, from
  <2>2. CASE Store(p, Cut(text[opened[p]], Len(wanted[p]))) /\ (Tell(p, "changed") \/ Tell(p, "failed"))
    <3>1. Cut(text[opened[p]], Len(wanted[p])) \in Text
      BY <2>0, WrittenText
    <3>2. alone[p] /\ File = text[opened[p]] /\ File' = Cut(File, Len(wanted[p]))
      BY <1>c, <2>0, <2>2, <3>1
    <3>3. StartsAs(File, wanted[p], Len(wanted[p])) /\ File \in Text
      BY <2>0, <3>2 DEF KeepsAt, Typed
    <3>4. File' = wanted'[p]
      BY <2>0, <2>1, <3>2, <3>3, CutToSize
    <3>5. pc'[p] = "done" /\ told'[p] \in {"changed", "failed"}
      BY <2>2 DEF Typed
    <3> QED
      BY <3>4, <3>5 DEF KeepsAt, Rewriting
  <2>3. CASE Goto(p, "putBack") /\ UNCHANGED <<path, told, alone>>
    <3>1. pc'[p] = "putBack" /\ File' = File /\ at' = at /\ alone[p]
      BY <1>b, <2>3 DEF Typed
    <3> QED
      BY <2>0, <2>1, <3>1 DEF KeepsAt, Rewriting
  <2> QED
    BY <1>11, <2>2, <2>3 DEF Truncate
<1>12. CASE PutBack(p)
  <2>0. pc[p] = "putBack" /\ pc[p] \in Rewriting \ {"open"} /\ UNCHANGED <<raw, wanted, opened>>
    BY <1>12 DEF PutBack, Rewriting
  <2>1. raw[p] \in Text /\ wanted[p] \in Text
    BY <1>0, <2>0 DEF KnowsAt
  <2>2. CASE Store(p, Over(text[opened[p]], from(p), Rest(p, raw[p]))) /\ Goto(p, "cutBack")
    <3>1. Over(text[opened[p]], from(p), Rest(p, raw[p])) \in Text
          /\ from(p) \in Nat /\ from(p) <= Len(raw[p])
      BY <2>0, WrittenText
    <3>2. /\ alone[p] /\ File = text[opened[p]] /\ at' = opened'[p]
          /\ File' = Over(File, from(p), Rest(p, raw[p]))
      BY <1>c, <2>0, <2>2, <3>1
    <3>3. StartsAs(File, raw[p], from(p)) /\ File \in Text
      BY <2>0, <3>2 DEF KeepsAt, Typed
    <3>4. StartsAs(File', raw[p], Len(raw[p]))
      BY <2>1, <3>1, <3>2, <3>3, RestWritten DEF Rest
    <3>5. pc'[p] = "cutBack"
      BY <2>2 DEF Typed
    <3> QED
      BY <2>0, <3>2, <3>4, <3>5 DEF KeepsAt, Rewriting
  <2>3. CASE Tell(p, "checkByHand")
    <3>1. pc'[p] = "done" /\ told'[p] = "checkByHand"
      BY <2>3 DEF Typed
    <3> QED
      BY <3>1 DEF KeepsAt, Rewriting
  <2> QED
    BY <1>12, <2>2, <2>3 DEF PutBack
<1>13. CASE CutBack(p)
  <2>0. pc[p] = "cutBack" /\ pc[p] \in Rewriting \ {"open"} /\ UNCHANGED <<raw, wanted, opened>>
    BY <1>13 DEF CutBack, Rewriting
  <2>1. raw[p] \in Text
    BY <1>0, <2>0 DEF KnowsAt
  <2>2. CASE Store(p, Cut(text[opened[p]], Len(raw[p]))) /\ Tell(p, "failed")
    <3>1. Cut(text[opened[p]], Len(raw[p])) \in Text
      BY <2>0, WrittenText
    <3>2. alone[p] /\ File = text[opened[p]] /\ File' = Cut(File, Len(raw[p]))
      BY <1>c, <2>0, <2>2, <3>1
    <3>3. StartsAs(File, raw[p], Len(raw[p])) /\ File \in Text
      BY <2>0, <3>2 DEF KeepsAt, Typed
    <3>4. File' = raw'[p]
      BY <2>0, <2>1, <3>2, <3>3, CutToSize
    <3>5. pc'[p] = "done" /\ told'[p] = "failed"
      BY <2>2 DEF Typed
    <3> QED
      BY <3>4, <3>5 DEF KeepsAt, Rewriting
  <2>3. CASE Tell(p, "checkByHand")
    <3>1. pc'[p] = "done" /\ told'[p] = "checkByHand"
      BY <2>3 DEF Typed
    <3> QED
      BY <3>1 DEF KeepsAt, Rewriting
  <2> QED
    BY <1>13, <2>2, <2>3 DEF CutBack
<1>14. CASE Delete(p)
  <2>0. pc[p] = "delete" /\ wanted[p] = Absent /\ UNCHANGED <<text, raw, wanted>>
    BY <1>0, <1>14 DEF Delete, KnowsAt
  <2>1. CASE at' = Absent /\ Tell(p, "changed")
    <3>1. File' = wanted'[p] /\ pc'[p] = "done" /\ told'[p] = "changed"
      BY <2>0, <2>1 DEF File, Typed
    <3> QED
      BY <3>1 DEF KeepsAt, Rewriting
  <2>2. CASE Tell(p, "failed") /\ UNCHANGED <<at, alone>>
    <3>1. File' = raw'[p] /\ pc'[p] = "done" /\ told'[p] = "failed"
      BY <1>b, <2>0, <2>2 DEF KeepsAt, Typed
    <3> QED
      BY <3>1 DEF KeepsAt, Rewriting
  <2> QED
    BY <1>14, <2>1, <2>2 DEF Delete
<1>15. CASE Kill(p)
  BY <1>a, <1>15 DEF Kill, Typed
<1> QED
  BY <1>1, <1>2, <1>3, <1>4, <1>5, <1>6, <1>7, <1>8, <1>9, <1>10, <1>11, <1>12, <1>13, <1>14, <1>15
     DEF Run

LEMMA KeepsStep ==
  ASSUME Typed, Knows, Fresh, Keeps, StartupAssumption, [Next]_vars
  PROVE  Keeps'
<1>0. Typed'
  BY TypedStep
<1>1. CASE UNCHANGED vars
  BY <1>1 DEF vars, path, plan, Keeps, KeepsAt, from, File
<1>2. ASSUME NEW p \in Runs, Run(p) PROVE Keeps'
  <2>1. KeepsAt(p)'
    BY <1>0, <1>2, KeptByItself DEF Keeps
  <2>2. \A q \in Runs \ {p} : KeepsAt(q)'
    BY <1>0, <1>2, OthersStay, KeptByOthers, PathMoves DEF Keeps
  <2> QED
    BY <2>1, <2>2 DEF Keeps
<1>3. CASE SaySomething
  BY <1>0, <1>3, SaidStep, KeptByOthers, PathMoves DEF Keeps, plan
<1> QED
  BY <1>1, <1>2, <1>3 DEF Next

----------------------------------------------------------------------------
(* The theorems.                                                           *)

(* Every variable has its type, and a run that changes the file leaves it  *)
(* other than it was (installBlock, removeBlock).                          *)
THEOREM Types == Spec => []TypeOK
<1>1. Init => Typed /\ Knows
  BY StartupAssumption, TypedInit
<1>2. Typed /\ Knows /\ [Next]_vars => (Typed /\ Knows)'
  BY StartupAssumption, TypedStep
<1>3. Typed /\ Knows => TypeOK
  BY DEF Typed, Knows, KnowsAt, TypeOK
<1> QED
  BY <1>1, <1>2, <1>3, PTL DEF Spec

(* While nobody else changes the file, a run leaves what it set out to     *)
(* leave, or what was there, or says to check by hand (rewriteFile), or,   *)
(* where there was no file, the start of one that it could neither fill nor*)
(* take out again (createFile).                                            *)
THEOREM LeavesItWhole == Spec => []WholeOrAsItWas
<1> DEFINE IInv == Typed /\ Knows /\ Fresh /\ Keeps
<1>1. Init => IInv
  <2>1. ASSUME Init PROVE Fresh /\ Keeps
    <3>1. ASSUME NEW p \in Runs PROVE p # Original /\ p # Absent /\ p \in Files
      BY StartupAssumption DEF StartupAssumption, Files
    <3> QED
      BY <2>1, <3>1, StartupAssumption DEF Init, Fresh, Keeps, KeepsAt
  <2> QED
    BY <2>1, StartupAssumption, TypedInit
<1>2. IInv /\ [Next]_vars => IInv'
  BY StartupAssumption, TypedStep, FreshStep, KeepsStep
<1>3. IInv => WholeOrAsItWas
  BY DEF Keeps, KeepsAt, WholeOrAsItWas
<1> QED
  BY <1>1, <1>2, <1>3, PTL DEF Spec

----------------------------------------------------------------------------
(* What an install adds comes out again.                                   *)

IsLine(t, marker, i) ==
  t[i] = marker /\ (i = 1 \/ t[i - 1] = "nl") /\ (i = Len(t) \/ t[i + 1] = "nl")

LEMMA MarkerAt ==
  ASSUME NEW t \in Text, NEW marker, NEW f \in Nat, NEW k \in f .. Len(t), IsLine(t, marker, k),
         \A i \in f .. k - 1 : ~IsLine(t, marker, i)
  PROVE  markerLine(t, marker, f) = k
<1> DEFINE lines == {i \in f .. Len(t) : IsLine(t, marker, i)}
<1>1. Len(t) \in Nat
  BY TextProperties
<1>2. markerLine(t, marker, f) = IF lines = {} THEN 0 ELSE Min(lines)
  BY DEF markerLine, IsLine
<1>3. lines \in SUBSET Nat /\ k \in lines /\ \A i \in lines : k <= i
  BY <1>1
<1> HIDE DEF lines
<1>4. Min(lines) \in lines /\ Min(lines) <= k
  BY <1>3, LeastNumber
<1>5. Min(lines) = k
  <2>1. Min(lines) \in Nat /\ k \in Nat /\ k <= Min(lines)
    BY <1>3, <1>4
  <2> QED
    BY <1>4, <2>1
<1>6. lines # {}
  BY <1>3
<1> QED
  BY <1>2, <1>5, <1>6

LEMMA NoMarker ==
  ASSUME NEW t \in Text, NEW marker, markerLine(t, marker, 1) = 0
  PROVE  \A i \in 1 .. Len(t) : ~IsLine(t, marker, i)
<1> DEFINE lines == {i \in 1 .. Len(t) : IsLine(t, marker, i)}
<1>1. Len(t) \in Nat
  BY TextProperties
<1>2. markerLine(t, marker, 1) = IF lines = {} THEN 0 ELSE Min(lines)
  BY DEF markerLine, IsLine
<1>3. lines \in SUBSET Nat /\ 0 \notin lines
  BY <1>1
<1>4. lines = {}
  <2> HIDE DEF lines
  <2> QED
    BY <1>2, <1>3, LeastNumber
<1> QED
  BY <1>4

(* bb's block behind whole lines that are no block.                        *)
LEMMA BlockBehind ==
  ASSUME NEW s \in Text, s = <<>> \/ s[Len(s)] = "nl",
         \A i \in 1 .. Len(s) : ~IsLine(s \o block, "begin", i)
  PROVE  Before(s \o block) = s /\ Behind(s \o block) = <<>>
<1> DEFINE a == s \o block
           n == Len(s)
<1>1. n \in Nat /\ block \in Text /\ Len(block) = 6
  BY TextProperties, BlockIsText
<1>2. a \in Text /\ Len(a) = n + 6 /\ \A i \in 1 .. n : a[i] = s[i]
  <2>1. a \in Text /\ Len(a) = n + 6
    BY <1>1, JoinText
  <2>2. \A i \in 1 .. n : a[i] = s[i]
    BY <1>1, HeadText
  <2> QED
    BY <2>1, <2>2
<1>3. n = 0 \/ a[n] = "nl"
  BY <1>1, <1>2, BlockText
<1>4. /\ a[n + 1] = "begin" /\ a[n + 2] = "nl" /\ a[n + 3] = "body"
      /\ a[n + 4] = "nl" /\ a[n + 5] = "end" /\ a[n + 6] = "nl"
  <2>1. \A j \in 1 .. 6 : a[n + j] = block[j]
    BY <1>1, TailText
  <2>2. /\ block[1] = "begin" /\ block[2] = "nl" /\ block[3] = "body"
        /\ block[4] = "nl" /\ block[5] = "end" /\ block[6] = "nl"
    BY DEF block
  <2>3. 1 \in 1 .. 6 /\ 2 \in 1 .. 6 /\ 3 \in 1 .. 6 /\ 4 \in 1 .. 6 /\ 5 \in 1 .. 6 /\ 6 \in 1 .. 6
    OBVIOUS
  <2> HIDE DEF a, n
  <2>4. /\ a[n + 1] = block[1] /\ a[n + 2] = block[2] /\ a[n + 3] = block[3]
        /\ a[n + 4] = block[4] /\ a[n + 5] = block[5] /\ a[n + 6] = block[6]
    BY <2>1, <2>3
  <2> QED
    BY <2>2, <2>4
<1>5. \A i \in 1 .. n : ~IsLine(a, "begin", i)
  OBVIOUS
<1> HIDE DEF a, n
<1>6. Begin(a) = n + 1
  <2>1. IsLine(a, "begin", n + 1)
    <3>1. n + 1 = 1 \/ a[(n + 1) - 1] = "nl"
      BY <1>1, <1>3
    <3>2. a[(n + 1) + 1] = "nl"
      BY <1>1, <1>4
    <3> QED
      BY <1>4, <3>1, <3>2 DEF IsLine
  <2>2. n + 1 \in 1 .. Len(a) /\ (n + 1) - 1 = n
    BY <1>1, <1>2
  <2>3. markerLine(a, "begin", 1) = n + 1
    BY <1>2, <1>5, <2>1, <2>2, MarkerAt
  <2> QED
    BY <2>3 DEF Begin
<1>7. End(a) = n + 5
  <2>1. IsLine(a, "end", n + 5)
    <3>1. a[(n + 5) - 1] = "nl" /\ a[(n + 5) + 1] = "nl"
      BY <1>1, <1>4
    <3> QED
      BY <1>4, <3>1 DEF IsLine
  <2>2. n + 5 \in n + 1 .. Len(a) /\ (n + 5) - 1 = n + 4 /\ n + 1 \in Nat
    BY <1>1, <1>2
  <2>3. \A i \in n + 1 .. n + 4 : ~IsLine(a, "end", i)
    <3>1. \A i \in n + 1 .. n + 4 : i \in {n + 1, n + 2, n + 3, n + 4}
      BY <1>1
    <3> QED
      BY <1>4, <3>1 DEF IsLine
  <2>4. markerLine(a, "end", n + 1) = n + 5
    BY <1>2, <2>1, <2>2, <2>3, MarkerAt
  <2> QED
    BY <1>6, <2>4 DEF End
<1>8. Past(a) = n + 6
  BY <1>1, <1>2, <1>7 DEF Past
<1>9. Behind(a) = <<>>
  <2>1. n + 6 + 1 \in Nat /\ 1 <= n + 6 + 1 /\ Len(a) \in Int /\ ~(n + 6 + 1 <= Len(a))
    BY <1>1, <1>2
  <2>2. SubSeq(a, n + 6 + 1, Len(a)) \in Text /\ Len(SubSeq(a, n + 6 + 1, Len(a))) = 0
    BY <1>2, <2>1, SubText
  <2> QED
    BY <1>8, <2>2, EmptySeq DEF Behind, Text
<1>10. Before(a) = s
  <2>1. Before(a) = SubSeq(a, 1, n)
    BY <1>1, <1>6 DEF Before
  <2>2. /\ SubSeq(a, 1, n) \in Text /\ Len(SubSeq(a, 1, n)) = n
        /\ \A i \in 1 .. n : SubSeq(a, 1, n)[i] = a[i]
    <3>1. /\ SubSeq(a, 1, n) \in Text
          /\ Len(SubSeq(a, 1, n)) = IF 1 <= n THEN n - 1 + 1 ELSE 0
          /\ \A i \in 1 .. n - 1 + 1 : SubSeq(a, 1, n)[i] = a[1 + i - 1]
      BY <1>1, <1>2, SubText
    <3> QED
      BY <1>1, <3>1
  <2> QED
    BY <1>2, <2>1, <2>2, SameText DEF n
<1> QED
  BY <1>9, <1>10 DEF a

(* The block is appended behind whole lines, and a blank one.              *)
AppendedBehind(s, t) ==
  /\ appendBlock(t) = s \o block
  /\ \A i \in 1 .. Len(s) : ~IsLine(s \o block, "begin", i)
  /\ \/ s = <<>> /\ t = <<>>
     \/ \E u \in Text : /\ u \in {t, t \o <<"nl">>} /\ s = u \o <<"nl">>
                       /\ Len(u) >= 1 /\ u[Len(u)] = "nl"

LEMMA AppendedShape ==
  ASSUME NEW t \in Text, ~HasBlock(t)
  PROVE  \E s \in Text : AppendedBehind(s, t)
<1>0. Len(t) \in Nat /\ <<"nl">> \in Text /\ Len(<<"nl">>) = 1 /\ \A s \in Text : s \o <<>> = s
  BY TextProperties, BlockText DEF Text
<1>1. \A i \in 1 .. Len(t) : ~IsLine(t, "begin", i)
  BY NoMarker DEF HasBlock, Begin
<1>2. CASE t = <<>>
  <2>1. appendBlock(t) = t \o block
    BY <1>2, BlockText DEF appendBlock, Text
  <2>2. \A i \in 1 .. Len(t) : ~IsLine(t \o block, "begin", i)
    BY <1>2, EmptySeq
  <2> QED
    BY <1>2, <2>1, <2>2 DEF AppendedBehind
<1>3. CASE t # <<>>
  <2> DEFINE u == IF t[Len(t)] # "nl" THEN t \o <<"nl">> ELSE t
             s == u \o <<"nl">>
             m == Len(u)
  <2>0. Len(t) >= 1
    BY <1>0, <1>3, EmptySeq DEF Text
  <2>1. u \in Text /\ m \in Nat /\ m >= Len(t) /\ u[m] = "nl" /\ \A i \in 1 .. Len(t) : u[i] = t[i]
    <3>1. CASE t[Len(t)] # "nl"
      <4>1. /\ t \o <<"nl">> \in Text /\ Len(t \o <<"nl">>) = Len(t) + 1
            /\ \A i \in 1 .. Len(t) + 1 :
                 (t \o <<"nl">>)[i] = IF i <= Len(t) THEN t[i] ELSE <<"nl">>[i - Len(t)]
        BY <1>0, ConcatText
      <4>2. (t \o <<"nl">>)[Len(t) + 1] = "nl" /\ \A i \in 1 .. Len(t) : (t \o <<"nl">>)[i] = t[i]
        BY <1>0, <4>1
      <4> QED
        BY <1>0, <3>1, <4>1, <4>2
    <3>2. CASE t[Len(t)] = "nl"
      BY <1>0, <3>2
    <3> QED
      BY <3>1, <3>2
  <2>2. \A i \in 1 .. m : i > Len(t) => u[i] = "nl"
    <3>1. CASE t[Len(t)] # "nl"
      <4>1. m = Len(t) + 1
        BY <1>0, <3>1, ConcatText
      <4> QED
        BY <1>0, <2>1, <4>1
    <3>2. CASE t[Len(t)] = "nl"
      BY <1>0, <3>2
    <3> QED
      BY <3>1, <3>2
  <2>3. u \in {t, t \o <<"nl">>} /\ appendBlock(t) = s \o block
    BY <1>3 DEF appendBlock
  <2> HIDE DEF u
  <2>4. /\ s \in Text /\ Len(s) = m + 1
        /\ \A i \in 1 .. m + 1 : s[i] = IF i <= m THEN u[i] ELSE <<"nl">>[i - m]
    BY <1>0, <2>1, ConcatText
  <2>5. s[m + 1] = "nl" /\ \A i \in 1 .. m : s[i] = u[i]
    BY <2>1, <2>4
  <2> HIDE DEF s, m
  <2>6. /\ s \o block \in Text /\ Len(s \o block) = m + 7
        /\ \A i \in 1 .. m + 7 :
             (s \o block)[i] = IF i <= m + 1 THEN s[i] ELSE block[i - (m + 1)]
    <3> DEFINE b == s \o block
    <3>1. /\ b \in Text /\ Len(b) = Len(s) + Len(block)
          /\ \A i \in 1 .. Len(s) + Len(block) : b[i] = IF i <= Len(s) THEN s[i] ELSE block[i - Len(s)]
      BY <2>4, BlockText, ConcatText
    <3>2. Len(s) = m + 1 /\ Len(s) + Len(block) = m + 7
      BY <2>1, <2>4, BlockText
    <3> HIDE DEF b
    <3>3. b \in Text /\ Len(b) = m + 7
      BY <3>1, <3>2
    <3>4. \A i \in 1 .. m + 7 : b[i] = IF i <= m + 1 THEN s[i] ELSE block[i - (m + 1)]
      BY <3>1, <3>2
    <3> QED
      BY <3>3, <3>4 DEF b
  <2>7. \A i \in 1 .. m + 1 : (s \o block)[i] = s[i]
    BY <2>1, <2>6
  <2>8. ASSUME NEW i \in 1 .. m + 1, IsLine(s \o block, "begin", i) PROVE FALSE
    <3>1. s[i] = "begin"
      BY <2>7, <2>8 DEF IsLine
    <3>2. i <= Len(t) /\ i <= m
      <4>1. i # m + 1
        BY <2>5, <3>1
      <4>2. i \in 1 .. m
        BY <2>1, <4>1
      <4> QED
        BY <1>0, <2>1, <2>2, <2>5, <3>1, <4>2
    <3>3. i \in 1 .. Len(t) /\ i \in 1 .. m
      BY <1>0, <2>1, <3>2
    <3>4. t[i] = "begin"
      BY <2>1, <2>5, <3>1, <3>3
    <3>5. i = 1 \/ t[i - 1] = "nl"
      <4> SUFFICES ASSUME i # 1 PROVE t[i - 1] = "nl"
        OBVIOUS
      <4>1. i - 1 \in 1 .. Len(t) /\ i - 1 \in 1 .. m /\ i - 1 \in 1 .. m + 1
        BY <1>0, <2>1, <3>3
      <4>2. (s \o block)[i - 1] = "nl"
        BY <2>8 DEF IsLine
      <4> QED
        BY <2>1, <2>5, <2>7, <4>1, <4>2
    <3>6. i = Len(t) \/ t[i + 1] = "nl"
      <4> SUFFICES ASSUME i # Len(t) PROVE t[i + 1] = "nl"
        OBVIOUS
      <4>1. i + 1 \in 1 .. Len(t) /\ i + 1 \in 1 .. m /\ i + 1 \in 1 .. m + 1
        BY <1>0, <2>1, <3>3
      <4>2. (s \o block)[i + 1] = "nl"
        BY <2>1, <2>6, <2>8, <3>3 DEF IsLine
      <4> QED
        BY <2>1, <2>5, <2>7, <4>1, <4>2
    <3> QED
      BY <1>1, <3>3, <3>4, <3>5, <3>6 DEF IsLine
  <2>9. s \o block = appendBlock(t) /\ Len(s) = m + 1 /\ Len(u) = m /\ m >= 1 /\ u[m] = "nl"
    BY <1>0, <2>0, <2>1, <2>3, <2>4 DEF m
  <2>10. s = u \o <<"nl">>
    BY DEF s
  <2>11. \A i \in 1 .. Len(s) : ~IsLine(s \o block, "begin", i)
    BY <2>8, <2>9
  <2> QED
    BY <2>1, <2>3, <2>4, <2>9, <2>10, <2>11 DEF AppendedBehind
<1> QED
  BY <1>2, <1>3

(* Removing what was appended leaves the text, its last line ended.        *)
LEMMA AppendedComesOut ==
  ASSUME NEW t \in Text, ~HasBlock(t)
  PROVE  removed(appendBlock(t)) \in {t, t \o <<"nl">>}
<1>0. /\ <<"nl">> \in Text /\ Len(<<"nl">>) = 1 /\ \A s \in Text : s \o <<>> = s
  BY BlockText DEF Text
<1>1. PICK s \in Text : AppendedBehind(s, t)
  BY AppendedShape
<1>2. CASE s = <<>> /\ t = <<>>
  <2>0. appendBlock(t) = s \o block /\ \A i \in 1 .. Len(s) : ~IsLine(s \o block, "begin", i)
    BY <1>1 DEF AppendedBehind
  <2>1. Before(s \o block) = s /\ Behind(s \o block) = <<>>
    BY <1>2, <2>0, BlockBehind, Zenon
  <2>2. WithoutBlank(s) = s
    BY <1>2 DEF WithoutBlank
  <2> QED
    BY <1>0, <1>2, <2>0, <2>1, <2>2, Zenon DEF removed
<1>3. ASSUME NEW u \in Text, u \in {t, t \o <<"nl">>}, s = u \o <<"nl">>, Len(u) >= 1,
             u[Len(u)] = "nl"
      PROVE  removed(appendBlock(t)) = u
  <2> DEFINE m == Len(u)
  <2>1. m \in Nat /\ m >= 1 /\ u[m] = "nl"
    BY <1>3, TextProperties
  <2>2. Len(s) = m + 1 /\ s[m + 1] = "nl" /\ \A i \in 1 .. m : s[i] = u[i]
    <3>1. Len(s) = m + 1 /\ \A i \in 1 .. m : s[i] = u[i]
      BY <1>0, <1>3, JoinText, HeadText
    <3>2. 1 \in 1 .. Len(<<"nl">>) /\ <<"nl">>[1] = "nl"
      BY <1>0
    <3>3. s[m + 1] = "nl"
      BY <1>0, <1>3, <3>2, TailText
    <3> QED
      BY <3>1, <3>3
  <2>0. appendBlock(t) = s \o block /\ \A i \in 1 .. Len(s) : ~IsLine(s \o block, "begin", i)
    BY <1>1 DEF AppendedBehind
  <2>3. Before(s \o block) = s /\ Behind(s \o block) = <<>>
    BY <2>0, <2>2, BlockBehind
  <2>4. WithoutBlank(s) = SubSeq(s, 1, m)
    <3>1. Len(s) > 1 /\ Len(s) - 1 = m /\ s[Len(s)] = "nl" /\ s[Len(s) - 1] = "nl"
      BY <2>1, <2>2
    <3> QED
      BY <3>1 DEF WithoutBlank
  <2>5. SubSeq(s, 1, m) = u
    <3>1. /\ SubSeq(s, 1, m) \in Text
          /\ Len(SubSeq(s, 1, m)) = IF 1 <= m THEN m - 1 + 1 ELSE 0
          /\ \A i \in 1 .. m - 1 + 1 : SubSeq(s, 1, m)[i] = s[1 + i - 1]
      BY <2>1, <2>2, SubText
    <3>2. Len(SubSeq(s, 1, m)) = m /\ \A i \in 1 .. m : SubSeq(s, 1, m)[i] = u[i]
      BY <2>1, <2>2, <3>1
    <3> QED
      BY <3>1, <3>2, SameText
  <2> QED
    BY <1>0, <2>0, <2>3, <2>4, <2>5, Zenon DEF removed
<1> QED
  BY <1>1, <1>2, <1>3 DEF AppendedBehind

(* What a run sets out to leave follows from what it read.                 *)
PlannedAt(p) ==
  /\ pc[p] \in {"idle", "read"} => raw[p] = Absent /\ wanted[p] = Absent
  /\ kind # "file" /\ raw[p] = Absent => wanted[p] \in {Absent, appendBlock(<<>>)}
  /\ kind # "file" /\ raw[p] # Absent =>
       \/ wanted[p] = raw[p] /\ (op[p] = "install" => HasBlock(raw[p]))
       \/ /\ ~Refused(op[p], raw[p]) /\ ~AlreadySo(op[p], raw[p])
          /\ wanted[p] = Outcome(op[p], raw[p])

Planned == \A p \in Runs : PlannedAt(p)

LEMMA SameKind ==
  ASSUME kind' = kind
  PROVE  \A o, t : /\ Refused(o, t)' = Refused(o, t) /\ AlreadySo(o, t)' = AlreadySo(o, t)
                   /\ Outcome(o, t)' = Outcome(o, t)
  BY DEF Refused, AlreadySo, Outcome, Installed, Removed

LEMMA PlannedOwn ==
  ASSUME Typed, StartupAssumption, NEW p \in Runs, PlannedAt(p), Run(p)
  PROVE  PlannedAt(p)'
<1> USE DEF Goto, Tell, plan, path
<1>0. kind' = kind
  BY DEF Run, Start, ReadFails, FindNone, FindOther, FindSo, FindWork, Looks, Create, Fill,
     Uncreate, Open, WriteAt, Truncate, PutBack, CutBack, Delete, Kill
<1>a. /\ op \in [Runs -> {"install", "remove"}] /\ pc \in [Runs -> Steps]
      /\ raw \in [Runs -> Text \cup {Absent}] /\ wanted \in [Runs -> Text \cup {Absent}]
  BY DEF Typed
<1>1. CASE Start(p)
  <2>1. pc[p] = "idle" /\ raw' = raw /\ wanted' = wanted
    BY <1>1 DEF Start
  <2>2. raw'[p] = Absent /\ wanted'[p] = Absent
    BY <2>1 DEF PlannedAt
  <2> QED
    BY <2>2 DEF PlannedAt
<1>2. CASE FindNone(p)
  <2>1. /\ raw'[p] = Absent /\ pc'[p] \in {"done", "create"}
        /\ kind # "file" => wanted'[p] \in {Absent, appendBlock(<<>>)}
    BY <1>2, <1>a DEF FindNone, Looks, File
  <2> QED
    BY <1>0, <2>1 DEF PlannedAt
<1>3. CASE FindOther(p)
  <2>1. /\ raw'[p] = text[at] /\ wanted'[p] = text[at] /\ op' = op /\ pc'[p] = "done"
        /\ Refused(op[p], text[at]) /\ text[at] # Absent
    BY <1>3, <1>a, StartupAssumption DEF FindOther, Looks, File, StartupAssumption, Typed
  <2>2. kind # "file" => HasBlock(text[at])
    BY <2>1 DEF Refused, LostItsEnd
  <2> QED
    BY <1>0, <2>1, <2>2 DEF PlannedAt
<1>4. CASE FindSo(p)
  <2>1. /\ raw'[p] = text[at] /\ wanted'[p] = text[at] /\ op' = op /\ pc'[p] = "done"
        /\ AlreadySo(op[p], text[at]) /\ text[at] # Absent
    BY <1>4, <1>a, StartupAssumption DEF FindSo, Looks, File, StartupAssumption, Typed
  <2>2. kind # "file" /\ op[p] = "install" => HasBlock(text[at])
    BY <2>1 DEF AlreadySo
  <2> QED
    BY <1>0, <2>1, <2>2 DEF PlannedAt
<1>5. CASE FindWork(p)
  <2>1. /\ raw'[p] = text[at] /\ wanted'[p] = Outcome(op[p], text[at]) /\ op' = op
        /\ pc'[p] \in {"delete", "open"}
        /\ ~Refused(op[p], text[at]) /\ ~AlreadySo(op[p], text[at]) /\ text[at] # Absent
    BY <1>5, <1>a, StartupAssumption DEF FindWork, Looks, File, StartupAssumption, Typed
  <2> QED
    BY <1>0, <2>1, SameKind DEF PlannedAt
<1>6. CASE ~Start(p) /\ ~FindNone(p) /\ ~FindOther(p) /\ ~FindSo(p) /\ ~FindWork(p)
  <2>1. UNCHANGED plan /\ pc'[p] \notin {"idle", "read"}
    BY <1>6, <1>a DEF Run, ReadFails, Create, Fill, Uncreate, Open, WriteAt, Truncate, PutBack,
       CutBack, Delete, Kill
  <2>2. op' = op /\ raw' = raw /\ wanted' = wanted
    BY <2>1
  <2> QED
    BY <1>0, <2>1, <2>2, SameKind DEF PlannedAt
<1> QED
  BY <1>1, <1>2, <1>3, <1>4, <1>5, <1>6

LEMMA PlannedStays ==
  ASSUME NEW q \in Runs, PlannedAt(q), kind' = kind, pc'[q] = pc[q], op'[q] = op[q],
         raw'[q] = raw[q], wanted'[q] = wanted[q]
  PROVE  PlannedAt(q)'
  BY SameKind DEF PlannedAt

LEMMA PlannedStep ==
  ASSUME Typed, Planned, StartupAssumption, [Next]_vars
  PROVE  Planned'
<1>1. CASE UNCHANGED vars
  <2>1. UNCHANGED <<kind, pc, op, raw, wanted>>
    BY <1>1 DEF vars, plan
  <2> QED
    BY <2>1, PlannedStays DEF Planned
<1>2. ASSUME NEW p \in Runs, Run(p) PROVE Planned'
  <2>1. PlannedAt(p)'
    BY <1>2, PlannedOwn DEF Planned
  <2>2. ASSUME NEW q \in Runs \ {p} PROVE PlannedAt(q)'
    <3>1. pc'[q] = pc[q] /\ raw'[q] = raw[q] /\ wanted'[q] = wanted[q]
      BY <1>2, <2>2, OthersStay
    <3>2. op'[q] = op[q] /\ kind' = kind
      BY <1>2, <2>2 DEF Typed, Run, Start, ReadFails, FindNone, FindOther, FindSo, FindWork, Looks,
         Create, Fill, Uncreate, Open, WriteAt, Truncate, PutBack, CutBack, Delete, Kill, plan
    <3> QED
      BY <2>2, <3>1, <3>2, PlannedStays DEF Planned
  <2> QED
    BY <2>1, <2>2 DEF Planned
<1>3. CASE SaySomething
  <2>1. UNCHANGED <<kind, pc, op, raw, wanted>>
    BY <1>3 DEF SaySomething, plan
  <2> QED
    BY <2>1, PlannedStays DEF Planned
<1> QED
  BY <1>1, <1>2, <1>3 DEF Next

LEMMA PlannedInit == Init => Planned
<1> SUFFICES ASSUME Init, NEW p \in Runs PROVE PlannedAt(p)
  BY DEF Planned
<1>1. raw[p] = Absent /\ wanted[p] = Absent
  BY DEF Init
<1> QED
  BY <1>1 DEF PlannedAt

LEMMA PlannedAlways == Spec => [](Typed /\ Knows /\ Planned)
<1>1. Init => Typed /\ Knows /\ Planned
  BY StartupAssumption, TypedInit, PlannedInit
<1>2. Typed /\ Knows /\ Planned /\ [Next]_vars => (Typed /\ Knows /\ Planned)'
  BY StartupAssumption, TypedStep, PlannedStep
<1> QED
  BY <1>1, <1>2, PTL DEF Spec

(* Removing what an install added brings any text back as it was, but for  *)
(* the end of its last line, and an empty profile (appendBlock,            *)
(* removeBlock).                                                           *)
THEOREM ItComesBack == Spec => []ComesBack
<1>1. ASSUME Typed, Planned PROVE ComesBack
  <2> SUFFICES ASSUME NEW p \in Runs, NEW q \in Runs, op[p] = "install", kind # "file",
                      raw[p] # Absent, ~HasBlock(raw[p]), op[q] = "remove", raw[q] = wanted[p],
                      wanted[q] # raw[q]
               PROVE  \/ wanted[q] \in {raw[p], raw[p] \o <<"nl">>}
                      \/ wanted[q] = Absent /\ Blank(raw[p])
    BY DEF ComesBack
  <2>1. raw[p] \in Text
    BY <1>1 DEF Typed
  <2>2. raw[q] = appendBlock(raw[p])
    BY <1>1 DEF Planned, PlannedAt, Outcome, Installed
  <2>3. raw[q] # Absent
    BY <2>1, <2>2, AppendedText, StartupAssumption DEF StartupAssumption
  <2>4. wanted[q] = Removed(raw[q])
    BY <1>1, <2>3 DEF Planned, PlannedAt, Outcome
  <2>5. removed(raw[q]) \in {raw[p], raw[p] \o <<"nl">>}
    BY <2>1, <2>2, AppendedComesOut
  <2>6. Blank(removed(raw[q])) => Blank(raw[p])
    <3>1. <<"nl">> \in Text /\ Len(<<"nl">>) = 1 /\ Len(raw[p]) \in Nat
      BY <2>1, BlockText, TextProperties
    <3>2. /\ Len(raw[p] \o <<"nl">>) = Len(raw[p]) + 1
          /\ \A i \in 1 .. Len(raw[p]) : (raw[p] \o <<"nl">>)[i] = raw[p][i]
      BY <2>1, <3>1, ConcatText
    <3> QED
      BY <2>5, <3>1, <3>2 DEF Blank
  <2> QED
    BY <2>4, <2>5, <2>6 DEF Removed
<1> QED
  BY <1>1, PlannedAlways, PTL

----------------------------------------------------------------------------
(* What somebody else wrote in a text.                                     *)

(* Induction, from the least number that is not in a set.                  *)
LEMMA UpTo ==
  ASSUME NEW n \in Nat, NEW S \in SUBSET Nat, 0 \in S,
         \A i \in 1 .. n : i - 1 \in S => i \in S
  PROVE  0 .. n \subseteq S
<1> SUFFICES ASSUME 0 .. n \ S # {} PROVE FALSE
  OBVIOUS
<1> DEFINE out == 0 .. n \ S
           m == Min(out)
<1>1. out \in SUBSET Nat /\ out # {}
  OBVIOUS
<1>2. m \in out /\ \A i \in out : m <= i
  <2> HIDE DEF out
  <2> QED
    BY <1>1, LeastNumber
<1>3. m \in Nat /\ m <= n /\ m \notin S
  BY <1>2
<1> HIDE DEF m
<1>4. m \in 1 .. n /\ m - 1 \in 0 .. n /\ ~(m <= m - 1)
  BY <1>3
<1>5. m - 1 \in S
  BY <1>2, <1>4
<1> QED
  BY <1>3, <1>4, <1>5

TheirsUpTo(t, n, f) ==
  f = [i \in 0 .. n |-> IF i = 0 THEN <<>>
                        ELSE IF t[i] \in Said THEN f[i - 1] \o <<t[i]>> ELSE f[i - 1]]

(* There is a function as the definition of Theirs describes.              *)
LEMMA TheirsExists ==
  ASSUME NEW t, NEW n \in Nat
  PROVE  \E f : TheirsUpTo(t, n, f)
<1> DEFINE S == {k \in Nat : \E f : TheirsUpTo(t, k, f)}
<1>1. 0 \in S
  <2>1. TheirsUpTo(t, 0, [i \in 0 .. 0 |-> <<>>])
    BY DEF TheirsUpTo
  <2> QED
    BY <2>1
<1>2. ASSUME NEW k \in 1 .. n, k - 1 \in S PROVE k \in S
  <2>1. PICK f : TheirsUpTo(t, k - 1, f)
    BY <1>2
  <2> DEFINE last == IF t[k] \in Said THEN f[k - 1] \o <<t[k]>> ELSE f[k - 1]
             g == [i \in 0 .. k |-> IF i = k THEN last ELSE f[i]]
  <2>2. k \in Nat /\ k # 0 /\ \A i \in 0 .. k : i # k => i \in 0 .. k - 1
    OBVIOUS
  <2>3. \A i \in 0 .. k - 1 : i \in 0 .. k /\ i # k
    OBVIOUS
  <2>4. \A i \in 0 .. k - 1 :
          f[i] = IF i = 0 THEN <<>>
                 ELSE IF t[i] \in Said THEN f[i - 1] \o <<t[i]>> ELSE f[i - 1]
    BY <2>1 DEF TheirsUpTo
  <2>5. \A i \in 0 .. k - 1 : g[i] = f[i]
    BY <2>3
  <2>6. g[k] = last
    BY <2>2
  <2>7. \A i \in 0 .. k : i # 0 => i - 1 \in 0 .. k - 1
    BY <2>2
  <2>8. \A i \in 0 .. k :
          g[i] = IF i = 0 THEN <<>>
                 ELSE IF t[i] \in Said THEN g[i - 1] \o <<t[i]>> ELSE g[i - 1]
    <3> SUFFICES ASSUME NEW i \in 0 .. k
                 PROVE  g[i] = IF i = 0 THEN <<>>
                               ELSE IF t[i] \in Said THEN g[i - 1] \o <<t[i]>> ELSE g[i - 1]
      OBVIOUS
    <3> HIDE DEF g
    <3>1. CASE i = k
      BY <2>2, <2>5, <2>6, <2>7, <3>1
    <3>2. CASE i # k
      BY <2>2, <2>4, <2>5, <2>7, <3>2
    <3> QED
      BY <3>1, <3>2
  <2>9. g = [i \in 0 .. k |-> g[i]]
    OBVIOUS
  <2> HIDE DEF g
  <2>10. TheirsUpTo(t, k, g)
    BY <2>8, <2>9 DEF TheirsUpTo
  <2> QED
    BY <2>2, <2>10
<1>3. 0 .. n \subseteq S
  <2> HIDE DEF S
  <2>1. S \in SUBSET Nat
    BY DEF S
  <2> QED
    BY <1>1, <1>2, <2>1, UpTo
<1> QED
  BY <1>3

(* What Theirs collects, word by word.                                     *)
LEMMA TheirsFacts ==
  ASSUME StartupAssumption, NEW t \in Text
  PROVE  \E f : /\ Theirs(t) = f[Len(t)] /\ f[0] = <<>>
                /\ \A i \in 1 .. Len(t) :
                     f[i] = IF t[i] \in Said THEN f[i - 1] \o <<t[i]>> ELSE f[i - 1]
<1>1. Len(t) \in Nat /\ t # Absent
  BY TextProperties DEF StartupAssumption
<1> DEFINE F == CHOOSE f : f = [i \in 0 .. Len(t) |-> IF i = 0 THEN <<>>
                                  ELSE IF t[i] \in Said THEN f[i - 1] \o <<t[i]>> ELSE f[i - 1]]
<1>2. Theirs(t) = F[Len(t)]
  BY <1>1 DEF Theirs
<1>3. F = CHOOSE f : TheirsUpTo(t, Len(t), f)
  BY DEF TheirsUpTo
<1> HIDE DEF F
<1>4. TheirsUpTo(t, Len(t), F)
  BY <1>1, <1>3, TheirsExists
<1>5. \A i \in 0 .. Len(t) :
        F[i] = IF i = 0 THEN <<>>
               ELSE IF t[i] \in Said THEN F[i - 1] \o <<t[i]>> ELSE F[i - 1]
  BY <1>4 DEF TheirsUpTo
<1>6. 0 \in 0 .. Len(t) /\ \A i \in 1 .. Len(t) : i \in 0 .. Len(t) /\ i # 0
  BY <1>1
<1> QED
  BY <1>2, <1>5, <1>6

(* Pieces of what was said can be put together in either order.            *)
LEMMA SaidRegroups ==
  ASSUME NEW a \in Seq(Said), NEW b \in Seq(Said), NEW c \in Seq(Said)
  PROVE  (a \o b) \o c = a \o (b \o c)
BY ConcatAssociative

(* What is theirs in two texts put together is theirs in the one and then  *)
(* in the other.                                                           *)
LEMMA TheirsJoin ==
  ASSUME StartupAssumption, NEW s \in Text, NEW t \in Text
  PROVE  Theirs(s) \in Seq(Said) /\ Theirs(s \o t) = Theirs(s) \o Theirs(t)
<1>1. /\ Len(s) \in Nat /\ Len(t) \in Nat
      /\ s \o t \in Text /\ Len(s \o t) = Len(s) + Len(t)
      /\ \A i \in 1 .. Len(s) : (s \o t)[i] = s[i]
      /\ \A i \in 1 .. Len(t) : (s \o t)[Len(s) + i] = t[i]
  BY TextProperties, JoinText, HeadText, TailText
<1>2. PICK f : /\ Theirs(s \o t) = f[Len(s \o t)] /\ f[0] = <<>>
               /\ \A i \in 1 .. Len(s \o t) :
                    f[i] = IF (s \o t)[i] \in Said THEN f[i - 1] \o <<(s \o t)[i]>> ELSE f[i - 1]
  BY <1>1, TheirsFacts
<1>3. PICK g : /\ Theirs(s) = g[Len(s)] /\ g[0] = <<>>
               /\ \A i \in 1 .. Len(s) :
                    g[i] = IF s[i] \in Said THEN g[i - 1] \o <<s[i]>> ELSE g[i - 1]
  BY TheirsFacts
<1>4. PICK h : /\ Theirs(t) = h[Len(t)] /\ h[0] = <<>>
               /\ \A i \in 1 .. Len(t) :
                    h[i] = IF t[i] \in Said THEN h[i - 1] \o <<t[i]>> ELSE h[i - 1]
  BY TheirsFacts
<1> DEFINE a == s \o t
<1>5. /\ a \in Text /\ Len(a) = Len(s) + Len(t)
      /\ \A i \in 1 .. Len(s) : a[i] = s[i]
      /\ \A i \in 1 .. Len(t) : a[Len(s) + i] = t[i]
      /\ Theirs(a) = f[Len(a)]
      /\ \A i \in 1 .. Len(a) : f[i] = IF a[i] \in Said THEN f[i - 1] \o <<a[i]>> ELSE f[i - 1]
  BY <1>1, <1>2
<1> HIDE DEF a
<1>6. f[Len(s)] = g[Len(s)] /\ g[Len(s)] \in Seq(Said)
  <2> DEFINE S == {i \in Nat : f[i] = g[i] /\ g[i] \in Seq(Said)}
  <2>1. 0 \in S
    <3>1. <<>> \in Seq(Said)
      BY EmptySeq
    <3> QED
      BY <1>2, <1>3, <3>1
  <2>2. ASSUME NEW i \in 1 .. Len(s), i - 1 \in S PROVE i \in S
    <3>1. i \in 1 .. Len(a) /\ i \in Nat
      BY <1>1, <1>5
    <3>2. f[i - 1] = g[i - 1] /\ g[i - 1] \in Seq(Said)
      BY <2>2
    <3>3. a[i] = s[i]
      BY <1>5
    <3>4. /\ f[i] = IF s[i] \in Said THEN g[i - 1] \o <<s[i]>> ELSE g[i - 1]
          /\ g[i] = IF s[i] \in Said THEN g[i - 1] \o <<s[i]>> ELSE g[i - 1]
      BY <1>3, <1>5, <3>1, <3>2, <3>3
    <3>5. f[i] = g[i]
      BY <3>4
    <3>6. g[i] \in Seq(Said)
      <4>1. s[i] \in Said => <<s[i]>> \in Seq(Said)
        OBVIOUS
      <4> QED
        BY <3>2, <3>4, <4>1, ConcatProperties
    <3> QED
      BY <3>1, <3>5, <3>6
  <2>3. S \in SUBSET Nat /\ Len(s) \in 0 .. Len(s)
    BY <1>1
  <2>4. Len(s) \in S
    <3> HIDE DEF S
    <3>1. \A i \in 1 .. Len(s) : i - 1 \in S => i \in S
      BY <2>2
    <3> QED
      BY <1>1, <2>1, <2>3, <3>1, UpTo
  <2> QED
    BY <2>4
<1>7. f[Len(s) + Len(t)] = g[Len(s)] \o h[Len(t)]
  <2> DEFINE n == Len(s)
             S == {j \in Nat : f[n + j] = g[n] \o h[j] /\ h[j] \in Seq(Said)}
  <2>1. 0 \in S
    <3>1. g[n] \o <<>> = g[n] /\ n + 0 = n /\ <<>> \in Seq(Said)
      BY <1>1, <1>6, ConcatEmptySeq, EmptySeq
    <3>2. f[n + 0] = g[n] \o h[0] /\ h[0] \in Seq(Said)
      BY <1>4, <1>6, <3>1
    <3> QED
      BY <3>2
  <2>2. ASSUME NEW j \in 1 .. Len(t), j - 1 \in S PROVE j \in S
    <3>1. n + j \in 1 .. Len(a) /\ j \in Nat /\ (n + j) - 1 = n + (j - 1)
      BY <1>1, <1>5
    <3>2. f[n + (j - 1)] = g[n] \o h[j - 1] /\ h[j - 1] \in Seq(Said) /\ g[n] \in Seq(Said)
      BY <1>6, <2>2
    <3>3. a[n + j] = t[j]
      BY <1>5
    <3> HIDE DEF n
    <3>4. f[n + j] = IF t[j] \in Said THEN f[n + (j - 1)] \o <<t[j]>> ELSE f[n + (j - 1)]
      <4>1. f[n + j] = IF a[n + j] \in Said THEN f[(n + j) - 1] \o <<a[n + j]>>
                       ELSE f[(n + j) - 1]
        BY <1>5, <3>1
      <4> QED
        BY <3>1, <3>3, <4>1
    <3>5. h[j] = IF t[j] \in Said THEN h[j - 1] \o <<t[j]>> ELSE h[j - 1]
      BY <1>4
    <3>6. CASE t[j] \in Said
      <4>1. <<t[j]>> \in Seq(Said)
        BY <3>6
      <4>2. PICK left \in Seq(Said), right \in Seq(Said), last \in Seq(Said) :
              left = g[n] /\ right = h[j - 1] /\ last = <<t[j]>>
        BY <3>2, <4>1
      <4>3. /\ f[n + j] = (left \o right) \o last /\ h[j] = right \o last
        BY <3>2, <3>4, <3>5, <3>6, <4>2
      <4>4. (left \o right) \o last = left \o (right \o last)
        BY SaidRegroups
      <4>5. right \o last \in Seq(Said)
        BY ConcatProperties
      <4>6. f[n + j] = g[n] \o h[j] /\ h[j] \in Seq(Said)
        BY <4>2, <4>3, <4>4, <4>5
      <4> QED
        BY <3>1, <4>6
    <3>7. CASE t[j] \notin Said
      BY <3>1, <3>2, <3>4, <3>5, <3>7
    <3> QED
      BY <3>6, <3>7
  <2>3. S \in SUBSET Nat
    OBVIOUS
  <2>4. Len(t) \in S
    <3> HIDE DEF S
    <3>0. Len(t) \in 0 .. Len(t)
      BY <1>1
    <3>1. \A j \in 1 .. Len(t) : j - 1 \in S => j \in S
      BY <2>2
    <3> QED
      BY <1>1, <2>1, <2>3, <3>0, <3>1, UpTo
  <2> QED
    BY <2>4
<1>8. Theirs(a) = Theirs(s) \o Theirs(t) /\ Theirs(s) \in Seq(Said)
  BY <1>3, <1>4, <1>5, <1>6, <1>7
<1> QED
  BY <1>8 DEF a

LEMMA NothingOfTheirs ==
  ASSUME StartupAssumption, NEW t \in Text, \A i \in 1 .. Len(t) : t[i] \notin Said
  PROVE  Theirs(t) = <<>>
<1>1. Len(t) \in Nat
  BY TextProperties
<1>2. PICK f : /\ Theirs(t) = f[Len(t)] /\ f[0] = <<>>
               /\ \A i \in 1 .. Len(t) :
                    f[i] = IF t[i] \in Said THEN f[i - 1] \o <<t[i]>> ELSE f[i - 1]
  BY TheirsFacts
<1> DEFINE S == {i \in Nat : f[i] = <<>>}
<1>3. 0 \in S /\ S \in SUBSET Nat /\ Len(t) \in 0 .. Len(t)
  BY <1>1, <1>2
<1>4. \A i \in 1 .. Len(t) : i - 1 \in S => i \in S
  <2> SUFFICES ASSUME NEW i \in 1 .. Len(t), i - 1 \in S PROVE i \in S
    OBVIOUS
  <2>1. f[i - 1] = <<>> /\ i \in Nat
    OBVIOUS
  <2>2. t[i] \notin Said
    OBVIOUS
  <2>3. f[i] = f[i - 1]
    <3> HIDE DEF S
    <3> QED
      BY <1>2, <2>2
  <2> QED
    BY <2>1, <2>3
<1>5. Len(t) \in S
  <2> HIDE DEF S
  <2> QED
    BY <1>1, <1>3, <1>4, UpTo
<1> QED
  BY <1>2, <1>5

(* Ends of lines and bb's own lines are not theirs.                        *)
LEMMA OursIsNotTheirs ==
  ASSUME StartupAssumption
  PROVE  Theirs(<<>>) = <<>> /\ Theirs(<<"nl">>) = <<>> /\ Theirs(block) = <<>>
<1>1. \A word \in {"begin", "nl", "body", "end"} : word \notin Said
  BY DEF StartupAssumption, Marks
<1>2. \A i \in 1 .. Len(block) : block[i] \notin Said
  <2>1. /\ block[1] = "begin" /\ block[2] = "nl" /\ block[3] = "body"
        /\ block[4] = "nl" /\ block[5] = "end" /\ block[6] = "nl"
    BY DEF block
  <2>2. \A i \in 1 .. Len(block) : i \in {1, 2, 3, 4, 5, 6}
    BY BlockIsText
  <2> QED
    BY <1>1, <2>1, <2>2
<1>3. \A i \in 1 .. Len(<<"nl">>) : <<"nl">>[i] \notin Said
  BY <1>1, BlockText
<1>4. \A i \in 1 .. Len(<<>>) : <<>>[i] \notin Said
  BY BlockText
<1> QED
  BY <1>2, <1>3, <1>4, BlockText, NothingOfTheirs

LEMMA TheirsBeside ==
  ASSUME StartupAssumption, NEW s \in Text, NEW t \in Text
  PROVE  /\ Theirs(t) = <<>> => Theirs(s \o t) = Theirs(s)
         /\ Theirs(s) = <<>> => Theirs(s \o t) = Theirs(t)
<1>1. Theirs(s) \in Seq(Said) /\ Theirs(t) \in Seq(Said)
  BY TheirsJoin
<1>2. Theirs(s \o t) = Theirs(s) \o Theirs(t)
  BY TheirsJoin
<1>3. Theirs(s) \o <<>> = Theirs(s) /\ <<>> \o Theirs(t) = Theirs(t)
  BY <1>1, ConcatEmptySeq
<1> QED
  BY <1>2, <1>3

LEMMA WholeText ==
  ASSUME NEW t \in Text, NEW m \in 0 .. Len(t)
  PROVE  /\ SubSeq(t, 1, m) \in Text /\ SubSeq(t, m + 1, Len(t)) \in Text
         /\ SubSeq(t, 1, m) \o SubSeq(t, m + 1, Len(t)) = t
<1>1. Len(t) \in Nat
  BY TextProperties
<1>2. SubSeq(t, 1, m) \in Text /\ SubSeq(t, m + 1, Len(t)) \in Text
  BY <1>1, SubText
<1>3. SubSeq(t, 1, Len(t)) = t
  BY WholeSub
<1>4. SubSeq(t, 1, m) \o SubSeq(t, m + 1, Len(t)) = SubSeq(t, 1, Len(t))
  <2>1. t \in Seq(Words) /\ 1 \in 1 .. Len(t) + 1 /\ m \in 1 - 1 .. Len(t) /\ Len(t) \in m .. Len(t)
    BY <1>1 DEF Text
  <2> QED
    BY <2>1, ConcatAdjacentSubSeq
<1> QED
  BY <1>2, <1>3, <1>4

(* A text with a block is what is before it, the block, and what is behind.*)
LEMMA PartsTogether ==
  ASSUME NEW t \in Text, HasBlock(t), ~LostItsEnd(t)
  PROVE  Before(t) \o Found(t) \o Behind(t) = t
<1>1. /\ Begin(t) \in 1 .. Len(t) /\ Past(t) \in Begin(t) .. Len(t) /\ Len(t) \in Nat
      /\ Before(t) \in Text /\ Found(t) \in Text /\ Behind(t) \in Text
  BY PartsOfAText, TextProperties
<1> DEFINE m == Begin(t) - 1
<1>2. m \in 0 .. Len(t) /\ m + 1 = Begin(t)
  BY <1>1
<1>3. Before(t) \o Found(t) = SubSeq(t, 1, Past(t))
  <2>1. t \in Seq(Words) /\ 1 \in 1 .. Len(t) + 1 /\ m \in 1 - 1 .. Len(t) /\ Past(t) \in m .. Len(t)
    BY <1>1 DEF Text
  <2>2. SubSeq(t, 1, m) \o SubSeq(t, m + 1, Past(t)) = SubSeq(t, 1, Past(t))
    BY <2>1, ConcatAdjacentSubSeq
  <2> QED
    BY <1>2, <2>2 DEF Before, Found
<1>4. SubSeq(t, 1, Past(t)) \o Behind(t) = t
  <2>1. Past(t) \in 0 .. Len(t)
    BY <1>1
  <2> QED
    BY <2>1, WholeText DEF Behind
<1> QED
  BY <1>3, <1>4

LEMMA TheirsAround ==
  ASSUME StartupAssumption, NEW t \in Text, HasBlock(t), ~LostItsEnd(t), Theirs(Found(t)) = <<>>
  PROVE  Theirs(t) = Theirs(Before(t) \o Behind(t))
<1>1. Before(t) \in Text /\ Found(t) \in Text /\ Behind(t) \in Text
  BY PartsOfAText
<1>2. Theirs(Before(t) \o Found(t)) = Theirs(Before(t)) /\ Before(t) \o Found(t) \in Text
  BY <1>1, TheirsBeside, JoinText
<1>3. Theirs(t) = Theirs(Before(t)) \o Theirs(Behind(t))
  <2>1. Theirs((Before(t) \o Found(t)) \o Behind(t)) = Theirs(Before(t) \o Found(t)) \o Theirs(Behind(t))
    BY <1>1, <1>2, TheirsJoin
  <2> QED
    BY <1>2, <2>1, PartsTogether
<1> QED
  BY <1>1, <1>3, TheirsJoin

LEMMA TheirsWithoutBlank ==
  ASSUME StartupAssumption, NEW s \in Text
  PROVE  WithoutBlank(s) \in Text /\ Theirs(WithoutBlank(s)) = Theirs(s)
<1>1. Len(s) \in Nat
  BY TextProperties
<1>2. CASE Len(s) > 1 /\ s[Len(s)] = "nl" /\ s[Len(s) - 1] = "nl"
  <2> DEFINE m == Len(s) - 1
             last == SubSeq(s, m + 1, Len(s))
  <2>1. m \in 0 .. Len(s) /\ m + 1 \in Nat /\ 1 <= m + 1 /\ m + 1 = Len(s)
    BY <1>1, <1>2
  <2>2. SubSeq(s, 1, m) \in Text /\ last \in Text /\ SubSeq(s, 1, m) \o last = s
    BY <2>1, WholeText
  <2>3. \A i \in 1 .. Len(last) : last[i] \notin Said
    <3>1. Len(last) = 1 /\ last[1] = s[Len(s)]
      <4>1. /\ Len(last) = IF m + 1 <= Len(s) THEN Len(s) - (m + 1) + 1 ELSE 0
            /\ \A i \in 1 .. Len(s) - (m + 1) + 1 : last[i] = s[(m + 1) + i - 1]
        BY <1>1, <2>1, SubText
      <4> HIDE DEF m, last
      <4> QED
        BY <1>1, <2>1, <4>1
    <3>2. "nl" \notin Said
      BY DEF StartupAssumption, Marks
    <3> HIDE DEF last
    <3> QED
      BY <1>2, <3>1, <3>2
  <2>4. Theirs(last) = <<>>
    BY <2>2, <2>3, NothingOfTheirs
  <2>5. WithoutBlank(s) = SubSeq(s, 1, m)
    BY <1>2 DEF WithoutBlank
  <2> HIDE DEF last, m
  <2> QED
    BY <2>2, <2>4, <2>5, TheirsBeside
<1>3. CASE ~(Len(s) > 1 /\ s[Len(s)] = "nl" /\ s[Len(s) - 1] = "nl")
  BY <1>3 DEF WithoutBlank
<1> QED
  BY <1>2, <1>3

LEMMA TheirsRemoved ==
  ASSUME StartupAssumption, NEW t \in Text, HasBlock(t), ~LostItsEnd(t), Theirs(Found(t)) = <<>>
  PROVE  Theirs(removed(t)) = Theirs(t)
<1>1. Before(t) \in Text /\ Behind(t) \in Text
  BY PartsOfAText
<1>2. Theirs(removed(t)) = Theirs(WithoutBlank(Before(t))) \o Theirs(Behind(t))
  BY <1>1, TheirsWithoutBlank, TheirsJoin DEF removed
<1>3. Theirs(t) = Theirs(Before(t)) \o Theirs(Behind(t))
  BY <1>1, TheirsAround, TheirsJoin
<1> QED
  BY <1>1, <1>2, <1>3, TheirsWithoutBlank

LEMMA TheirsReplaced ==
  ASSUME StartupAssumption, NEW t \in Text, HasBlock(t), ~LostItsEnd(t), Theirs(Found(t)) = <<>>
  PROVE  Theirs(Before(t) \o block \o Behind(t)) = Theirs(t)
<1> DEFINE s == Before(t) \o block
<1>1. Before(t) \in Text /\ Behind(t) \in Text /\ block \in Text /\ s \in Text
  BY PartsOfAText, BlockIsText, JoinText
<1>2. Theirs(s) = Theirs(Before(t))
  BY <1>1, TheirsBeside, OursIsNotTheirs
<1> HIDE DEF s
<1>3. Theirs(s \o Behind(t)) = Theirs(s) \o Theirs(Behind(t))
  BY <1>1, TheirsJoin
<1>4. Theirs(t) = Theirs(Before(t)) \o Theirs(Behind(t))
  BY <1>1, TheirsAround, TheirsJoin
<1> QED
  BY <1>2, <1>3, <1>4 DEF s

LEMMA TheirsAppended ==
  ASSUME StartupAssumption, NEW t \in Text
  PROVE  Theirs(appendBlock(t)) = Theirs(t)
<1>1. CASE t = <<>>
  BY <1>1, OursIsNotTheirs DEF appendBlock
<1>2. CASE t # <<>>
  <2> DEFINE s == IF t[Len(t)] # "nl" THEN t \o <<"nl">> ELSE t
             u == s \o <<"nl">>
  <2>1. s \in Text /\ Theirs(s) = Theirs(t)
    BY BlockText, JoinText, TheirsBeside, OursIsNotTheirs
  <2>2. appendBlock(t) = u \o block
    BY <1>2 DEF appendBlock
  <2> HIDE DEF s
  <2>3. u \in Text /\ Theirs(u) = Theirs(s)
    BY <2>1, BlockText, JoinText, TheirsBeside, OursIsNotTheirs
  <2> HIDE DEF u
  <2> QED
    BY <2>1, <2>2, <2>3, BlockText, TheirsBeside, OursIsNotTheirs
<1> QED
  BY <1>1, <1>2

LEMMA TheirsOfBlank ==
  ASSUME StartupAssumption, NEW t \in Text, Blank(t)
  PROVE  Theirs(t) = <<>>
<1>1. "nl" \notin Said
  BY DEF StartupAssumption, Marks
<1> QED
  BY <1>1, NothingOfTheirs DEF Blank

LEMMA OutcomeKeepsTheRest ==
  ASSUME StartupAssumption, kind # "file", NEW o \in {"install", "remove"}, NEW t \in Text,
         ~Refused(o, t), ~AlreadySo(o, t), ~Spoiled(t)
  PROVE  Theirs(Outcome(o, t)) = Theirs(t)
<1>1. HasBlock(t) => ~LostItsEnd(t) /\ Theirs(Found(t)) = <<>>
  BY DEF Refused, Spoiled
<1>2. CASE o = "install"
  BY <1>1, <1>2, TheirsReplaced, TheirsAppended DEF Outcome, Installed
<1>3. CASE o = "remove"
  <2>1. HasBlock(t)
    BY <1>3 DEF AlreadySo
  <2>2. removed(t) \in Text /\ Theirs(removed(t)) = Theirs(t)
    BY <1>1, <2>1, RemovedText, TheirsRemoved
  <2>3. Theirs(Absent) = <<>>
    BY DEF Theirs
  <2> QED
    BY <1>3, <2>2, <2>3, TheirsOfBlank DEF Outcome, Removed
<1> QED
  BY <1>2, <1>3

(* Whatever text a run finds, the lines outside bb's block are in what it  *)
(* leaves, all and in their order, unless they stood inside the block, and *)
(* a file it deletes held none (installBlock, removeBlock, findBlock).     *)
THEOREM ItKeepsTheRest == Spec => []KeepsTheRest
<1>1. ASSUME Typed, Planned PROVE KeepsTheRest
  <2> SUFFICES ASSUME kind # "file", NEW p \in Runs, raw[p] = Absent \/ ~Spoiled(raw[p])
               PROVE  Theirs(wanted[p]) = Theirs(raw[p])
    BY DEF KeepsTheRest
  <2>1. CASE raw[p] = Absent
    <3>1. wanted[p] \in {Absent, appendBlock(<<>>)}
      BY <1>1, <2>1 DEF Planned, PlannedAt
    <3>2. Theirs(appendBlock(<<>>)) = <<>>
      BY BlockText, StartupAssumption, TheirsAppended, OursIsNotTheirs
    <3>3. Theirs(Absent) = <<>>
      BY DEF Theirs
    <3> QED
      BY <2>1, <3>1, <3>2, <3>3
  <2>2. CASE raw[p] # Absent
    <3>1. raw[p] \in Text /\ op[p] \in {"install", "remove"}
      BY <1>1, <2>2 DEF Typed
    <3>2. \/ wanted[p] = raw[p]
          \/ /\ ~Refused(op[p], raw[p]) /\ ~AlreadySo(op[p], raw[p])
             /\ wanted[p] = Outcome(op[p], raw[p])
      BY <1>1, <2>2 DEF Planned, PlannedAt
    <3> QED
      BY <2>2, <3>1, <3>2, StartupAssumption, OutcomeKeepsTheRest
  <2> QED
    BY <2>1, <2>2
<1> QED
  BY <1>1, PlannedAlways, PTL

----------------------------------------------------------------------------
(* Installs that overlap.                                                  *)

(* What a text that no install has to touch any more starts with, and what *)
(* an install may leave behind it before it truncates.                     *)
HasSetup(u, w) ==
  /\ StartsAs(u, w, Len(w))
  /\ w = ownFile \/ \A i \in Len(w) + 1 .. Len(u) : u[i] # "begin"

OneBegin(t) == \A i, j \in 1 .. Len(t) : t[i] = "begin" /\ t[j] = "begin" => i = j

Willing(t) == kind = "file" \/ ~LostItsEnd(t)

LEMMA OverTail ==
  ASSUME NEW t \in Text, NEW words \in Text, NEW f \in Nat,
         NEW i \in f + Len(words) + 1 .. Len(Over(t, f, words))
  PROVE  i \in 1 .. Len(t) /\ Over(t, f, words)[i] = t[i]
<1>1. Len(t) \in Nat /\ Len(words) \in Nat /\ Len(Over(t, f, words)) = Longer(Len(t), f + Len(words))
  BY OverLength, TextProperties
<1>2. i \in 1 .. Longer(Len(t), f + Len(words)) /\ i <= Len(t) /\ ~(i <= f + Len(words))
  BY <1>1 DEF Longer
<1>3. Over(t, f, words)[i] = t[i]
  BY <1>2 DEF Over
<1> QED
  BY <1>1, <1>2, <1>3

LEMMA SetupWritten ==
  ASSUME NEW u \in Text, NEW w \in Text, NEW f \in Nat, f <= Len(w), StartsAs(u, w, f),
         w = ownFile \/ \A i \in Len(w) + 1 .. Len(u) : u[i] # "begin"
  PROVE  HasSetup(Over(u, f, SubSeq(w, f + 1, Len(w))), w)
<1> DEFINE words == SubSeq(w, f + 1, Len(w))
           v == Over(u, f, words)
<1>1. StartsAs(v, w, Len(w))
  BY RestWritten
<1>2. w = ownFile \/ \A i \in Len(w) + 1 .. Len(v) : v[i] # "begin"
  <2> SUFFICES ASSUME \A i \in Len(w) + 1 .. Len(u) : u[i] # "begin",
                      NEW i \in Len(w) + 1 .. Len(v)
               PROVE  v[i] # "begin"
    OBVIOUS
  <2>1. words \in Text /\ f + Len(words) = Len(w) /\ Len(w) \in Nat
    <3>1. Len(w) \in Nat /\ f + 1 \in Nat /\ 1 <= f + 1 /\ Len(w) \in Int
      BY TextProperties
    <3>2. words \in Text /\ Len(words) = IF f + 1 <= Len(w) THEN Len(w) - (f + 1) + 1 ELSE 0
      BY <3>1, SubText
    <3> QED
      BY <3>1, <3>2
  <2> HIDE DEF words
  <2>2. i \in f + Len(words) + 1 .. Len(v)
    BY <2>1
  <2>3. i \in 1 .. Len(u) /\ v[i] = u[i]
    BY <2>1, <2>2, OverTail
  <2>4. i \in Len(w) + 1 .. Len(u)
    BY <2>1, <2>3
  <2> QED
    BY <2>3, <2>4
<1> QED
  BY <1>1, <1>2 DEF HasSetup

LEMMA SetupCut ==
  ASSUME NEW u \in Text, NEW w \in Text, HasSetup(u, w)
  PROVE  Cut(u, Len(w)) = w
  BY CutToSize DEF HasSetup

LEMMA SetupItself ==
  ASSUME NEW w \in Text
  PROVE  HasSetup(w, w)
<1>1. Len(w) \in Nat
  BY TextProperties
<1> QED
  BY <1>1 DEF HasSetup, StartsAs

(* A marker found is a line.                                               *)
LEMMA MarkerIsLine ==
  ASSUME NEW t \in Text, NEW marker, NEW f \in Nat, markerLine(t, marker, f) # 0
  PROVE  IsLine(t, marker, markerLine(t, marker, f))
<1> DEFINE lines == {i \in f .. Len(t) : IsLine(t, marker, i)}
<1>1. Len(t) \in Nat
  BY TextProperties
<1>2. markerLine(t, marker, f) = IF lines = {} THEN 0 ELSE Min(lines)
  BY DEF markerLine, IsLine
<1>3. lines \in SUBSET Nat /\ \A i \in lines : IsLine(t, marker, i)
  BY <1>1
<1> HIDE DEF lines
<1> QED
  BY <1>2, <1>3, LeastNumber

LEMMA NoMarkerFrom ==
  ASSUME NEW t \in Text, NEW marker, NEW f \in Nat, \A i \in f .. Len(t) : t[i] # marker
  PROVE  markerLine(t, marker, f) = 0
  BY DEF markerLine

(* Where bb's block is in a text an install leaves.                        *)
BlockAt(w, n) ==
  /\ n \in Nat /\ n + 6 <= Len(w)
  /\ \A k \in 1 .. 6 : w[n + k] = block[k]
  /\ n = 0 \/ w[n] = "nl"
  /\ \A i \in 1 .. n : ~IsLine(w, "begin", i)
  /\ \A i \in n + 2 .. Len(w) : w[i] # "begin"

LEMMA BlockWords ==
  /\ block[1] = "begin" /\ block[2] = "nl" /\ block[3] = "body"
  /\ block[4] = "nl" /\ block[5] = "end" /\ block[6] = "nl"
  /\ \A k \in 2 .. 6 : block[k] # "begin"
<1>1. /\ block[1] = "begin" /\ block[2] = "nl" /\ block[3] = "body"
      /\ block[4] = "nl" /\ block[5] = "end" /\ block[6] = "nl"
  BY DEF block
<1>2. \A k \in 2 .. 6 : k \in {2, 3, 4, 5, 6}
  OBVIOUS
<1> QED
  BY <1>1, <1>2

LEMMA BlockOf ==
  ASSUME NEW w \in Text, NEW n, BlockAt(w, n)
  PROVE  /\ w[n + 1] = "begin" /\ w[n + 2] = "nl" /\ w[n + 3] = "body"
         /\ w[n + 4] = "nl" /\ w[n + 5] = "end" /\ w[n + 6] = "nl"
<1>1. \A k \in 1 .. 6 : w[n + k] = block[k]
  BY DEF BlockAt
<1>2. 1 \in 1 .. 6 /\ 2 \in 1 .. 6 /\ 3 \in 1 .. 6 /\ 4 \in 1 .. 6 /\ 5 \in 1 .. 6 /\ 6 \in 1 .. 6
  OBVIOUS
<1>3. /\ w[n + 1] = block[1] /\ w[n + 2] = block[2] /\ w[n + 3] = block[3]
      /\ w[n + 4] = block[4] /\ w[n + 5] = block[5] /\ w[n + 6] = block[6]
  BY <1>1, <1>2
<1> QED
  BY <1>3, BlockWords

(* A text with bb's setup has bb's block, and no other behind it.          *)
LEMMA SetupFound ==
  ASSUME NEW u \in Text, NEW w \in Text, NEW n, BlockAt(w, n), HasSetup(u, w)
  PROVE  /\ HasBlock(u) /\ ~LostItsEnd(u) /\ Found(u) = block
         /\ markerLine(u, "begin", Begin(u) + 1) = 0
<1>1. n \in Nat /\ n + 6 <= Len(w) /\ Len(w) <= Len(u) /\ Len(w) \in Nat /\ Len(u) \in Nat
  BY TextProperties DEF BlockAt, HasSetup, StartsAs
<1>2. \A i \in 1 .. Len(w) : u[i] = w[i]
  BY DEF HasSetup, StartsAs
<1>3. \A i \in Len(w) + 1 .. Len(u) : u[i] # "begin"
  <2>1. Len(ownFile) = 4
    BY BlockText
  <2>2. w # ownFile
    <3>1. Len(w) = 4 => n + 6 <= 4
      BY <1>1
    <3>2. ~(n + 6 <= 4)
      BY <1>1
    <3> QED
      BY <2>1, <3>1, <3>2
  <2> QED
    BY <2>2 DEF HasSetup
<1>4. /\ u[n + 1] = "begin" /\ u[n + 2] = "nl" /\ u[n + 3] = "body"
      /\ u[n + 4] = "nl" /\ u[n + 5] = "end" /\ u[n + 6] = "nl"
  <2>1. /\ n + 1 \in 1 .. Len(w) /\ n + 2 \in 1 .. Len(w) /\ n + 3 \in 1 .. Len(w)
        /\ n + 4 \in 1 .. Len(w) /\ n + 5 \in 1 .. Len(w) /\ n + 6 \in 1 .. Len(w)
    BY <1>1
  <2>2. /\ u[n + 1] = w[n + 1] /\ u[n + 2] = w[n + 2] /\ u[n + 3] = w[n + 3]
        /\ u[n + 4] = w[n + 4] /\ u[n + 5] = w[n + 5] /\ u[n + 6] = w[n + 6]
    BY <1>2, <2>1
  <2> QED
    BY <2>2, BlockOf
<1>5. n = 0 \/ u[n] = "nl"
  <2> SUFFICES ASSUME n # 0 PROVE u[n] = "nl"
    OBVIOUS
  <2>1. n \in 1 .. Len(w) /\ w[n] = "nl"
    BY <1>1 DEF BlockAt
  <2> QED
    BY <1>2, <2>1
<1>6. \A i \in 1 .. n : ~IsLine(u, "begin", i)
  <2> SUFFICES ASSUME NEW i \in 1 .. n, IsLine(u, "begin", i) PROVE FALSE
    OBVIOUS
  <2>1. i \in 1 .. Len(w) /\ i + 1 \in 1 .. Len(w) /\ i # Len(w) /\ i # Len(u)
        /\ (i # 1 => i - 1 \in 1 .. Len(w))
    BY <1>1
  <2>2. u[i] = w[i] /\ u[i + 1] = w[i + 1] /\ (i # 1 => u[i - 1] = w[i - 1])
    BY <1>2, <2>1
  <2>3. ~IsLine(w, "begin", i)
    BY DEF BlockAt
  <2> QED
    BY <2>1, <2>2, <2>3 DEF IsLine
<1>7. Begin(u) = n + 1
  <2>1. IsLine(u, "begin", n + 1)
    <3>1. n + 1 = 1 \/ u[(n + 1) - 1] = "nl"
      BY <1>1, <1>5
    <3>2. u[(n + 1) + 1] = "nl"
      BY <1>1, <1>4
    <3> QED
      BY <1>4, <3>1, <3>2 DEF IsLine
  <2>2. n + 1 \in 1 .. Len(u) /\ (n + 1) - 1 = n
    BY <1>1
  <2>3. markerLine(u, "begin", 1) = n + 1
    BY <1>6, <2>1, <2>2, MarkerAt
  <2> QED
    BY <2>3 DEF Begin
<1>8. End(u) = n + 5
  <2>1. IsLine(u, "end", n + 5)
    <3>1. u[(n + 5) - 1] = "nl" /\ u[(n + 5) + 1] = "nl"
      BY <1>1, <1>4
    <3> QED
      BY <1>4, <3>1 DEF IsLine
  <2>2. n + 5 \in n + 1 .. Len(u) /\ (n + 5) - 1 = n + 4 /\ n + 1 \in Nat
    BY <1>1
  <2>3. \A i \in n + 1 .. n + 4 : ~IsLine(u, "end", i)
    <3>1. \A i \in n + 1 .. n + 4 : i \in {n + 1, n + 2, n + 3, n + 4}
      BY <1>1
    <3> QED
      BY <1>4, <3>1 DEF IsLine
  <2>4. markerLine(u, "end", n + 1) = n + 5
    BY <2>1, <2>2, <2>3, MarkerAt
  <2> QED
    BY <1>7, <2>4 DEF End
<1>9. HasBlock(u) /\ ~LostItsEnd(u) /\ Past(u) = n + 6
  BY <1>1, <1>7, <1>8 DEF HasBlock, LostItsEnd, Past
<1>10. Found(u) = block
  <2>1. /\ Found(u) \in Text /\ Len(Found(u)) = Past(u) - Begin(u) + 1
        /\ \A i \in 1 .. Len(Found(u)) : Found(u)[i] = u[Begin(u) + i - 1]
    BY <1>9, PartsOfAText
  <2>2. Len(Found(u)) = 6
    BY <1>1, <1>7, <1>9, <2>1
  <2>3. \A k \in 1 .. 6 : Found(u)[k] = block[k]
    <3> TAKE k \in 1 .. 6
    <3>1. Begin(u) + k - 1 = n + k /\ k \in 1 .. Len(Found(u)) /\ n + k \in 1 .. Len(w)
      BY <1>1, <1>7, <2>2
    <3>2. Found(u)[k] = u[n + k]
      BY <2>1, <3>1
    <3>3. u[n + k] = w[n + k] /\ w[n + k] = block[k]
      BY <1>2, <3>1 DEF BlockAt
    <3> QED
      BY <3>2, <3>3
  <2> QED
    BY <2>1, <2>2, <2>3, BlockIsText, SameText
<1>11. markerLine(u, "begin", Begin(u) + 1) = 0
  <2>1. Begin(u) + 1 = n + 2 /\ n + 2 \in Nat
    BY <1>1, <1>7
  <2>2. ASSUME NEW i \in n + 2 .. Len(u) PROVE u[i] # "begin"
    <3>1. CASE i <= Len(w)
      <4>1. i \in 1 .. Len(w) /\ i \in n + 2 .. Len(w)
        BY <1>1, <3>1
      <4> QED
        BY <1>2, <4>1 DEF BlockAt
    <3>2. CASE ~(i <= Len(w))
      <4>1. i \in Len(w) + 1 .. Len(u)
        BY <1>1, <3>2
      <4> QED
        BY <1>3, <4>1
    <3> QED
      BY <3>1, <3>2
  <2> QED
    BY <2>1, <2>2, NoMarkerFrom
<1> QED
  BY <1>9, <1>10, <1>11

(* What an install leaves of a text with a block, and of one without.      *)
LEMMA ReplacedBlock ==
  ASSUME NEW t \in Text, OneBegin(t), HasBlock(t), ~LostItsEnd(t)
  PROVE  /\ Before(t) \o block \o Behind(t) \in Text
         /\ Begin(t) \in 1 .. Len(Before(t) \o block \o Behind(t))
         /\ BlockAt(Before(t) \o block \o Behind(t), Begin(t) - 1)
<1> DEFINE n == Begin(t) - 1
           s == Before(t) \o block
           w == s \o Behind(t)
<1>1. /\ Begin(t) \in 1 .. Len(t) /\ Past(t) \in Begin(t) .. Len(t) /\ Len(t) \in Nat
      /\ Before(t) \in Text /\ Len(Before(t)) = n
      /\ Behind(t) \in Text /\ Len(Behind(t)) = Len(t) - Past(t)
  BY PartsOfAText, TextProperties
<1>2. n \in Nat /\ n + 1 = Begin(t) /\ IsLine(t, "begin", n + 1) /\ block \in Text /\ Len(block) = 6
  <2>1. IsLine(t, "begin", Begin(t))
    BY MarkerIsLine DEF HasBlock, Begin
  <2> QED
    BY <1>1, <2>1, BlockIsText
<1>3. \A i \in 1 .. n : Before(t)[i] = t[i]
  <2>1. \A i \in 1 .. n - 1 + 1 : SubSeq(t, 1, n)[i] = t[1 + i - 1]
    BY <1>1, <1>2, SubText
  <2>2. \A i \in 1 .. n : i \in 1 .. n - 1 + 1 /\ 1 + i - 1 = i
    BY <1>2
  <2>3. Before(t) = SubSeq(t, 1, n)
    BY DEF Before
  <2> HIDE DEF n
  <2> QED
    BY <2>1, <2>2, <2>3
<1>4. \A i \in 1 .. Len(Behind(t)) : Past(t) + i \in Past(t) + 1 .. Len(t) /\ Behind(t)[i] = t[Past(t) + i]
  <2> TAKE i \in 1 .. Len(Behind(t))
  <2>1. i \in 1 .. Len(t) - (Past(t) + 1) + 1 /\ (Past(t) + 1) + i - 1 = Past(t) + i
    BY <1>1
  <2>2. Behind(t)[i] = t[Past(t) + i]
    <3>1. \A j \in 1 .. Len(t) - (Past(t) + 1) + 1 :
            SubSeq(t, Past(t) + 1, Len(t))[j] = t[(Past(t) + 1) + j - 1]
      <4>1. Past(t) + 1 \in Nat /\ 1 <= Past(t) + 1 /\ Len(t) \in Int /\ Len(t) <= Len(t)
        BY <1>1
      <4> QED
        BY <4>1, SubText
    <3> QED
      BY <2>1, <3>1 DEF Behind
  <2>3. Past(t) + i \in Past(t) + 1 .. Len(t)
    BY <1>1
  <2> QED
    BY <2>2, <2>3
<1> HIDE DEF n
<1>5. /\ s \in Text /\ Len(s) = n + 6
      /\ \A i \in 1 .. n : s[i] = t[i]
      /\ \A k \in 1 .. 6 : s[n + k] = block[k]
  <2>1. s \in Text /\ Len(s) = n + 6
    <3>1. s \in Text /\ Len(s) = Len(Before(t)) + Len(block)
      BY <1>1, <1>2, JoinText, Zenon
    <3> QED
      BY <1>1, <1>2, <3>1
  <2>2. \A i \in 1 .. n : s[i] = t[i]
    BY <1>1, <1>2, <1>3, HeadText
  <2>3. \A k \in 1 .. 6 : s[n + k] = block[k]
    <3>1. \A k \in 1 .. Len(block) : s[Len(Before(t)) + k] = block[k]
      BY <1>1, <1>2, TailText
    <3> HIDE DEF s
    <3> QED
      BY <1>1, <1>2, <3>1
  <2> QED
    BY <2>1, <2>2, <2>3
<1> HIDE DEF s
<1>6. /\ w \in Text /\ Len(w) = n + 6 + Len(Behind(t))
      /\ \A i \in 1 .. n + 6 : w[i] = s[i]
      /\ \A i \in 1 .. Len(Behind(t)) : w[n + 6 + i] = Behind(t)[i]
  <2>1. w \in Text /\ Len(w) = n + 6 + Len(Behind(t))
    <3>1. w \in Text /\ Len(w) = Len(s) + Len(Behind(t))
      BY <1>1, <1>5, JoinText
    <3> QED
      BY <1>5, <3>1
  <2>2. \A i \in 1 .. n + 6 : w[i] = s[i]
    BY <1>1, <1>5, HeadText
  <2>3. \A i \in 1 .. Len(Behind(t)) : w[n + 6 + i] = Behind(t)[i]
    <3>1. \A i \in 1 .. Len(Behind(t)) : w[Len(s) + i] = Behind(t)[i]
      BY <1>1, <1>5, TailText
    <3> QED
      BY <1>5, <3>1
  <2> QED
    BY <2>1, <2>2, <2>3
<1> HIDE DEF w
<1>7. \A i \in 1 .. n : w[i] = t[i]
  <2>1. \A i \in 1 .. n : i \in 1 .. n + 6
    BY <1>2
  <2> QED
    BY <1>5, <1>6, <2>1
<1>8. \A k \in 1 .. 6 : w[n + k] = block[k]
  <2>1. \A k \in 1 .. 6 : n + k \in 1 .. n + 6
    BY <1>2
  <2> QED
    BY <1>5, <1>6, <2>1
<1>9. n = 0 \/ w[n] = "nl"
  <2> SUFFICES ASSUME n # 0 PROVE w[n] = "nl"
    OBVIOUS
  <2>1. n \in 1 .. n /\ n + 1 # 1 /\ (n + 1) - 1 = n
    BY <1>2
  <2>2. t[n] = "nl"
    BY <1>2, <2>1 DEF IsLine
  <2> QED
    BY <1>7, <2>1, <2>2
<1>10. \A i \in 1 .. Len(t) : t[i] = "begin" => i = n + 1
  <2>1. n + 1 \in 1 .. Len(t) /\ t[n + 1] = "begin"
    BY <1>1, <1>2 DEF IsLine
  <2> QED
    BY <2>1 DEF OneBegin
<1>11. \A i \in 1 .. n : ~IsLine(w, "begin", i)
  <2>1. \A i \in 1 .. n : i \in 1 .. Len(t) /\ i # n + 1
    BY <1>1, <1>2
  <2> QED
    BY <1>7, <1>10, <2>1 DEF IsLine
<1>12. ASSUME NEW i \in n + 2 .. Len(w) PROVE w[i] # "begin"
  <2>1. CASE i <= n + 6
    <3>1. i - n \in 2 .. 6 /\ i - n \in 1 .. 6 /\ n + (i - n) = i
      BY <1>2, <2>1
    <3>2. w[n + (i - n)] = block[i - n]
      BY <1>8, <3>1
    <3> QED
      BY <3>1, <3>2, BlockWords
  <2>2. CASE ~(i <= n + 6)
    <3> DEFINE j == i - (n + 6)
    <3>1. j \in 1 .. Len(Behind(t)) /\ n + 6 + j = i
      BY <1>1, <1>2, <1>6, <2>2
    <3> HIDE DEF j
    <3>2. w[i] = t[Past(t) + j]
      BY <1>4, <1>6, <3>1
    <3>3. Past(t) + j \in 1 .. Len(t) /\ Past(t) + j # n + 1
      BY <1>1, <1>2, <3>1
    <3> QED
      BY <1>10, <3>2, <3>3
  <2> QED
    BY <2>1, <2>2
<1>13. BlockAt(w, n)
  <2>1. n + 6 <= Len(w)
    BY <1>1, <1>2, <1>6
  <2> QED
    BY <1>2, <1>8, <1>9, <1>11, <1>12, <2>1 DEF BlockAt
<1>14. Begin(t) \in 1 .. Len(w)
  BY <1>1, <1>2, <1>6
<1> QED
  BY <1>6, <1>13, <1>14 DEF w, s, n

LEMMA AppendedBlockAt ==
  ASSUME NEW t \in Text, ~HasBlock(t)
  PROVE  \E n : BlockAt(appendBlock(t), n)
<1>1. PICK s \in Text : AppendedBehind(s, t)
  BY AppendedShape
<1> DEFINE n == Len(s)
           w == s \o block
<1>2. n \in Nat /\ block \in Text /\ Len(block) = 6 /\ w \in Text /\ Len(w) = n + 6
      /\ w = appendBlock(t)
  <2>1. n \in Nat /\ block \in Text /\ Len(block) = 6 /\ w = appendBlock(t)
    BY <1>1, TextProperties, BlockIsText DEF AppendedBehind
  <2>2. w \in Text /\ Len(w) = n + Len(block)
    BY <2>1, JoinText
  <2> QED
    BY <2>1, <2>2
<1>3. \A i \in 1 .. n : w[i] = s[i]
  BY <1>2, HeadText
<1>4. \A k \in 1 .. 6 : w[n + k] = block[k]
  <2> TAKE k \in 1 .. 6
  <2>1. k \in 1 .. Len(block)
    BY <1>2
  <2> QED
    BY <1>2, <2>1, TailText, Zenon
<1>5. \A i \in 1 .. n : ~IsLine(w, "begin", i)
  BY <1>1 DEF AppendedBehind
<1>6. n = 0 \/ s[n] = "nl"
  <2>1. CASE s = <<>>
    BY <2>1
  <2>2. ASSUME NEW u \in Text, s = u \o <<"nl">> PROVE s[n] = "nl"
    <3>1. <<"nl">> \in Text /\ Len(<<"nl">>) = 1 /\ 1 \in 1 .. Len(<<"nl">>) /\ <<"nl">>[1] = "nl"
      BY BlockText
    <3>2. n = Len(u) + 1 /\ s[Len(u) + 1] = "nl"
      BY <2>2, <3>1, JoinText, TailText
    <3> QED
      BY <3>2
  <2> QED
    BY <1>1, <2>1, <2>2 DEF AppendedBehind
<1> HIDE DEF n, w
<1>7. n = 0 \/ w[n] = "nl"
  <2> SUFFICES ASSUME n # 0 PROVE w[n] = "nl"
    OBVIOUS
  <2>1. n \in 1 .. n
    BY <1>2
  <2> QED
    BY <1>3, <1>6, <2>1
<1>8. ASSUME NEW i \in n + 2 .. Len(w) PROVE w[i] # "begin"
  <2>1. i - n \in 2 .. 6 /\ i - n \in 1 .. 6 /\ n + (i - n) = i
    BY <1>2
  <2>2. w[n + (i - n)] = block[i - n]
    BY <1>4, <2>1
  <2> QED
    BY <2>1, <2>2, BlockWords
<1>9. BlockAt(w, n)
  <2>1. n + 6 <= Len(w)
    BY <1>2
  <2> QED
    BY <1>2, <1>4, <1>5, <1>7, <1>8, <2>1 DEF BlockAt
<1> QED
  BY <1>2, <1>9

(* The text an install leaves.                                             *)
LEMMA InstalledText ==
  ASSUME NEW t \in Text, Willing(t)
  PROVE  Installed(t) \in Text /\ (kind = "file" => Installed(t) = ownFile)
<1>1. CASE kind = "file"
  BY <1>1, BlockText DEF Installed
<1>2. CASE kind # "file" /\ HasBlock(t)
  BY <1>2, ReplacedText DEF Installed, Willing
<1>3. CASE kind # "file" /\ ~HasBlock(t)
  BY <1>3, AppendedText DEF Installed
<1> QED
  BY <1>1, <1>2, <1>3

LEMMA InstalledBlock ==
  ASSUME NEW t \in Text, OneBegin(t), Willing(t), kind # "file"
  PROVE  \E n : BlockAt(Installed(t), n)
<1>1. CASE HasBlock(t)
  <2>1. Installed(t) = Before(t) \o block \o Behind(t) /\ ~LostItsEnd(t)
    BY <1>1 DEF Installed, Willing
  <2>2. BlockAt(Installed(t), Begin(t) - 1)
    BY <1>1, <2>1, ReplacedBlock
  <2> QED
    BY <2>2
<1>2. CASE ~HasBlock(t)
  <2>1. Installed(t) = appendBlock(t)
    BY <1>2 DEF Installed
  <2> QED
    BY <1>2, <2>1, AppendedBlockAt
<1> QED
  BY <1>1, <1>2

(* Behind what an install writes over the first text there is no block.    *)
LEMMA NothingBehind ==
  ASSUME NEW t \in Text, OneBegin(t), Willing(t), kind # "file"
  PROVE  \A i \in Len(Installed(t)) + 1 .. Len(t) : t[i] # "begin"
<1>0. Len(t) \in Nat
  BY TextProperties
<1>1. CASE HasBlock(t)
  <2>1. Installed(t) = Before(t) \o block \o Behind(t) /\ ~LostItsEnd(t)
    BY <1>1 DEF Installed, Willing
  <2>2. Installed(t) \in Text /\ Begin(t) \in 1 .. Len(Installed(t))
    BY <1>1, <2>1, ReplacedBlock
  <2>3. Begin(t) \in 1 .. Len(t) /\ t[Begin(t)] = "begin"
    BY <1>0, <1>1, MarkerText DEF HasBlock, Begin
  <2>4. Len(Installed(t)) \in Nat
    BY <2>2, TextProperties
  <2> HIDE <2>1
  <2> SUFFICES ASSUME NEW i \in Len(Installed(t)) + 1 .. Len(t), t[i] = "begin" PROVE FALSE
    OBVIOUS
  <2>5. i \in 1 .. Len(t) /\ i # Begin(t)
    BY <1>0, <2>2, <2>3, <2>4
  <2> QED
    BY <2>3, <2>5 DEF OneBegin
<1>2. CASE ~HasBlock(t)
  <2>1. Installed(t) = appendBlock(t)
    BY <1>2 DEF Installed
  <2>2. appendBlock(t) \in Text /\ Len(appendBlock(t)) > Len(t) /\ Len(appendBlock(t)) \in Nat
    BY AppendedText, TextProperties
  <2> QED
    BY <1>0, <2>1, <2>2
<1> QED
  BY <1>1, <1>2

(* What an install finds as it should be is what it would leave.           *)
LEMMA AlreadyInstalled ==
  ASSUME NEW t \in Text, Willing(t), AlreadySo("install", t)
  PROVE  Installed(t) = t
<1>1. CASE kind = "file"
  BY <1>1 DEF Installed, AlreadySo
<1>2. CASE kind # "file"
  <2>1. HasBlock(t) /\ ~LostItsEnd(t) /\ Found(t) = block
    BY <1>2 DEF AlreadySo, Willing
  <2>2. Before(t) \o Found(t) \o Behind(t) = t
    BY <2>1, PartsTogether
  <2> QED
    BY <1>2, <2>1, <2>2 DEF Installed
<1> QED
  BY <1>1, <1>2

(* An install of what has the setup, but behind it, leaves what it was to  *)
(* leave at first, and does not append to it.                              *)
LEMMA SetupAgain ==
  ASSUME NEW u \in Text, HasSetup(u, ownFile), u # ownFile
  PROVE  ~IsPrefix(u, ownFile)
<1>1. Len(u) \in Nat /\ ownFile \in Text /\ Len(ownFile) = 4
  BY TextProperties, BlockText
<1>2. 4 <= Len(u) /\ \A i \in 1 .. 4 : u[i] = ownFile[i]
  BY <1>1 DEF HasSetup, StartsAs
<1>3. Len(u) # 4
  <2> SUFFICES ASSUME Len(u) = 4 PROVE FALSE
    OBVIOUS
  <2> QED
    BY <1>1, <1>2, SameText
<1> QED
  BY <1>1, <1>2, <1>3 DEF IsPrefix

(* What is so of each run while all only install, and nobody else writes:  *)
(* t is the text the first of them found, and w the one they all leave.    *)
AllCalm == said = 0 /\ \A p \in Runs : Calm(p)

Idle == \A p \in Runs : pc[p] = "idle" => op[p] = "install"

InstallsAt(t, w, p) ==
  /\ pc[p] \in {"idle", "read", "create", "fill", "open", "write", "truncate", "done"}
  /\ pc[p] \in {"create", "fill"} => wanted[p] = w /\ t = <<>>
  /\ pc[p] = "fill" => at = p /\ opened[p] = p
  /\ pc[p] \in {"open", "write", "truncate"} =>
       /\ at # Absent /\ wanted[p] = w
       /\ raw[p] = t \/ ~IsPrefix(raw[p], w)
  /\ pc[p] \in {"write", "truncate"} => opened[p] = at
  /\ pc[p] = "truncate" \/ told[p] \in {"changed", "unchanged"} =>
       at # Absent /\ HasSetup(File, w)
  /\ pc[p] \in {"create", "fill", "open", "write", "truncate"}
       \/ told[p] \in {"changed", "unchanged"} => Willing(t)

InstallsInto(t, w) ==
  /\ OneBegin(t) /\ w = Installed(t)
  /\ at = Absent => t = <<>>
  /\ at # Absent => File = t \/ (HasSetup(File, w) /\ Willing(t))
  /\ \A p \in Runs : InstallsAt(t, w, p)

Installs == AllCalm => \E t \in Text : \E w : InstallsInto(t, w)

(* The hypothesis of the theorem: no first text has two begins of a block. *)
OneBeginEach == \A t \in Texts : OneBegin(t)

LEMMA OwnVariables ==
  ASSUME Typed, NEW p \in Runs, Run(p)
  PROVE  /\ kind' = kind /\ said' = said
         /\ \A q \in Runs \ {p} : pc'[q] = pc[q] /\ op'[q] = op[q] /\ raw'[q] = raw[q]
              /\ wanted'[q] = wanted[q] /\ opened'[q] = opened[q] /\ told'[q] = told[q]
<1>1. kind' = kind /\ said' = said
  BY DEF Run, Start, ReadFails, FindNone, FindOther, FindSo, FindWork, Looks, Create, Fill,
     Uncreate, Open, WriteAt, Truncate, PutBack, CutBack, Delete, Kill
<1>2. ASSUME NEW q \in Runs \ {p} PROVE op'[q] = op[q]
  BY <1>2 DEF Typed, Run, Start, ReadFails, FindNone, FindOther, FindSo, FindWork, Looks, Create,
     Fill, Uncreate, Open, WriteAt, Truncate, PutBack, CutBack, Delete, Kill, plan
<1> QED
  BY <1>1, <1>2, OthersStay

(* Runs that are calm were calm before.                                    *)
LEMMA CalmBefore ==
  ASSUME Typed, Knows, Idle, [Next]_vars, AllCalm'
  PROVE  AllCalm
<1>1. CASE UNCHANGED vars
  BY <1>1 DEF vars, plan, AllCalm, Calm
<1>2. ASSUME NEW p \in Runs, Run(p) PROVE AllCalm
  <2>1. ASSUME NEW q \in Runs \ {p} PROVE Calm(q)
    BY <1>2, <2>1, OwnVariables DEF AllCalm, Calm
  <2>2. Calm(p)
    <3>0. /\ pc \in [Runs -> Steps] /\ op \in [Runs -> {"install", "remove"}]
          /\ pc'[p] \notin {"putBack", "cutBack", "uncreate", "killed"} /\ op'[p] = "install"
          /\ told'[p] \notin {"failed", "checkByHand"}
      BY DEF Typed, AllCalm, Calm
    <3>1. CASE Start(p)
      BY <1>2, <3>0, <3>1 DEF Start, Idle, Knows, KnowsAt, Calm
    <3>2. CASE ~Start(p)
      <4>1. op' = op
        BY <1>2, <3>2 DEF Run, ReadFails, FindNone, FindOther, FindSo, FindWork, Looks, Create,
           Fill, Uncreate, Open, WriteAt, Truncate, PutBack, CutBack, Delete, Kill, plan
      <4>2. pc[p] \notin {"done", "left", "killed"}
        BY <1>2 DEF Run, Start, ReadFails, FindNone, FindOther, FindSo, FindWork, Looks, Create,
           Fill, Uncreate, Open, WriteAt, Truncate, PutBack, CutBack, Delete, Kill
      <4>3. told[p] = "nothing"
        BY <4>2 DEF Knows, KnowsAt
      <4>4. pc[p] \notin {"putBack", "cutBack", "uncreate"}
        <5>1. told \in [Runs -> {"nothing", "changed", "unchanged", "notFound", "conflict",
                                 "failed", "unreadable", "checkByHand"}]
          BY DEF Typed
        <5>2. ~Uncreate(p) /\ ~PutBack(p) /\ ~CutBack(p) /\ ~Kill(p)
          BY <3>0, <5>1 DEF Uncreate, PutBack, CutBack, Kill, Tell, Goto
        <5> QED
          BY <1>2, <5>2 DEF Run, Start, ReadFails, FindNone, FindOther, FindSo, FindWork, Looks,
             Create, Fill, Open, WriteAt, Truncate, Delete
      <4> QED
        BY <3>0, <4>1, <4>2, <4>3, <4>4 DEF Calm
    <3> QED
      BY <3>1, <3>2
  <2>3. said = 0
    BY <1>2, OwnVariables DEF AllCalm
  <2> QED
    BY <2>1, <2>2, <2>3 DEF AllCalm
<1>3. CASE SaySomething
  BY <1>3 DEF SaySomething, AllCalm, Typed
<1> QED
  BY <1>1, <1>2, <1>3 DEF Next

(* The other runs' part, when a run's step changes the file.               *)
LEMMA InstallsStays ==
  ASSUME NEW t, NEW w, NEW q \in Runs, InstallsAt(t, w, q), kind' = kind,
         pc'[q] = pc[q], raw'[q] = raw[q], wanted'[q] = wanted[q], opened'[q] = opened[q],
         told'[q] = told[q], at # Absent => at' = at,
         at # Absent /\ HasSetup(File, w) => HasSetup(File', w), Absent \notin Files, q \in Files
  PROVE  InstallsAt(t, w, q)'
<1>1. Willing(t)' = Willing(t)
  BY DEF Willing
<1>2. HasSetup(File, w)' = HasSetup(File', w)
  BY DEF HasSetup, StartsAs
<1>3. CASE at # Absent
  BY <1>1, <1>2, <1>3 DEF InstallsAt
<1>4. CASE at = Absent
  <2>1. /\ pc[q] \notin {"fill", "open", "write", "truncate"}
        /\ told[q] \notin {"changed", "unchanged"}
    BY <1>4 DEF InstallsAt
  <2> QED
    BY <1>1, <2>1 DEF InstallsAt
<1> QED
  BY <1>3, <1>4

LEMMA InstalledInNone ==
  /\ ~HasBlock(<<>>) /\ Willing(<<>>)
  /\ Installed(<<>>) = IF kind = "file" THEN ownFile ELSE appendBlock(<<>>)
<1>1. ~HasBlock(<<>>)
  <2>1. \A i \in 1 .. Len(<<>>) : <<>>[i] # "begin"
    BY BlockText
  <2> QED
    BY <2>1, BlockText, NoMarkerFrom DEF HasBlock, Begin
<1> QED
  BY <1>1 DEF Willing, LostItsEnd, Installed

(* A run that looks at the file, or opens it.                              *)
LEMMA InstallsLooks ==
  ASSUME StartupAssumption, Typed, Knows, AllCalm, AllCalm', NEW t \in Text, NEW w,
         InstallsInto(t, w), NEW p \in Runs, UNCHANGED <<kind, at, text>>,
         Start(p) \/ ReadFails(p) \/ FindNone(p) \/ FindOther(p) \/ FindSo(p) \/ FindWork(p)
           \/ Open(p)
  PROVE  InstallsAt(t, w, p)'
<1> USE DEF Goto, Tell, plan, path
<1>0. /\ w = Installed(t) /\ OneBegin(t) /\ op[p] = "install" /\ told[p] \in {"nothing"}
      /\ pc \in [Runs -> Steps] /\ raw \in [Runs -> Text \cup {Absent}]
      /\ wanted \in [Runs -> Text \cup {Absent}] /\ opened \in [Runs -> Files]
      /\ told \in [Runs -> {"nothing", "changed", "unchanged", "notFound", "conflict", "failed",
                            "unreadable", "checkByHand"}]
      /\ InstallsAt(t, w, p) /\ p \in Files /\ Absent \notin Files \cup Text
  <2>1. pc[p] \in {"idle", "read", "open"}
    BY DEF Start, ReadFails, FindNone, FindOther, FindSo, FindWork, Looks, Open
  <2> QED
    BY <2>1 DEF InstallsInto, AllCalm, Calm, Typed, Knows, KnowsAt, StartupAssumption, Files
<1>1. File' = File /\ Willing(t)' = Willing(t) /\ HasSetup(File, w)' = HasSetup(File, w)
  BY DEF File, Willing, HasSetup, StartsAs
<1>2. CASE Start(p)
  BY <1>0, <1>2 DEF Start, InstallsAt
<1>3. CASE ReadFails(p)
  BY <1>0, <1>3 DEF ReadFails, InstallsAt
<1>4. CASE FindNone(p)
  <2>1. t = <<>> /\ pc'[p] = "create" /\ told'[p] = "nothing"
        /\ wanted'[p] = IF kind = "file" THEN ownFile ELSE appendBlock(<<>>)
    BY <1>0, <1>4 DEF FindNone, Looks, InstallsInto
  <2>2. wanted'[p] = w /\ Willing(t)
    BY <1>0, <2>1, InstalledInNone
  <2> QED
    BY <1>1, <2>1, <2>2 DEF InstallsAt
<1>5. CASE FindOther(p)
  BY <1>0, <1>5 DEF FindOther, Looks, InstallsAt
<1>6. CASE FindSo(p)
  <2>1. /\ at # Absent /\ File \in Text /\ ~Refused("install", File) /\ AlreadySo("install", File)
        /\ pc'[p] = "done" /\ told'[p] = "unchanged"
    BY <1>0, <1>6 DEF FindSo, Looks, File, Typed
  <2>2. HasSetup(File, w) /\ Willing(t)
    <3>1. CASE File = t
      <4>1. Willing(t)
        BY <2>1, <3>1 DEF Refused, Willing
      <4> QED
        BY <1>0, <2>1, <3>1, <4>1, AlreadyInstalled, SetupItself
    <3>2. CASE File # t
      BY <2>1, <3>2 DEF InstallsInto
    <3> QED
      BY <3>1, <3>2
  <2> QED
    BY <1>1, <2>1, <2>2 DEF InstallsAt
<1>7. CASE FindWork(p)
  <2> DEFINE u == File
  <2>1. /\ at # Absent /\ u \in Text /\ ~Refused("install", u) /\ ~AlreadySo("install", u)
        /\ wanted'[p] = Installed(u) /\ raw'[p] = u /\ told'[p] = "nothing"
        /\ pc'[p] = IF Installed(u) = Absent THEN "delete" ELSE "open"
    BY <1>0, <1>7 DEF FindWork, Looks, File, Typed, Outcome
  <2> HIDE DEF u
  <2>2. Willing(u)
    BY <2>1 DEF Refused, Willing
  <2>3. pc'[p] = "open"
    BY <1>0, <2>1, <2>2, InstalledText
  <2>4. Willing(t) /\ Installed(u) = w /\ (u = t \/ ~IsPrefix(u, w))
    <3>1. CASE u = t
      BY <1>0, <2>2, <3>1
    <3>2. CASE u # t
      <4>1. HasSetup(u, w) /\ Willing(t)
        BY <2>1, <3>2 DEF InstallsInto, u
      <4>2. kind = "file"
        <5> SUFFICES ASSUME kind # "file" PROVE FALSE
          OBVIOUS
        <5>1. w \in Text
          BY <1>0, <4>1, InstalledText
        <5>2. PICK n : BlockAt(w, n)
          BY <1>0, <4>1, InstalledBlock
        <5>3. HasBlock(u) /\ Found(u) = block
          BY <2>1, <4>1, <5>1, <5>2, SetupFound
        <5> QED
          BY <2>1, <5>3 DEF AlreadySo
      <4>3. w = ownFile /\ Installed(u) = ownFile /\ u # ownFile
        BY <1>0, <2>1, <4>2 DEF Installed, AlreadySo
      <4> QED
        BY <2>1, <4>1, <4>3, SetupAgain
    <3> QED
      BY <3>1, <3>2
  <2> QED
    BY <1>1, <2>1, <2>3, <2>4 DEF InstallsAt
<1>8. CASE Open(p)
  <2>1. pc[p] = "open" /\ at # Absent /\ opened'[p] = at /\ pc'[p] = "write" /\ told' = told
    BY <1>0, <1>8 DEF Open, AllCalm, Calm
  <2>2. raw' = raw /\ wanted' = wanted
    BY <1>8 DEF Open
  <2> QED
    BY <1>0, <1>1, <2>1, <2>2 DEF InstallsAt
<1> QED
  BY <1>2, <1>3, <1>4, <1>5, <1>6, <1>7, <1>8

(* A run that writes over what it may find.                                *)
LEMMA InstallsMayWrite ==
  ASSUME Typed, NEW t \in Text, NEW w, InstallsInto(t, w), at # Absent, Willing(t),
         NEW f \in Nat, f <= Len(w), File = t => StartsAs(t, w, f)
  PROVE  w \in Text /\ HasSetup(Over(File, f, SubSeq(w, f + 1, Len(w))), w)
<1>1. w \in Text /\ w = Installed(t) /\ OneBegin(t) /\ (kind = "file" => w = ownFile)
  BY InstalledText DEF InstallsInto
<1>2. File \in Text
  BY DEF Typed, File
<1>3. CASE File = t
  <2>1. w = ownFile \/ \A i \in Len(w) + 1 .. Len(t) : t[i] # "begin"
    BY <1>1, NothingBehind
  <2> QED
    BY <1>1, <1>3, <2>1, SetupWritten
<1>4. CASE HasSetup(File, w)
  <2>1. Len(w) \in Nat
    BY <1>1, TextProperties
  <2>2. StartsAs(File, w, f)
    BY <1>4, <2>1 DEF HasSetup, StartsAs
  <2>3. w = ownFile \/ \A i \in Len(w) + 1 .. Len(File) : File[i] # "begin"
    BY <1>4 DEF HasSetup
  <2> QED
    BY <1>1, <1>2, <2>2, <2>3, SetupWritten
<1> QED
  BY <1>3, <1>4 DEF InstallsInto

LEMMA InstallsWrites ==
  ASSUME StartupAssumption, Typed, Knows, AllCalm, AllCalm', NEW t \in Text, NEW w,
         InstallsInto(t, w), NEW p \in Runs, Fill(p) \/ WriteAt(p) \/ Truncate(p)
  PROVE  /\ at' = at /\ at # Absent /\ HasSetup(File', w) /\ Willing(t)
         /\ InstallsAt(t, w, p)'
<1> USE DEF Goto, Tell, plan, path
<1>0. /\ pc \in [Runs -> Steps] /\ text \in [Files -> Text] /\ opened \in [Runs -> Files]
      /\ told \in [Runs -> {"nothing", "changed", "unchanged", "notFound", "conflict", "failed",
                            "unreadable", "checkByHand"}]
      /\ InstallsAt(t, w, p) /\ p \in Files /\ Absent \notin Files \cup Text
      /\ pc'[p] \notin {"putBack", "uncreate"} /\ told'[p] # "failed"
  BY DEF InstallsInto, AllCalm, Calm, Typed, StartupAssumption, Files
<1>1. /\ at # Absent /\ opened[p] = at /\ wanted[p] = w /\ Willing(t) /\ kind' = kind
      /\ UNCHANGED plan /\ opened' = opened
  <2>1. pc[p] \in {"fill", "write", "truncate"}
    BY DEF Fill, WriteAt, Truncate
  <2>2. kind' = kind /\ UNCHANGED plan /\ opened' = opened
    BY DEF Fill, WriteAt, Truncate
  <2> QED
    BY <1>0, <2>1, <2>2 DEF InstallsAt
<1>2. w \in Text
  BY <1>1, InstalledText DEF InstallsInto
<1>3. ASSUME NEW u \in Text, Store(p, u) PROVE at' = at /\ File' = u
  BY <1>0, <1>1, <1>3 DEF Store, File
<1>4. CASE Fill(p)
  <2>1. Store(p, Over(text[p], 0, w)) /\ pc[p] = "fill" /\ pc'[p] = "done" /\ told'[p] = "changed"
    BY <1>0, <1>1, <1>4 DEF Fill
  <2>2. at = p /\ text[p] = File /\ text[p] \in Text
    BY <1>0, <2>1 DEF InstallsAt, File
  <2>3. Len(w) \in Nat /\ Len(t) \in Nat
    BY <1>2, TextProperties
  <2>4. HasSetup(Over(File, 0, SubSeq(w, 0 + 1, Len(w))), w)
    <3>1. StartsAs(t, w, 0) /\ 0 \in Nat /\ 0 <= Len(w)
      BY <2>3 DEF StartsAs
    <3> QED
      BY <1>1, <3>1, InstallsMayWrite
  <2>5. SubSeq(w, 0 + 1, Len(w)) = w
    BY <1>2, WholeSub
  <2>6. at' = at /\ HasSetup(File', w)
    <3>1. Over(text[p], 0, w) \in Text
      BY <1>2, <2>2, OverText
    <3> QED
      BY <1>3, <2>1, <2>2, <2>4, <2>5, <3>1
  <2>7. HasSetup(File, w)' /\ Willing(t)'
    BY <1>1, <2>6 DEF Willing, HasSetup, StartsAs
  <2> QED
    BY <1>0, <1>1, <2>1, <2>6, <2>7 DEF InstallsAt
<1>5. CASE WriteAt(p)
  <2> DEFINE f == from(p)
  <2>1. Store(p, Over(text[opened[p]], f, Rest(p, w))) /\ pc[p] = "write" /\ pc'[p] = "truncate"
        /\ told' = told
    BY <1>0, <1>1, <1>5 DEF WriteAt
  <2>2. Rest(p, w) = SubSeq(w, f + 1, Len(w)) /\ text[opened[p]] = File
    BY <1>1 DEF Rest, File
  <2>3. f \in Nat /\ f <= Len(w) /\ StartsAs(raw[p], w, f) /\ (~IsPrefix(raw[p], w) => f = 0)
    BY <1>1, <2>1, SameStart DEF Rewriting, from
  <2>4. StartsAs(t, w, f)
    <3>1. CASE raw[p] = t
      BY <2>3, <3>1
    <3>2. CASE ~IsPrefix(raw[p], w)
      <4>1. f = 0 /\ Len(t) \in Nat
        BY <2>3, <3>2, TextProperties
      <4> QED
        BY <4>1 DEF StartsAs
    <3> QED
      BY <1>0, <2>1, <3>1, <3>2 DEF InstallsAt
  <2>5. Over(File, f, SubSeq(w, f + 1, Len(w))) \in Text
    BY <1>1, <2>1, <2>2, WrittenText DEF Rewriting
  <2> HIDE DEF f
  <2>6. HasSetup(Over(File, f, SubSeq(w, f + 1, Len(w))), w)
    BY <1>1, <2>3, <2>4, InstallsMayWrite
  <2>7. at' = at /\ HasSetup(File', w)
    BY <1>3, <2>1, <2>2, <2>5, <2>6
  <2>8. HasSetup(File, w)' /\ Willing(t)'
    BY <1>1, <2>7 DEF Willing, HasSetup, StartsAs
  <2>9. raw'[p] = raw[p] /\ wanted'[p] = w /\ opened'[p] = at
    BY <1>1
  <2> QED
    BY <1>0, <1>1, <2>1, <2>7, <2>8, <2>9 DEF InstallsAt
<1>6. CASE Truncate(p)
  <2>1. Store(p, Cut(text[opened[p]], Len(w))) /\ pc[p] = "truncate" /\ pc'[p] = "done"
        /\ told'[p] = "changed"
    BY <1>0, <1>1, <1>6 DEF Truncate
  <2>2. HasSetup(File, w) /\ text[opened[p]] = File /\ File \in Text
    BY <1>0, <1>1, <2>1 DEF InstallsAt, File
  <2>3. Cut(text[opened[p]], Len(w)) = w
    BY <1>2, <2>2, SetupCut
  <2>4. at' = at /\ HasSetup(File', w)
    BY <1>2, <1>3, <2>1, <2>3, SetupItself
  <2>5. HasSetup(File, w)' /\ Willing(t)'
    BY <1>1, <2>4 DEF Willing, HasSetup, StartsAs
  <2> QED
    BY <1>0, <1>1, <2>1, <2>4, <2>5 DEF InstallsAt
<1> QED
  BY <1>4, <1>5, <1>6

LEMMA InstallsCreates ==
  ASSUME StartupAssumption, Typed, Fresh, AllCalm', NEW t \in Text, NEW w,
         InstallsInto(t, w), NEW p \in Runs, Create(p)
  PROVE  at = Absent /\ at' = p /\ File' = t /\ t = <<>> /\ InstallsAt(t, w, p)'
<1> USE DEF Goto, Tell, plan, path
<1>0. /\ pc \in [Runs -> Steps] /\ opened \in [Runs -> Files]
      /\ told \in [Runs -> {"nothing", "changed", "unchanged", "notFound", "conflict", "failed",
                            "unreadable", "checkByHand"}]
      /\ InstallsAt(t, w, p) /\ p \in Files /\ Absent \notin Files /\ told'[p] # "failed"
  <2>1. told'[p] # "failed"
    BY DEF AllCalm, Calm
  <2> QED
    BY <2>1 DEF InstallsInto, Typed, StartupAssumption, Files
<1>1. /\ at = Absent /\ at' = p /\ text' = text /\ opened'[p] = p /\ pc[p] = "create"
      /\ pc'[p] = "fill" /\ told' = told /\ wanted' = wanted /\ kind' = kind
  BY <1>0 DEF Create
<1>2. t = <<>> /\ wanted[p] = w /\ Willing(t) /\ told[p] \notin {"changed", "unchanged"}
  BY <1>0, <1>1 DEF InstallsAt
<1>3. File' = <<>>
  <2>1. text[p] = <<>>
    BY <1>1 DEF Fresh
  <2> QED
    BY <1>0, <1>1, <2>1 DEF File
<1>4. Willing(t)'
  BY <1>1, <1>2 DEF Willing
<1> QED
  BY <1>1, <1>2, <1>3, <1>4 DEF InstallsAt

LEMMA InstallsOwn ==
  ASSUME StartupAssumption, Typed, Knows, Fresh, AllCalm, AllCalm', NEW t \in Text, NEW w,
         InstallsInto(t, w), NEW p \in Runs, Run(p)
  PROVE  /\ at # Absent => at' = at
         /\ at # Absent /\ HasSetup(File, w) => HasSetup(File', w)
         /\ at' = Absent => t = <<>>
         /\ at' # Absent => File' = t \/ (HasSetup(File', w) /\ Willing(t))
         /\ InstallsAt(t, w, p)'
<1>1. Start(p) \/ ReadFails(p) \/ FindNone(p) \/ FindOther(p) \/ FindSo(p) \/ FindWork(p)
      \/ Open(p) \/ Create(p) \/ Fill(p) \/ WriteAt(p) \/ Truncate(p)
  <2>1. pc[p] \notin {"uncreate", "putBack", "cutBack", "delete"} /\ pc'[p] # "killed"
        /\ pc \in [Runs -> Steps]
    BY DEF AllCalm, Calm, InstallsInto, InstallsAt, Typed
  <2> QED
    BY <2>1 DEF Run, Uncreate, PutBack, CutBack, Delete, Kill, Goto
<1>2. CASE Fill(p) \/ WriteAt(p) \/ Truncate(p)
  BY <1>2, InstallsWrites
<1>3. CASE Create(p)
  <2>1. p # Absent
    BY DEF StartupAssumption, Files
  <2> QED
    BY <1>3, <2>1, InstallsCreates
<1>4. CASE Start(p) \/ ReadFails(p) \/ FindNone(p) \/ FindOther(p) \/ FindSo(p) \/ FindWork(p)
           \/ Open(p)
  <2>1. UNCHANGED <<kind, at, text>>
    BY <1>4 DEF Start, ReadFails, FindNone, FindOther, FindSo, FindWork, Looks, Open, path
  <2>2. File' = File /\ at' = at
    BY <2>1 DEF File
  <2>3. InstallsAt(t, w, p)'
    BY <1>4, <2>1, InstallsLooks
  <2>4. /\ at = Absent => t = <<>>
        /\ at # Absent => File = t \/ (HasSetup(File, w) /\ Willing(t))
    BY DEF InstallsInto
  <2> QED
    BY <2>2, <2>3, <2>4
<1> QED
  BY <1>1, <1>2, <1>3, <1>4

LEMMA InstallsStep ==
  ASSUME StartupAssumption, Typed, Knows, Fresh, Idle, Installs, [Next]_vars
  PROVE  Idle' /\ Installs'
<1>1. Idle'
  <2>1. CASE UNCHANGED vars
    BY <2>1 DEF vars, plan, Idle
  <2>2. ASSUME NEW p \in Runs, Run(p) PROVE Idle'
    <3>1. pc'[p] # "idle"
      BY <2>2 DEF Run, Start, ReadFails, FindNone, FindOther, FindSo, FindWork, Looks, Create, Fill,
         Uncreate, Open, WriteAt, Truncate, PutBack, CutBack, Delete, Kill, Goto, Tell, Typed
    <3> QED
      BY <2>2, <3>1, OwnVariables DEF Idle
  <2>3. CASE SaySomething
    BY <2>3 DEF SaySomething, Idle, plan
  <2> QED
    BY <2>1, <2>2, <2>3 DEF Next
<1>2. Installs'
  <2> SUFFICES ASSUME AllCalm' PROVE \E t \in Text : \E w : InstallsInto(t, w)'
    BY DEF Installs
  <2>1. AllCalm
    BY CalmBefore
  <2>0. PICK t \in Text : \E w : InstallsInto(t, w)
    BY <2>1 DEF Installs
  <2>2. PICK w : InstallsInto(t, w)
    BY <2>0
  <2>3. CASE UNCHANGED vars
    <3>1. UNCHANGED <<kind, at, text, pc, raw, wanted, opened, told>>
      BY <2>3 DEF vars, path, plan
    <3>2. File' = File
      BY <3>1 DEF File
    <3>3. ASSUME NEW q \in Runs PROVE InstallsAt(t, w, q)'
      <4>1. InstallsAt(t, w, q) /\ Absent \notin Files /\ q \in Files
        BY <2>2 DEF InstallsInto, StartupAssumption, Files
      <4> QED
        BY <3>1, <3>2, <4>1, InstallsStays
    <3>4. OneBegin(t) /\ w = Installed(t)'
      BY <2>2, <3>1 DEF InstallsInto, Installed
    <3>5. HasSetup(File, w)' = HasSetup(File, w) /\ Willing(t)' = Willing(t)
      BY <3>1, <3>2 DEF HasSetup, StartsAs, Willing
    <3> QED
      BY <2>2, <3>1, <3>2, <3>3, <3>4, <3>5 DEF InstallsInto
  <2>4. ASSUME NEW p \in Runs, Run(p) PROVE InstallsInto(t, w)'
    <3>1. /\ at # Absent => at' = at
          /\ at # Absent /\ HasSetup(File, w) => HasSetup(File', w)
          /\ at' = Absent => t = <<>>
          /\ at' # Absent => File' = t \/ (HasSetup(File', w) /\ Willing(t))
          /\ InstallsAt(t, w, p)'
      BY <2>1, <2>2, <2>4, InstallsOwn
    <3>2. kind' = kind
      BY <2>4, OwnVariables
    <3>3. ASSUME NEW q \in Runs \ {p} PROVE InstallsAt(t, w, q)'
      <4>1. InstallsAt(t, w, q) /\ Absent \notin Files /\ q \in Files
        BY <2>2 DEF InstallsInto, StartupAssumption, Files
      <4>2. /\ pc'[q] = pc[q] /\ raw'[q] = raw[q] /\ wanted'[q] = wanted[q]
            /\ opened'[q] = opened[q] /\ told'[q] = told[q]
        BY <2>4, OwnVariables
      <4> QED
        BY <3>1, <3>2, <4>1, <4>2, InstallsStays
    <3>4. OneBegin(t) /\ w = Installed(t)'
      BY <2>2, <3>2 DEF InstallsInto, Installed
    <3>5. HasSetup(File, w)' = HasSetup(File', w) /\ Willing(t)' = Willing(t)
      BY <3>2 DEF HasSetup, StartsAs, Willing
    <3> QED
      BY <3>1, <3>3, <3>4, <3>5 DEF InstallsInto
  <2>5. CASE SaySomething
    BY <2>5 DEF SaySomething, AllCalm, Typed
  <2> QED
    BY <2>2, <2>3, <2>4, <2>5 DEF Next
<1> QED
  BY <1>1, <1>2

LEMMA InstallsInit ==
  ASSUME StartupAssumption, OneBeginEach, Init
  PROVE  Idle /\ Installs
<1>1. Idle
  BY DEF Idle, Init
<1>2. \E t \in Text : \E w : InstallsInto(t, w)
  <2>1. PICK t0 \in Texts : text = [f \in Files |-> IF f = Original THEN t0 ELSE <<>>]
    BY DEF Init
  <2> DEFINE t == IF at = Absent THEN <<>> ELSE t0
  <2>2. t \in Text /\ OneBegin(t)
    <3>1. OneBegin(<<>>)
      BY BlockText DEF OneBegin
    <3> QED
      BY <2>1, <3>1, BlockText DEF OneBeginEach, StartupAssumption
  <2>3. at # Absent => File = t
    BY <2>1 DEF Init, File, Files
  <2>4. \A p \in Runs : InstallsAt(t, Installed(t), p)
    BY DEF Init, InstallsAt
  <2>5. at = Absent => t = <<>>
    OBVIOUS
  <2> HIDE DEF t
  <2> QED
    BY <2>2, <2>3, <2>4, <2>5 DEF InstallsInto
<1> QED
  BY <1>1, <1>2 DEF Installs

(* While runs only install, and neither fail nor are killed, they leave one*)
(* current setup however they overlap, in any first text that has no two   *)
(* begins of a block (installBlock, createFile, rewriteFile, findBlock).   *)
THEOREM ItIsSetUpOnce == ASSUME OneBeginEach PROVE Spec => []SetUpOnce
<1> DEFINE IInv == Typed /\ Knows /\ Fresh /\ Idle /\ Installs
<1>1. Init => IInv
  <2>1. Init => Fresh
    BY StartupAssumption DEF Init, Fresh, StartupAssumption, Files
  <2> QED
    BY <2>1, StartupAssumption, TypedInit, InstallsInit
<1>2. IInv /\ [Next]_vars => IInv'
  BY StartupAssumption, TypedStep, FreshStep, InstallsStep
<1>3. IInv => SetUpOnce
  <2> SUFFICES ASSUME IInv, AllCalm, NEW p \in Runs, told[p] \in {"changed", "unchanged"}
               PROVE  IF kind = "file" THEN IsPrefix(ownFile, File)
                      ELSE Found(File) = block /\ markerLine(File, "begin", Begin(File) + 1) = 0
    BY DEF SetUpOnce, AllCalm
  <2>0. PICK t \in Text : \E w : InstallsInto(t, w)
    BY DEF Installs
  <2>1. PICK w : InstallsInto(t, w)
    BY <2>0
  <2>2. at # Absent /\ HasSetup(File, w) /\ Willing(t) /\ w = Installed(t) /\ OneBegin(t)
    BY <2>1 DEF InstallsInto, InstallsAt
  <2>3. File \in Text /\ w \in Text
    BY <2>2, InstalledText DEF Typed, File
  <2>4. CASE kind = "file"
    <3>1. w = ownFile
      BY <2>2, <2>4, InstalledText
    <3>2. Len(w) <= Len(File) /\ \A i \in 1 .. Len(w) : File[i] = w[i]
      BY <2>2 DEF HasSetup, StartsAs
    <3>3. Len(w) \in Nat /\ Len(File) \in Nat /\ SubSeq(w, 1, Len(w)) = w
      BY <2>3, TextProperties, WholeSub
    <3>4. SubSeq(File, 1, Len(w)) = w
      <4> DEFINE v == SubSeq(File, 1, Len(w))
      <4>1. /\ v \in Text /\ Len(v) = IF 1 <= Len(w) THEN Len(w) - 1 + 1 ELSE 0
            /\ \A i \in 1 .. Len(w) - 1 + 1 : v[i] = File[1 + i - 1]
        BY <2>3, <3>2, <3>3, SubText
      <4> HIDE DEF v
      <4>2. Len(v) = Len(w) /\ \A i \in 1 .. Len(w) : v[i] = File[i]
        BY <3>3, <4>1
      <4>3. v = w
        BY <2>3, <3>2, <4>1, <4>2, SameText
      <4> QED
        BY <4>3 DEF v
    <3> QED
      BY <2>4, <3>1, <3>2, <3>3, <3>4 DEF IsPrefix
  <2>5. CASE kind # "file"
    <3>1. PICK n : BlockAt(w, n)
      BY <2>2, <2>5, InstalledBlock
    <3> QED
      BY <2>2, <2>3, <2>5, <3>1, SetupFound
  <2> QED
    BY <2>4, <2>5
<1> QED
  BY <1>1, <1>2, <1>3, PTL DEF Spec
=============================================================================
