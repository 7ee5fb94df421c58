------------------------------- MODULE SemVer -------------------------------
(***************************************************************************)
(* How bb update orders versions (internal/workflows/update/runner.go).    *)
(*                                                                         *)
(* A version is its core, three numbers, and the identifiers of its        *)
(* prerelease, none for a release.  An identifier is a number, or a word   *)
(* that stands at a place in the alphabet.  A build that has no semantic   *)
(* version ("dev") is a version without a core.                            *)
(***************************************************************************)
EXTENDS Integers, Sequences, FiniteSetsExt

Identifiers == [number : BOOLEAN, value : Nat]
IsVersion(v) ==
  v \in [core : Seq(Nat), pre : Seq(Identifiers)] /\ Len(v.core) \in {0, 3}

IsSemantic(v) == v.core # <<>>

compareInt(l, r) == IF l < r THEN -1 ELSE IF l = r THEN 0 ELSE 1

(* A number comes before a word.                                           *)
compareIdentifier(l, r) ==
  IF l.number = r.number THEN compareInt(l.value, r.value)
  ELSE IF l.number THEN -1 ELSE 1

(* The places where one has run out, or the two differ.                    *)
Apart(l, r) ==
  {i \in 1 .. Max({Len(l), Len(r)}) :
     i > Len(l) \/ i > Len(r) \/ compareIdentifier(l[i], r[i]) # 0}

(* Two runs of identifiers, judged at the first place where they differ;   *)
(* the one that runs out there comes first.                                *)
comparePlaces(l, r) ==
  LET first == Min(Apart(l, r))
  IN IF Apart(l, r) = {} THEN 0
     ELSE IF first > Len(l) THEN -1
     ELSE IF first > Len(r) THEN 1
     ELSE compareIdentifier(l[first], r[first])

(* A release comes after every prerelease of it.                           *)
comparePrerelease(l, r) ==
  IF l = <<>> THEN IF r = <<>> THEN 0 ELSE 1
  ELSE IF r = <<>> THEN -1 ELSE comparePlaces(l, r)

compareSemver(l, r) ==
  IF l.core[1] # r.core[1] THEN compareInt(l.core[1], r.core[1])
  ELSE IF l.core[2] # r.core[2] THEN compareInt(l.core[2], r.core[2])
  ELSE IF l.core[3] # r.core[3] THEN compareInt(l.core[3], r.core[3])
  ELSE comparePrerelease(l.pre, r.pre)

(* A build without a version takes any release for news.                   *)
isUpdateAvailable(current, latest) ==
  IF IsSemantic(current) THEN compareSemver(current, latest) < 0 ELSE current # latest

----------------------------------------------------------------------------
(* What SemVer 2.0.0 says of precedence, for the properties.               *)

LowerIdentifier(l, r) ==
  \/ l.number /\ ~r.number
  \/ l.number = r.number /\ l.value < r.value

LowerCore(l, r) ==
  \E k \in 1 .. 3 : l[k] < r[k] /\ \A i \in 1 .. k - 1 : l[i] = r[i]

LowerPlaces(l, r) ==
  \E k \in 1 .. Len(r) :
    /\ k - 1 <= Len(l) /\ SubSeq(l, 1, k - 1) = SubSeq(r, 1, k - 1)
    /\ k - 1 = Len(l) \/ LowerIdentifier(l[k], r[k])

Precedes(l, r) ==
  \/ LowerCore(l.core, r.core)
  \/ /\ l.core = r.core /\ l.pre # <<>>
     /\ r.pre = <<>> \/ LowerPlaces(l.pre, r.pre)
=============================================================================
