-------------------------- MODULE MCStored_proofs ---------------------------
(***************************************************************************)
(* Three more parts of MCRecords, for any values of their constants: the   *)
(* records of errors and failures keep ErrorsSound, the memory stores      *)
(* MemorySound, and the cloud drive DriveSound.                            *)
(***************************************************************************)
EXTENDS MCRecords, FiniteSetTheorems, SequenceTheorems, WellFoundedInduction, TLAPS

Flag == BOOLEAN

-----------------------------------------------------------------------------
(* Errors, smells and failures *)

KnownPatterns == [matches : SUBSET Complaints, count : Nat, first : Nat \cup {none},
                  last : Nat \cup {none}, components : SUBSET Places]
ErrorRows == [pattern : Nat, known : Nat, message : Complaints, component : Places, closed : BOOLEAN]
Scanning == [message : Complaints, component : Places, at : Nat, known : Nat, found : BOOLEAN]

(* Pattern p is, of the first `upto` of a list, the first (of a detector: *)
(* one) that matches m; 0 says that none does.                             *)
Hits(book, upto, m) == {i \in 1 .. upto : m \in book[i].matches}
Fitting(k, book, p, upto, m) ==
    IF p = 0 THEN Hits(book, upto, m) = {}
    ELSE p \in Hits(book, upto, m) /\ (k = "errors" => \A i \in Hits(book, upto, m) : p <= i)

(* A scan of the registry has not passed anything that matches; what it    *)
(* found fits as long as no pattern is replaced.                           *)
ScanFits(s) ==
    /\ s \in Scanning /\ s.known <= Len(patterns)
    /\ kind = "errors" /\ ~ s.found => s.at = 0
    /\ s.found => Fitting(kind, patterns, s.at, s.known, s.message)

Mine(rows, p) == {r \in DOMAIN rows : rows[r].pattern = p}
BookKept(x, rows, mine, hours) ==
    /\ x.count = Cardinality(mine)
    /\ x.components = {rows[r].component : r \in mine}
    /\ mine = {} => x.first = none
    /\ mine # {} => x.first \in Nat /\ x.last \in Nat /\ x.first <= x.last /\ x.last <= hours

MatchTypes ==
    /\ kind \in {"errors", "smells"} /\ hour \in Nat
    /\ patterns \in Seq(KnownPatterns) /\ records \in Seq(ErrorRows)
    /\ DOMAIN scan = Watchers
    /\ events = {} /\ byComponent = [c \in Places |-> {}] /\ reader = [t \in Watchers |-> none]

RowsFit ==
    \A r \in DOMAIN records :
        /\ records[r].known <= Len(patterns)
        /\ Fitting(kind, patterns, records[r].pattern, records[r].known, records[r].message)

MatchKept ==
    /\ MatchTypes /\ RowsFit
    /\ \A t \in Watchers : scan[t] # none => ScanFits(scan[t])
    /\ \A p \in DOMAIN patterns : BookKept(patterns[p], records, Mine(records, p), hour)

MatchInv == part = "match" => MatchKept

(* The failures of a component, of those recorded; an old one may be gone. *)
Failing == [component : Places, at : Nat]
OfPlace(book, c) == {n \in DOMAIN book : book[n].component = c}
TooOld(book, n, hours) == book[n].at < hours - KeptHours

Cleaning == [cutoff : Int, left : SUBSET Places, dropping : BOOLEAN]
Reading == [component : Places, list : SUBSET Nat, shared : BOOLEAN, after : Nat,
            got : SUBSET Nat, sees : Nat, since : Nat]

FailureTypes ==
    /\ hour \in Nat /\ log \in Seq(Failing) /\ events \subseteq DOMAIN log
    /\ DOMAIN byComponent = Places /\ DOMAIN reader = Watchers
    /\ \A c \in Places : byComponent[c] \subseteq OfPlace(log, c)
    /\ cleaning # none => cleaning \in Cleaning /\ cleaning.cutoff <= hour - KeptHours
    /\ \A t \in Watchers : scan[t] = none

(* What a cleanup takes away is too old; what it leaves is in the index.   *)
OnlyOldGone ==
    /\ \A n \in DOMAIN log \ events : TooOld(log, n, hour)
    /\ \A n \in events : n \in byComponent[log[n].component]

(* A reader has seen, is about to see, or will come to every failure that  *)
(* was there when it began and is not too old.                             *)
ReadsAll(r, book, hours) ==
    /\ r \in Reading /\ r.since <= Len(book)
    /\ r.list \subseteq OfPlace(book, r.component) /\ r.got \subseteq OfPlace(book, r.component)
    /\ r.sees = 0 \/ r.sees \in OfPlace(book, r.component)
    /\ \A n \in 1 .. r.since :
          book[n].component = r.component =>
              n \in r.got \/ n = r.sees \/ (n \in r.list /\ n > r.after) \/ TooOld(book, n, hours)

AnswerFits(x, book) ==
    /\ x.since \in Nat /\ x.since <= Len(book) /\ x.got \subseteq OfPlace(book, x.component)
    /\ ~ x.raised => {n \in 1 .. x.since : book[n].component = x.component
                                             /\ book[n].at >= x.ended - KeptHours} \subseteq x.got
    /\ x.raised => \E n \in OfPlace(book, x.component) : book[n].at < x.ended - KeptHours

ReportFits(x, book) ==
    /\ x.since \in Nat /\ x.since <= Len(book)
    /\ x.total = Cardinality({n \in 1 .. x.since : book[n].at >= x.at - ReportHours})

ReadersKept == \A t \in Watchers : reader[t] # none => ReadsAll(reader[t], log, hour)
Answered == \A x \in answers : AnswerFits(x, log)
Reported == report # none => ReportFits(report, log)
FailuresKept == FailureTypes /\ OnlyOldGone /\ ReadersKept /\ Answered /\ Reported

FailureInv == part = "analyze" => FailuresKept

-----------------------------------------------------------------------------
(* Errors and smells *)

(* Every set of natural numbers has a least element.                       *)
LEMMA SmallestOf == \A S \in SUBSET Nat : S # {} => \E x \in S : \A y \in S : x <= y
<1> SUFFICES ASSUME NEW S \in SUBSET Nat, S # {} PROVE \E x \in S : \A y \in S : x <= y
    OBVIOUS
<1>1. PICK x \in S : \A y \in S : ~ (<<y, x>> \in OpToRel(<, Nat))
    BY NatLessThanWellFounded, WFMin
<1>2. \A y \in S : ~ (y < x)
    BY <1>1 DEF OpToRel
<1>3. x \in Nat /\ \A y \in S : y \in Nat
    OBVIOUS
<1>4. \A y \in S : x <= y
    BY <1>2, <1>3
<1> QED
    BY <1>4

LEMMA ErrorsCardinality == \A S : Errors!Cardinality(S) = Cardinality(S)
    BY DEF Errors!Cardinality, Cardinality

LEMMA MatchInit == Init => MatchInv
<1> SUFFICES ASSUME Init PROVE MatchKept
    BY DEF MatchInv
<1>1. /\ kind \in {"errors", "smells"} /\ patterns = Errors!CommonPatterns(kind)
      /\ scan = [t \in Watchers |-> none] /\ records = <<>> /\ hour = 0
      /\ events = {} /\ byComponent = [c \in Places |-> {}] /\ reader = [t \in Watchers |-> none]
    BY DEF Init, Errors!Init
<1>2. /\ patterns \in Seq(KnownPatterns)
      /\ \A p \in DOMAIN patterns : patterns[p].count = 0 /\ patterns[p].components = {}
                                  /\ patterns[p].first = none
  <2>1. KnownMatches \in Seq(SUBSET Complaints)
      BY ErrorsAssumption
  <2>2. \A i \in DOMAIN KnownMatches : KnownMatches[i] \in SUBSET Complaints
      BY <2>1
  <2>3. \A m \in SUBSET Complaints :
            /\ Errors!NewPattern(m) \in KnownPatterns
            /\ Errors!NewPattern(m).count = 0 /\ Errors!NewPattern(m).components = {}
            /\ Errors!NewPattern(m).first = none
      BY DEF Errors!NewPattern, KnownPatterns
  <2>4. DOMAIN KnownMatches = 1 .. Len(KnownMatches) /\ Len(KnownMatches) \in Nat
      BY <2>1
  <2>5. CASE kind = "errors"
    <3>1. patterns = [i \in 1 .. Len(KnownMatches) |-> Errors!NewPattern(KnownMatches[i])]
        BY <1>1, <2>4, <2>5 DEF Errors!CommonPatterns, Errors!CommonErrors
    <3>2. \A i \in 1 .. Len(KnownMatches) : Errors!NewPattern(KnownMatches[i]) \in KnownPatterns
        BY <2>2, <2>3, <2>4
    <3>3. patterns \in Seq(KnownPatterns)
        BY <2>4, <3>1, <3>2
    <3>4. \A p \in DOMAIN patterns : patterns[p] = Errors!NewPattern(KnownMatches[p]) /\ p \in DOMAIN KnownMatches
        BY <2>4, <3>1
    <3> QED
        BY <2>2, <2>3, <3>3, <3>4
  <2>6. CASE kind # "errors"
    <3>1. patterns = [i \in 1 .. Len(KnownMatches) |-> Errors!NewPattern({})]
        BY <1>1, <2>4, <2>6 DEF Errors!CommonPatterns, Errors!CommonSmells
    <3>2. Errors!NewPattern({}) \in KnownPatterns
        BY <2>3
    <3>3. patterns \in Seq(KnownPatterns)
        BY <2>4, <3>1, <3>2
    <3>4. \A p \in DOMAIN patterns : patterns[p] = Errors!NewPattern({})
        BY <3>1
    <3> QED
        BY <2>3, <3>3, <3>4
  <2> QED
      BY <2>5, <2>6
<1>3. records \in Seq(ErrorRows) /\ DOMAIN records = {}
  <2>1. <<>> \in Seq(ErrorRows) /\ DOMAIN <<>> = {}
      OBVIOUS
  <2> QED
      BY <1>1, <2>1
<1>4. \A p : Mine(records, p) = {}
    BY <1>3 DEF Mine
<1>5. \A p \in DOMAIN patterns : BookKept(patterns[p], records, Mine(records, p), hour)
  <2>1. Cardinality({}) = 0
      BY FS_EmptySet
  <2> QED
      BY <1>2, <1>4, <2>1 DEF BookKept
<1>6. \A t \in Watchers : scan[t] = none
    BY <1>1
<1> QED
    BY <1>1, <1>2, <1>3, <1>5, <1>6 DEF MatchKept, MatchTypes, RowsFit

(* Patterns are only added, and keep what they match.                      *)
Extends(book, old) == Len(old) <= Len(book) /\ \A i \in 1 .. Len(old) : book[i].matches = old[i].matches

LEMMA FittingKept ==
    ASSUME NEW k, NEW old \in Seq(KnownPatterns), NEW book \in Seq(KnownPatterns), Extends(book, old),
           NEW p \in Nat, NEW upto \in Nat, upto <= Len(old), NEW m, Fitting(k, old, p, upto, m)
    PROVE  Fitting(k, book, p, upto, m)
<1>1. \A i \in 1 .. upto : book[i].matches = old[i].matches
    BY DEF Extends
<1>2. Hits(book, upto, m) = Hits(old, upto, m)
    BY <1>1 DEF Hits
<1> QED
    BY <1>2 DEF Fitting

(* What a step that only adds patterns leaves in order.                    *)
LEMMA ScansKept ==
    ASSUME MatchTypes, MatchTypes', Extends(patterns', patterns), kind' = kind,
           NEW s, ScanFits(s)
    PROVE  /\ s \in Scanning /\ s.known <= Len(patterns')
           /\ kind = "errors" /\ ~ s.found => s.at = 0
           /\ s.found => Fitting(kind, patterns', s.at, s.known, s.message)
<1>1. s \in Scanning /\ s.known <= Len(patterns) /\ (kind = "errors" /\ ~ s.found => s.at = 0)
    BY DEF ScanFits
<1>2. s.known \in Nat /\ s.at \in Nat
    BY <1>1 DEF Scanning
<1>3. Len(patterns) \in Nat /\ Len(patterns') \in Nat /\ Len(patterns) <= Len(patterns')
    BY DEF MatchTypes, Extends
<1>4. s.known <= Len(patterns')
    BY <1>1, <1>2, <1>3
<1>5. s.found => Fitting(kind, patterns', s.at, s.known, s.message)
    BY <1>1, <1>2, FittingKept DEF ScanFits, MatchTypes
<1> QED
    BY <1>1, <1>4, <1>5

LEMMA RowsKept ==
    ASSUME MatchTypes, MatchTypes', Extends(patterns', patterns), kind' = kind, RowsFit,
           NEW r \in DOMAIN records
    PROVE  /\ records[r].known <= Len(patterns')
           /\ Fitting(kind, patterns', records[r].pattern, records[r].known, records[r].message)
<1>1. records[r] \in ErrorRows /\ records[r].known <= Len(patterns)
      /\ Fitting(kind, patterns, records[r].pattern, records[r].known, records[r].message)
    BY DEF MatchTypes, RowsFit
<1>2. records[r].known \in Nat /\ records[r].pattern \in Nat
    BY <1>1 DEF ErrorRows
<1>3. Len(patterns) \in Nat /\ Len(patterns') \in Nat /\ Len(patterns) <= Len(patterns')
    BY DEF MatchTypes, Extends
<1>4. records[r].known <= Len(patterns')
    BY <1>1, <1>2, <1>3
<1> QED
    BY <1>1, <1>2, <1>4, FittingKept DEF MatchTypes

LEMMA Learnt ==
    ASSUME MatchKept, NEW m \in NewMatches, Errors!RegisterPattern(m), UNCHANGED Errors!failureVars
    PROVE  MatchKept'
<1> DEFINE x == Errors!NewPattern(m)
<1>1. patterns' = Append(patterns, x) /\ UNCHANGED <<kind, scan, records, broken, hour,
                events, byComponent, reader>>
    BY DEF Errors!RegisterPattern, Errors!failureVars
<1>2. x \in KnownPatterns /\ x.count = 0 /\ x.components = {} /\ x.first = none
    BY ErrorsAssumption DEF Errors!NewPattern, KnownPatterns
<1> HIDE DEF x
<1>3. /\ patterns \in Seq(KnownPatterns) /\ Len(patterns) \in Nat
      /\ records \in Seq(ErrorRows)
    BY DEF MatchKept, MatchTypes
<1>4. /\ patterns' \in Seq(KnownPatterns) /\ Len(patterns') = Len(patterns) + 1
      /\ \A i \in 1 .. Len(patterns) : patterns'[i] = patterns[i]
      /\ patterns'[Len(patterns) + 1] = x
    BY <1>1, <1>2, <1>3
<1>5. Extends(patterns', patterns)
    BY <1>3, <1>4 DEF Extends
<1>6. MatchTypes'
    BY <1>1, <1>4 DEF MatchKept, MatchTypes
<1>7. RowsFit'
    BY <1>1, <1>5, <1>6, RowsKept DEF MatchKept, RowsFit
<1>8. \A t \in Watchers : scan'[t] # none => ScanFits(scan[t])'
    BY <1>1, <1>5, <1>6, ScansKept DEF MatchKept, ScanFits
<1>9. ASSUME NEW p \in DOMAIN patterns' PROVE BookKept(patterns'[p], records, Mine(records, p), hour)
  <2>1. CASE p \in 1 .. Len(patterns)
      BY <1>3, <1>4, <2>1 DEF MatchKept
  <2>2. CASE p = Len(patterns) + 1
    <3>1. Mine(records, p) = {}
      <4> SUFFICES ASSUME NEW r \in DOMAIN records, records[r].pattern = p PROVE FALSE
          BY DEF Mine
      <4>1. /\ records[r] \in ErrorRows /\ records[r].known <= Len(patterns)
            /\ Fitting(kind, patterns, records[r].pattern, records[r].known, records[r].message)
          BY <1>3 DEF MatchKept, RowsFit
      <4>2. p \in 1 .. records[r].known
          BY <1>3, <2>2, <4>1 DEF Fitting, Hits
      <4>3. records[r].known \in Nat
          BY <4>1 DEF ErrorRows
      <4> QED
          BY <1>3, <2>2, <4>1, <4>2, <4>3
    <3>2. Cardinality({}) = 0
        BY FS_EmptySet
    <3> QED
        BY <1>2, <1>4, <2>2, <3>1, <3>2 DEF BookKept
  <2> QED
      BY <1>3, <1>4, <2>1, <2>2
<1>10. \A p \in DOMAIN patterns' : BookKept(patterns'[p], records', Mine(records', p), hour')
    BY <1>1, <1>9
<1> QED
    BY <1>6, <1>7, <1>8, <1>10 DEF MatchKept

LEMMA ScanBegun ==
    ASSUME MatchKept, NEW t \in Watchers, NEW m \in Complaints, NEW c \in Places,
           Errors!StartScan(t, m, c), UNCHANGED Errors!failureVars
    PROVE  MatchKept'
<1> DEFINE s == [message |-> m, component |-> c, at |-> 0, known |-> Len(patterns), found |-> FALSE]
<1>1. scan' = [scan EXCEPT ![t] = s] /\ UNCHANGED <<kind, patterns, records, broken, hour,
                events, byComponent, reader>>
    BY DEF Errors!StartScan, Errors!failureVars
<1>2. ScanFits(s)
    BY DEF MatchKept, MatchTypes, ScanFits, Scanning
<1> HIDE DEF s
<1>3. scan'[t] = s /\ (\A u \in Watchers \ {t} : scan'[u] = scan[u]) /\ DOMAIN scan' = Watchers
    BY <1>1 DEF MatchKept, MatchTypes
<1>4. \A u \in Watchers : scan'[u] # none => ScanFits(scan'[u])
    BY <1>2, <1>3 DEF MatchKept
<1>5. \A u \in Watchers : scan'[u] # none => ScanFits(scan[u])'
    BY <1>1, <1>4 DEF ScanFits
<1> QED
    BY <1>1, <1>3, <1>5 DEF MatchKept, MatchTypes, RowsFit

(* The loop stops at the first pattern that matches.                       *)
LEMMA Looked ==
    ASSUME MatchKept, NEW t \in Watchers, Errors!Look(t), UNCHANGED Errors!failureVars
    PROVE  MatchKept'
<1> DEFINE s == scan[t]
<1>1. scan[t] # none /\ ~ s.found /\ UNCHANGED <<kind, patterns, records, hour,
                events, byComponent, reader>>
    BY DEF Errors!Look, Errors!failureVars
<1>2. ScanFits(s) /\ s \in Scanning /\ s.known \in Nat /\ s.at \in Nat
  <2>1. ScanFits(s) /\ s \in Scanning
      BY <1>1 DEF MatchKept, ScanFits
  <2> QED
      BY <2>1 DEF Scanning
<1>3. /\ \A u \in Watchers \ {t} : scan'[u] = scan[u]
      /\ DOMAIN scan' = Watchers
      /\ scan'[t] # none => ScanFits(scan'[t])
  <2>1. CASE Len(patterns) # s.known
      BY <2>1 DEF Errors!Look, MatchKept, MatchTypes
  <2>2. CASE Len(patterns) = s.known
    <3> DEFINE at == Errors!Finds(s)
               x == [s EXCEPT !.at = at, !.found = TRUE]
    <3>1. scan' = [scan EXCEPT ![t] = IF at = 0 /\ kind = "smells" THEN none ELSE x]
        BY <2>2 DEF Errors!Look
    <3> DEFINE hits == {i \in s.at + 1 .. Len(patterns) : s.message \in patterns[i].matches}
    <3>2. \/ at = 0 /\ hits = {}
          \/ at \in hits /\ \A j \in hits : at <= j
      <4>1. hits \in SUBSET Nat
          BY <1>2
      <4>2. hits # {} => \E i \in hits : \A j \in hits : i <= j
          BY <4>1, SmallestOf
      <4>3. at = IF hits = {} THEN 0 ELSE CHOOSE i \in hits : \A j \in hits : i <= j
          BY DEF Errors!Finds
      <4> HIDE DEF at, hits
      <4> QED
          BY <4>2, <4>3
    <3>3. kind = "smells" \/ (kind = "errors" /\ s.at = 0)
        BY <1>1, <1>2 DEF MatchKept, MatchTypes, ScanFits
    <3>4. hits \subseteq Hits(patterns, s.known, s.message)
        BY <1>2, <2>2 DEF Hits
    <3>5. kind = "errors" => hits = Hits(patterns, s.known, s.message)
        BY <1>2, <2>2, <3>3 DEF Hits
    <3>6. at \in Nat
        BY <1>2, <3>2
    <3>7. 0 \notin hits
        BY <1>2
    <3> HIDE DEF at, hits
    <3>8. ~ (at = 0 /\ kind = "smells") => Fitting(kind, patterns, at, s.known, s.message)
        BY <3>2, <3>3, <3>4, <3>5, <3>7 DEF Fitting
    <3>9. x \in Scanning /\ x.at = at /\ x.found /\ x.known = s.known /\ x.message = s.message
        BY <1>2, <3>6 DEF Scanning
    <3> HIDE DEF x
    <3>10. ~ (at = 0 /\ kind = "smells") => ScanFits(x)
        BY <1>2, <3>8, <3>9 DEF ScanFits
    <3>11. scan'[t] = IF at = 0 /\ kind = "smells" THEN none ELSE x
        BY <3>1 DEF MatchKept, MatchTypes
    <3>12. (\A u \in Watchers \ {t} : scan'[u] = scan[u]) /\ DOMAIN scan' = Watchers
        BY <3>1 DEF MatchKept, MatchTypes
    <3> QED
        BY <3>10, <3>11, <3>12
  <2> QED
      BY <2>1, <2>2
<1>4. \A u \in Watchers : scan'[u] # none => ScanFits(scan'[u])
    BY <1>3 DEF MatchKept
<1>5. \A u \in Watchers : scan'[u] # none => ScanFits(scan[u])'
    BY <1>1, <1>4 DEF ScanFits
<1> QED
    BY <1>1, <1>3, <1>5 DEF MatchKept, MatchTypes, RowsFit

(* One row more.                                                           *)
LEMMA RowAdded ==
    ASSUME NEW rows \in Seq(ErrorRows), NEW x \in ErrorRows, NEW p
    PROVE  /\ IsFiniteSet(Mine(rows, p)) /\ Mine(rows, p) \subseteq DOMAIN rows
           /\ Len(rows) + 1 \notin Mine(rows, p)
           /\ x.pattern = p => Mine(Append(rows, x), p) = Mine(rows, p) \cup {Len(rows) + 1}
           /\ x.pattern # p => Mine(Append(rows, x), p) = Mine(rows, p)
<1>1. Len(rows) \in Nat /\ DOMAIN rows = 1 .. Len(rows)
    OBVIOUS
<1>2. DOMAIN Append(rows, x) = 1 .. Len(rows) + 1 /\ Append(rows, x)[Len(rows) + 1] = x
      /\ \A i \in 1 .. Len(rows) : Append(rows, x)[i] = rows[i]
    OBVIOUS
<1>3. IsFiniteSet(Mine(rows, p))
  <2>1. IsFiniteSet(1 .. Len(rows))
      BY <1>1, FS_Interval
  <2>2. Mine(rows, p) \subseteq 1 .. Len(rows)
      BY <1>1 DEF Mine
  <2> QED
      BY <2>1, <2>2, FS_Subset
<1>4. Len(rows) + 1 \notin DOMAIN rows
    BY <1>1
<1> QED
    BY <1>1, <1>2, <1>3, <1>4 DEF Mine

LEMMA CountedKept ==
    ASSUME NEW b \in KnownPatterns, NEW c \in Places, hour \in Nat
    PROVE  /\ Errors!Counted(b, c) \in KnownPatterns /\ Errors!Counted(b, c).matches = b.matches
           /\ Errors!Counted(b, c).count = b.count + 1 /\ Errors!Counted(b, c).last = hour
           /\ Errors!Counted(b, c).components = b.components \cup {c}
           /\ b.first = none => Errors!Counted(b, c).first = hour
           /\ b.first # none => Errors!Counted(b, c).first = b.first
<1> DEFINE early == IF b.first = none THEN hour ELSE b.first
           x == [matches |-> b.matches, count |-> b.count + 1, first |-> early, last |-> hour,
                 components |-> b.components \cup {c}]
<1>1. early \in Nat \cup {none}
    BY DEF KnownPatterns
<1>2. b = [matches |-> b.matches, count |-> b.count, first |-> b.first, last |-> b.last,
           components |-> b.components]
    BY DEF KnownPatterns
<1>3. Errors!Counted(b, c) = x
  <2>1. Errors!Counted(b, c) =
            [b EXCEPT !.count = b.count + 1, !.last = hour, !.first = early,
                      !.components = b.components \cup {c}]
      BY DEF Errors!Counted
  <2> HIDE DEF early
  <2> QED
      BY <1>2, <2>1 DEF KnownPatterns
<1> HIDE DEF early
<1>4. x \in KnownPatterns
    BY <1>1 DEF KnownPatterns
<1> QED
    BY <1>3, <1>4 DEF early

(* The pattern's books take the record up.                                 *)
LEMMA BooksKept ==
    ASSUME NEW rows \in Seq(ErrorRows), NEW x \in ErrorRows, NEW b \in KnownPatterns,
           hour \in Nat, BookKept(b, rows, Mine(rows, x.pattern), hour)
    PROVE  BookKept(Errors!Counted(b, x.component), Append(rows, x), Mine(Append(rows, x), x.pattern), hour)
<1> DEFINE y == Errors!Counted(b, x.component)
           old == Mine(rows, x.pattern)
           new == Mine(Append(rows, x), x.pattern)
<1>1. /\ y.count = b.count + 1 /\ y.components = b.components \cup {x.component} /\ y.last = hour
      /\ (b.first = none => y.first = hour) /\ (b.first # none => y.first = b.first)
    BY CountedKept DEF ErrorRows
<1>2. /\ IsFiniteSet(old) /\ old \subseteq DOMAIN rows /\ Len(rows) + 1 \notin old
      /\ new = old \cup {Len(rows) + 1}
    BY RowAdded DEF ErrorRows
<1>3. /\ b.count = Cardinality(old) /\ b.components = {rows[r].component : r \in old}
      /\ old = {} => b.first = none
      /\ old # {} => b.first \in Nat /\ b.last \in Nat /\ b.first <= b.last /\ b.last <= hour
    BY DEF BookKept
<1>4. Append(rows, x)[Len(rows) + 1] = x /\ \A r \in DOMAIN rows : Append(rows, x)[r] = rows[r]
    OBVIOUS
<1> HIDE DEF y, old, new
<1>5. Cardinality(new) = Cardinality(old) + 1
    BY <1>2, FS_AddElement
<1>6. y.components = {Append(rows, x)[r].component : r \in new}
    BY <1>1, <1>2, <1>3, <1>4
<1>7. y.first \in Nat /\ y.last \in Nat /\ y.first <= y.last /\ y.last <= hour
  <2>1. CASE b.first = none
      BY <1>1, <2>1
  <2>2. CASE b.first # none
      BY <1>1, <1>3, <2>2
  <2> QED
      BY <2>1, <2>2
<1>8. BookKept(y, Append(rows, x), new, hour)
    BY <1>1, <1>2, <1>3, <1>5, <1>6, <1>7 DEF BookKept
<1> QED
    BY <1>8 DEF y, new

LEMMA OtherBooks ==
    ASSUME NEW rows \in Seq(ErrorRows), NEW x \in ErrorRows, NEW b, NEW p, p # x.pattern,
           BookKept(b, rows, Mine(rows, p), hour)
    PROVE  BookKept(b, Append(rows, x), Mine(Append(rows, x), p), hour)
<1>1. Mine(Append(rows, x), p) = Mine(rows, p) /\ Mine(rows, p) \subseteq DOMAIN rows
    BY RowAdded
<1>2. \A r \in DOMAIN rows : Append(rows, x)[r] = rows[r]
    OBVIOUS
<1>3. {Append(rows, x)[r].component : r \in Mine(rows, p)} = {rows[r].component : r \in Mine(rows, p)}
    BY <1>1, <1>2
<1> QED
    BY <1>1, <1>3 DEF BookKept

LEMMA Recorded ==
    ASSUME MatchKept, NEW t \in Watchers, Errors!Record(t), UNCHANGED Errors!failureVars
    PROVE  MatchKept'
<1> DEFINE s == scan[t]
           x == [pattern |-> s.at, known |-> s.known, message |-> s.message,
                 component |-> s.component, closed |-> FALSE]
<1>1. /\ s # none /\ s.found /\ UNCHANGED <<kind, hour, events, byComponent, reader>>
      /\ records' = Append(records, x)
      /\ patterns' = IF s.at = 0 THEN patterns
                     ELSE [patterns EXCEPT ![s.at] = Errors!Counted(@, s.component)]
      /\ scan' = [scan EXCEPT ![t] = IF kind = "errors" THEN none ELSE [@ EXCEPT !.found = FALSE]]
    BY DEF Errors!Record, Errors!failureVars
<1>2. ScanFits(s) /\ s \in Scanning
    BY <1>1 DEF MatchKept, ScanFits
<1>3. /\ x \in ErrorRows /\ x.pattern = s.at /\ x.known = s.known /\ x.message = s.message
      /\ x.component = s.component /\ s.component \in Places /\ s.at \in Nat /\ s.known \in Nat
    BY <1>2 DEF Scanning, ErrorRows
<1>4. /\ patterns \in Seq(KnownPatterns) /\ Len(patterns) \in Nat /\ DOMAIN patterns = 1 .. Len(patterns)
      /\ records \in Seq(ErrorRows) /\ hour \in Nat /\ DOMAIN scan = Watchers
    BY DEF MatchKept, MatchTypes
<1>5. s.known <= Len(patterns) /\ Fitting(kind, patterns, s.at, s.known, s.message)
    BY <1>1, <1>2 DEF ScanFits
<1>6. s.at = 0 \/ s.at \in DOMAIN patterns
    BY <1>3, <1>4, <1>5 DEF Fitting, Hits
<1> HIDE DEF s, x
<1>7. /\ patterns' \in Seq(KnownPatterns) /\ Len(patterns') = Len(patterns)
      /\ \A p \in DOMAIN patterns : p # s.at => patterns'[p] = patterns[p]
      /\ s.at # 0 => patterns'[s.at] = Errors!Counted(patterns[s.at], s.component)
      /\ Extends(patterns', patterns)
  <2>1. CASE s.at = 0
      BY <1>1, <1>4, <2>1 DEF Extends
  <2>2. CASE s.at # 0
    <3>1. s.at \in DOMAIN patterns /\ patterns[s.at] \in KnownPatterns
        BY <1>4, <1>6, <2>2
    <3>2. PICK y : y = Errors!Counted(patterns[s.at], s.component)
        OBVIOUS
    <3>3. y \in KnownPatterns /\ y.matches = patterns[s.at].matches
        BY <1>3, <1>4, <3>1, <3>2, CountedKept
    <3>4. patterns' = [patterns EXCEPT ![s.at] = y]
        BY <1>1, <2>2, <3>2
    <3>5. /\ patterns' \in Seq(KnownPatterns) /\ Len(patterns') = Len(patterns)
          /\ \A p \in DOMAIN patterns : patterns'[p] = IF p = s.at THEN y ELSE patterns[p]
        BY <1>4, <3>1, <3>3, <3>4
    <3>6. patterns'[s.at] = Errors!Counted(patterns[s.at], s.component)
        BY <3>1, <3>2, <3>5
    <3>7. \A p \in 1 .. Len(patterns) : patterns'[p].matches = patterns[p].matches
        BY <1>4, <3>3, <3>5
    <3>8. Extends(patterns', patterns)
        BY <1>4, <3>5, <3>7 DEF Extends
    <3> QED
        BY <3>5, <3>6, <3>8
  <2> QED
      BY <2>1, <2>2
<1>8. /\ records' \in Seq(ErrorRows) /\ DOMAIN records' = DOMAIN records \cup {Len(records) + 1}
      /\ records'[Len(records) + 1] = x /\ \A r \in DOMAIN records : records'[r] = records[r]
    BY <1>1, <1>3, <1>4
<1>9. DOMAIN scan' = Watchers
    BY <1>1, <1>4
<1>10. MatchTypes'
    BY <1>1, <1>7, <1>8, <1>9 DEF MatchKept, MatchTypes
<1>11. Fitting(kind, patterns', x.pattern, x.known, x.message) /\ x.known <= Len(patterns')
    BY <1>3, <1>4, <1>5, <1>7, FittingKept
<1>12. \A r \in DOMAIN records :
            /\ records[r].known <= Len(patterns')
            /\ Fitting(kind, patterns', records[r].pattern, records[r].known, records[r].message)
    BY <1>1, <1>7, <1>10, RowsKept DEF MatchKept
<1>13. RowsFit'
  <2> SUFFICES ASSUME NEW r \in DOMAIN records'
               PROVE  /\ records'[r].known <= Len(patterns')
                      /\ Fitting(kind, patterns', records'[r].pattern, records'[r].known, records'[r].message)
      BY <1>1 DEF RowsFit
  <2>1. CASE r \in DOMAIN records
      BY <1>8, <1>12, <2>1
  <2>2. CASE r = Len(records) + 1
      BY <1>8, <1>11, <2>2
  <2> QED
      BY <1>8, <2>1, <2>2
<1>14. \A u \in Watchers : scan'[u] # none => ScanFits(scan[u])'
  <2>1. CASE kind = "errors"
    <3>1. \A u \in Watchers : scan'[u] = IF u = t THEN none ELSE scan[u]
        BY <1>1, <1>4, <2>1
    <3>2. \A u \in Watchers \ {t} : scan[u] # none =>
              /\ scan[u] \in Scanning /\ scan[u].known <= Len(patterns')
              /\ kind = "errors" /\ ~ scan[u].found => scan[u].at = 0
              /\ scan[u].found => Fitting(kind, patterns', scan[u].at, scan[u].known, scan[u].message)
        BY <1>1, <1>7, <1>10, ScansKept DEF MatchKept
    <3> QED
        BY <1>1, <3>1, <3>2 DEF ScanFits
  <2>2. CASE kind # "errors"
    <3> DEFINE z == [s EXCEPT !.found = FALSE]
    <3>1. \A u \in Watchers : scan'[u] = IF u = t THEN z ELSE scan[u]
        BY <1>1, <1>4, <2>2 DEF s
    <3>2. z \in Scanning /\ z.known = s.known /\ ~ z.found
        BY <1>2 DEF Scanning
    <3> HIDE DEF z
    <3>3. \A u \in Watchers \ {t} : scan[u] # none =>
              /\ scan[u] \in Scanning /\ scan[u].known <= Len(patterns')
              /\ kind = "errors" /\ ~ scan[u].found => scan[u].at = 0
              /\ scan[u].found => Fitting(kind, patterns', scan[u].at, scan[u].known, scan[u].message)
        BY <1>1, <1>7, <1>10, ScansKept DEF MatchKept
    <3>4. \A u \in Watchers \ {t} : scan'[u] # none => ScanFits(scan[u])'
        BY <1>1, <3>1, <3>3 DEF ScanFits
    <3>5. ScanFits(scan[t])'
        BY <1>1, <1>5, <1>7, <2>2, <3>1, <3>2 DEF ScanFits
    <3> QED
        BY <3>4, <3>5
  <2> QED
      BY <2>1, <2>2
<1>15. ASSUME NEW p \in DOMAIN patterns'
       PROVE  BookKept(patterns'[p], records', Mine(records', p), hour)
  <2>1. p \in DOMAIN patterns /\ p \in Nat
      BY <1>4, <1>7
  <2>2. BookKept(patterns[p], records, Mine(records, p), hour) /\ patterns[p] \in KnownPatterns
      BY <1>4, <2>1 DEF MatchKept
  <2>3. CASE p = s.at
    <3>1. p = x.pattern /\ p # 0
        BY <1>3, <1>4, <2>1, <2>3
    <3>2. BookKept(Errors!Counted(patterns[p], x.component), Append(records, x),
                   Mine(Append(records, x), p), hour)
        BY <1>3, <1>4, <2>2, <3>1, BooksKept
    <3> QED
        BY <1>1, <1>3, <1>7, <2>3, <3>1, <3>2
  <2>4. CASE p # s.at
      BY <1>1, <1>3, <1>4, <1>7, <2>1, <2>2, <2>4, OtherBooks
  <2> QED
      BY <2>3, <2>4
<1>16. \A p \in DOMAIN patterns' : BookKept(patterns'[p], records', Mine(records', p), hour')
    BY <1>1, <1>15
<1> QED
    BY <1>10, <1>13, <1>14, <1>16 DEF MatchKept

(* resolve_instance touches nothing the books are made of.                 *)
LEMMA Closed ==
    ASSUME MatchKept, NEW r \in DOMAIN records, Errors!Close(r), UNCHANGED Errors!failureVars
    PROVE  MatchKept'
<1>1. records' = [records EXCEPT ![r].closed = TRUE] /\ UNCHANGED <<kind, patterns, scan, broken, hour,
                events, byComponent, reader>>
    BY DEF Errors!Close, Errors!failureVars
<1>2. records \in Seq(ErrorRows) /\ \A q \in DOMAIN records : records[q] \in ErrorRows
    BY DEF MatchKept, MatchTypes
<1> DEFINE y == [records[r] EXCEPT !.closed = TRUE]
<1>3. /\ y \in ErrorRows /\ y.pattern = records[r].pattern /\ y.known = records[r].known
      /\ y.message = records[r].message /\ y.component = records[r].component
    BY <1>2 DEF ErrorRows
<1> HIDE DEF y
<1>4. /\ records' \in Seq(ErrorRows) /\ DOMAIN records' = DOMAIN records
      /\ \A q \in DOMAIN records : records'[q] = IF q = r THEN y ELSE records[q]
  <2>1. records' = [records EXCEPT ![r] = y]
      BY <1>1 DEF y
  <2> QED
      BY <1>2, <1>3, <2>1
<1>5. \A q \in DOMAIN records :
          /\ records'[q].pattern = records[q].pattern /\ records'[q].known = records[q].known
          /\ records'[q].message = records[q].message /\ records'[q].component = records[q].component
    BY <1>3, <1>4
<1>6. \A p : Mine(records', p) = Mine(records, p) /\ Mine(records, p) \subseteq DOMAIN records
    BY <1>4, <1>5 DEF Mine
<1>7. \A p : {records'[q].component : q \in Mine(records, p)} = {records[q].component : q \in Mine(records, p)}
    BY <1>5, <1>6
<1>8. \A p \in DOMAIN patterns : BookKept(patterns[p], records', Mine(records', p), hour)
    BY <1>6, <1>7 DEF MatchKept, BookKept
<1>9. RowsFit'
    BY <1>1, <1>4, <1>5 DEF MatchKept, RowsFit
<1>10. MatchTypes'
    BY <1>1, <1>4 DEF MatchKept, MatchTypes
<1>11. \A u \in Watchers : scan'[u] # none => ScanFits(scan[u])'
    BY <1>1 DEF MatchKept, ScanFits
<1> QED
    BY <1>1, <1>8, <1>9, <1>10, <1>11 DEF MatchKept

LEMMA LaterKept ==
    ASSUME MatchKept, UNCHANGED <<kind, patterns, scan, records, events, byComponent, reader>>,
           hour' \in Nat, hour <= hour'
    PROVE  MatchKept'
<1>1. \A p \in DOMAIN patterns : BookKept(patterns[p], records, Mine(records, p), hour')
  <2> SUFFICES ASSUME NEW p \in DOMAIN patterns,
                      BookKept(patterns[p], records, Mine(records, p), hour)
               PROVE  BookKept(patterns[p], records, Mine(records, p), hour')
      BY DEF MatchKept
  <2>1. hour \in Nat
      BY DEF MatchKept, MatchTypes
  <2> QED
      BY <2>1 DEF BookKept
<1>2. \A u \in Watchers : scan'[u] # none => ScanFits(scan[u])'
    BY DEF MatchKept, ScanFits
<1> QED
    BY <1>1, <1>2 DEF MatchKept, MatchTypes, RowsFit

LEMMA MatchInvariance == MatchInv /\ [Next]_vars => MatchInv'
<1> SUFFICES ASSUME MatchInv, [Next]_vars, part' = "match" PROVE MatchKept'
    BY DEF MatchInv
<1>1. CASE Next
  <2>1. part = "match" /\ MatchKept
      BY <1>1 DEF Next, MatchInv
  <2>2. Errors!Match /\ UNCHANGED Errors!failureVars
      BY <1>1, <2>1 DEF Next, Work, Judge, Explain, Resume, Keep, Errors!Match
  <2>3. CASE Errors!Tick /\ UNCHANGED Errors!patternVars
    <3>1. hour \in Nat /\ hour' = hour + 1
        BY <2>1, <2>3 DEF Errors!Tick, MatchKept, MatchTypes
    <3> QED
        BY <2>1, <2>2, <2>3, <3>1, LaterKept DEF Errors!patternVars, Errors!failureVars
  <2> QED
      BY <2>1, <2>2, <2>3, Learnt, ScanBegun, Looked, Recorded, Closed DEF Errors!Match
<1>2. CASE UNCHANGED vars
  <2>1. part = "match" /\ MatchKept /\ UNCHANGED <<kind, patterns, scan, records, hour, events, byComponent, reader>>
      BY <1>2 DEF vars, errorVars, MatchInv
  <2> QED
      BY <2>1, LaterKept DEF MatchKept, MatchTypes
<1> QED
    BY <1>1, <1>2

-----------------------------------------------------------------------------
(* Failures *)

(* The list of failures only grows.                                        *)
Grown(book, old) == Len(old) <= Len(book) /\ \A n \in 1 .. Len(old) : book[n] = old[n]

LEMMA PlaceGrows ==
    ASSUME NEW old \in Seq(Failing), NEW book \in Seq(Failing), Grown(book, old), NEW c
    PROVE  /\ OfPlace(old, c) \subseteq OfPlace(book, c) /\ OfPlace(old, c) \subseteq Nat
           /\ OfPlace(old, c) \subseteq DOMAIN old
<1>1. DOMAIN old = 1 .. Len(old) /\ DOMAIN book = 1 .. Len(book) /\ Len(old) \in Nat /\ Len(book) \in Nat
    OBVIOUS
<1> QED
    BY <1>1 DEF OfPlace, Grown

LEMMA OldStaysOld ==
    ASSUME NEW old \in Seq(Failing), NEW book \in Seq(Failing), Grown(book, old),
           NEW n \in DOMAIN old, NEW h \in Nat, NEW g \in Nat, h <= g, TooOld(old, n, h)
    PROVE  TooOld(book, n, g)
<1>1. old[n] \in Failing /\ book[n] = old[n]
  <2>1. n \in 1 .. Len(old)
      OBVIOUS
  <2> QED
      BY <2>1 DEF Grown
<1>2. old[n].at \in Nat /\ KeptHours \in Nat
    BY <1>1, ErrorsAssumption DEF Failing
<1> QED
    BY <1>1, <1>2 DEF TooOld

LEMMA ReadsOn ==
    ASSUME NEW old \in Seq(Failing), NEW book \in Seq(Failing), Grown(book, old),
           NEW h \in Nat, NEW g \in Nat, h <= g, NEW r, ReadsAll(r, old, h)
    PROVE  ReadsAll(r, book, g)
<1>1. /\ r \in Reading /\ r.since \in Nat /\ r.since <= Len(old) /\ Len(old) \in Nat
      /\ Len(book) \in Nat /\ Len(old) <= Len(book)
    BY DEF ReadsAll, Reading, Grown
<1>2. r.since <= Len(book)
    BY <1>1
<1>3. /\ r.list \subseteq OfPlace(book, r.component) /\ r.got \subseteq OfPlace(book, r.component)
      /\ r.sees = 0 \/ r.sees \in OfPlace(book, r.component)
    BY PlaceGrows DEF ReadsAll
<1>4. ASSUME NEW n \in 1 .. r.since, book[n].component = r.component
      PROVE  n \in r.got \/ n = r.sees \/ (n \in r.list /\ n > r.after) \/ TooOld(book, n, g)
  <2>1. n \in 1 .. Len(old) /\ n \in DOMAIN old
      BY <1>1
  <2>2. old[n].component = r.component
      BY <1>4, <2>1 DEF Grown
  <2>3. n \in r.got \/ n = r.sees \/ (n \in r.list /\ n > r.after) \/ TooOld(old, n, h)
      BY <2>2 DEF ReadsAll
  <2> QED
      BY <2>1, <2>3, OldStaysOld
<1> QED
    BY <1>1, <1>2, <1>3, <1>4 DEF ReadsAll

LEMMA AnswerStays ==
    ASSUME NEW old \in Seq(Failing), NEW book \in Seq(Failing), Grown(book, old),
           NEW x, AnswerFits(x, old)
    PROVE  AnswerFits(x, book)
<1>1. /\ x.since \in Nat /\ x.since <= Len(old) /\ Len(old) \in Nat
      /\ Len(book) \in Nat /\ Len(old) <= Len(book)
    BY DEF AnswerFits, Grown
<1>2. x.since <= Len(book)
    BY <1>1
<1>3. x.got \subseteq OfPlace(book, x.component)
    BY PlaceGrows DEF AnswerFits
<1>4. \A n \in 1 .. x.since : book[n] = old[n]
    BY <1>1 DEF Grown
<1>5. ~ x.raised => {n \in 1 .. x.since : book[n].component = x.component
                                           /\ book[n].at >= x.ended - KeptHours} \subseteq x.got
    BY <1>4 DEF AnswerFits
<1>6. ASSUME NEW n \in OfPlace(old, x.component), old[n].at < x.ended - KeptHours
      PROVE  n \in OfPlace(book, x.component) /\ book[n].at < x.ended - KeptHours
  <2>1. n \in 1 .. Len(old)
      BY DEF OfPlace
  <2> QED
      BY <1>6, <2>1, PlaceGrows DEF Grown
<1> QED
    BY <1>1, <1>2, <1>3, <1>5, <1>6 DEF AnswerFits

LEMMA ReportStays ==
    ASSUME NEW old \in Seq(Failing), NEW book \in Seq(Failing), Grown(book, old),
           NEW x, ReportFits(x, old)
    PROVE  ReportFits(x, book)
<1>1. /\ x.since \in Nat /\ x.since <= Len(old) /\ Len(old) \in Nat
      /\ Len(book) \in Nat /\ Len(old) <= Len(book)
    BY DEF ReportFits, Grown
<1>2. x.since <= Len(book)
    BY <1>1
<1>3. \A n \in 1 .. x.since : book[n] = old[n]
    BY <1>1 DEF Grown
<1>4. {n \in 1 .. x.since : book[n].at >= x.at - ReportHours}
          = {n \in 1 .. x.since : old[n].at >= x.at - ReportHours}
    BY <1>3
<1> QED
    BY <1>1, <1>2, <1>4 DEF ReportFits

LEMMA SameBook == ASSUME NEW book PROVE Grown(book, book)
    BY DEF Grown

(* What a reader found is found, and a report stays right, when failures   *)
(* are added and time passes.                                              *)
LEMMA Onward ==
    ASSUME FailuresKept, log' \in Seq(Failing), Grown(log', log), hour' \in Nat, hour <= hour'
    PROVE  /\ \A t \in Watchers : reader[t] # none => ReadsAll(reader[t], log', hour')
           /\ \A x \in answers : AnswerFits(x, log')
           /\ report # none => ReportFits(report, log')
<1>1. log \in Seq(Failing) /\ hour \in Nat
    BY DEF FailuresKept, FailureTypes
<1>2. \A t \in Watchers : reader[t] # none => ReadsAll(reader[t], log, hour)
    BY DEF FailuresKept, ReadersKept
<1>3. \A x \in answers : AnswerFits(x, log)
    BY DEF FailuresKept, Answered
<1>4. report # none => ReportFits(report, log)
    BY DEF FailuresKept, Reported
<1> QED
    BY <1>1, <1>2, <1>3, <1>4, ReadsOn, AnswerStays, ReportStays

LEMMA FailureInit == Init => FailureInv
<1> SUFFICES ASSUME Init, part = "analyze" PROVE FailuresKept
    BY DEF FailureInv
<1>1. /\ log = <<>> /\ events = {} /\ byComponent = [c \in Places |-> {}] /\ cleaning = none
      /\ reader = [t \in Watchers |-> none] /\ answers = {} /\ report = none /\ hour = 0
      /\ scan = [t \in Watchers |-> none]
    BY DEF Init, Errors!Init
<1>2. <<>> \in Seq(Failing) /\ DOMAIN <<>> = {}
    OBVIOUS
<1>3. FailureTypes
    BY <1>1, <1>2 DEF FailureTypes
<1>4. OnlyOldGone
    BY <1>1, <1>2 DEF OnlyOldGone
<1> QED
    BY <1>1, <1>3, <1>4 DEF FailuresKept, ReadersKept, Answered, Reported

(* A step that leaves the list and the clock alone keeps what was found.   *)
LEMMA Meanwhile ==
    ASSUME FailuresKept, FailureTypes', OnlyOldGone', UNCHANGED <<log, hour, answers, report>>,
           \A t \in Watchers : reader'[t] # none => reader'[t] = reader[t] \/ ReadsAll(reader'[t], log, hour)
    PROVE  FailuresKept'
<1>1. ReadersKept'
    BY DEF FailuresKept, ReadersKept
<1>2. Answered'
    BY DEF FailuresKept, Answered
<1>3. Reported'
    BY DEF FailuresKept, Reported
<1> QED
    BY <1>1, <1>2, <1>3 DEF FailuresKept

LEMMA FailureRecorded ==
    ASSUME FailuresKept, NEW c \in Places, Errors!RecordFailure(c), UNCHANGED scan
    PROVE  FailuresKept'
<1> DEFINE n == Len(log) + 1
           f == [component |-> c, at |-> hour]
<1>1. /\ cleaning = none /\ log' = Append(log, f) /\ events' = events \cup {n}
      /\ byComponent' = [byComponent EXCEPT ![c] = @ \cup {n}]
      /\ reader' = [t \in Watchers |-> IF Errors!Holds(t, c) THEN [reader[t] EXCEPT !.list = @ \cup {n}]
                                       ELSE reader[t]]
      /\ UNCHANGED <<cleaning, answers, report, hour, scan>>
    BY DEF Errors!RecordFailure
<1>2. /\ hour \in Nat /\ log \in Seq(Failing) /\ Len(log) \in Nat /\ DOMAIN log = 1 .. Len(log)
      /\ events \subseteq DOMAIN log /\ DOMAIN byComponent = Places
      /\ \A p \in Places : byComponent[p] \subseteq OfPlace(log, p)
    BY DEF FailuresKept, FailureTypes
<1>3. f \in Failing /\ f.component = c /\ f.at = hour
    BY <1>2 DEF Failing
<1> HIDE DEF f
<1>4. /\ log' \in Seq(Failing) /\ Len(log') = Len(log) + 1 /\ DOMAIN log' = DOMAIN log \cup {n}
      /\ log'[n] = f /\ n \notin DOMAIN log /\ n \in Nat
      /\ \A i \in DOMAIN log : log'[i] = log[i]
    BY <1>1, <1>2, <1>3
<1> HIDE DEF n
<1>5. Grown(log', log)
    BY <1>2, <1>4 DEF Grown
<1>6. n \in OfPlace(log', c) /\ \A p : OfPlace(log, p) \subseteq OfPlace(log', p)
    BY <1>2, <1>3, <1>4, <1>5, PlaceGrows DEF OfPlace
<1>7. /\ byComponent'[c] = byComponent[c] \cup {n} /\ DOMAIN byComponent' = Places
      /\ \A p \in Places \ {c} : byComponent'[p] = byComponent[p]
    BY <1>1, <1>2
<1>8. FailureTypes'
  <2>1. \A p \in Places : byComponent'[p] \subseteq OfPlace(log', p)
      BY <1>2, <1>6, <1>7
  <2>2. events' \subseteq DOMAIN log' /\ DOMAIN reader' = Watchers
      BY <1>1, <1>2, <1>4
  <2> QED
      BY <1>1, <1>2, <1>4, <1>7, <2>1, <2>2 DEF FailuresKept, FailureTypes
<1>9. OnlyOldGone'
  <2>1. \A i \in DOMAIN log \ events : TooOld(log', i, hour)
    <3> SUFFICES ASSUME NEW i \in DOMAIN log, TooOld(log, i, hour) PROVE TooOld(log', i, hour)
        BY DEF FailuresKept, OnlyOldGone
    <3>1. hour <= hour
        BY <1>2
    <3> QED
        BY <1>2, <1>4, <1>5, <3>1, OldStaysOld
  <2>2. \A i \in DOMAIN log' \ events' : TooOld(log', i, hour)
      BY <1>1, <1>4, <2>1
  <2>3. \A i \in events : log'[i] = log[i] /\ log[i].component \in Places
                          /\ i \in byComponent[log[i].component]
    <3>1. \A i \in events : i \in DOMAIN log /\ log[i] \in Failing
        BY <1>2
    <3> QED
        BY <1>4, <3>1 DEF FailuresKept, OnlyOldGone, Failing
  <2>4. \A i \in events' : i \in byComponent'[log'[i].component]
      BY <1>1, <1>3, <1>4, <1>7, <2>3
  <2> QED
      BY <1>1, <2>2, <2>4 DEF OnlyOldGone
<1>10. /\ \A t \in Watchers : reader[t] # none => ReadsAll(reader[t], log', hour)
       /\ \A x \in answers : AnswerFits(x, log')
       /\ report # none => ReportFits(report, log')
    BY <1>1, <1>2, <1>4, <1>5, Onward
<1>11. ASSUME NEW t \in Watchers, reader'[t] # none PROVE ReadsAll(reader'[t], log', hour)
  <2>1. CASE ~ Errors!Holds(t, c)
      BY <1>1, <1>10, <1>11, <2>1
  <2>2. CASE Errors!Holds(t, c)
    <3> DEFINE r == reader[t]
               x == [r EXCEPT !.list = r.list \cup {n}]
    <3>1. reader'[t] = x /\ r # none /\ r.component = c
        BY <1>1, <2>2 DEF Errors!Holds
    <3>2. ReadsAll(r, log', hour)
        BY <1>10, <3>1
    <3>3. r \in Reading
        BY <3>2 DEF ReadsAll
    <3>4. /\ x \in Reading /\ x.list = r.list \cup {n} /\ x.component = r.component /\ x.got = r.got
          /\ x.sees = r.sees /\ x.after = r.after /\ x.since = r.since
        BY <1>4, <3>3 DEF Reading
    <3> HIDE DEF r, x
    <3>5. ReadsAll(x, log', hour)
        BY <1>6, <3>1, <3>2, <3>4 DEF ReadsAll
    <3> QED
        BY <3>1, <3>5
  <2> QED
      BY <2>1, <2>2
<1>12. ReadersKept'
    BY <1>1, <1>11 DEF ReadersKept
<1>13. Answered' /\ Reported'
    BY <1>1, <1>10 DEF Answered, Reported
<1> QED
    BY <1>8, <1>9, <1>12, <1>13 DEF FailuresKept

LEMMA CleanupStarts ==
    ASSUME FailuresKept, Errors!StartCleanup, UNCHANGED scan
    PROVE  FailuresKept'
<1> DEFINE x == [cutoff |-> hour - KeptHours, left |-> {c \in Places : byComponent[c] # {}},
                 dropping |-> TRUE]
<1>1. cleaning' = x /\ UNCHANGED <<log, events, byComponent, reader, answers, report, hour, scan>>
    BY DEF Errors!StartCleanup
<1>2. x \in Cleaning /\ x.cutoff <= hour - KeptHours
  <2>1. hour - KeptHours \in Int
      BY ErrorsAssumption DEF FailuresKept, FailureTypes
  <2> QED
      BY <2>1 DEF Cleaning
<1> HIDE DEF x
<1>3. FailureTypes'
    BY <1>1, <1>2 DEF FailuresKept, FailureTypes
<1>4. OnlyOldGone'
    BY <1>1 DEF FailuresKept, OnlyOldGone
<1> QED
    BY <1>1, <1>3, <1>4, Meanwhile

(* Only what is older than the cutoff goes.                                *)
LEMMA OldDropped ==
    ASSUME FailuresKept, Errors!DropOld, UNCHANGED scan
    PROVE  FailuresKept'
<1>1. /\ cleaning # none /\ cleaning \in Cleaning /\ cleaning.cutoff <= hour - KeptHours
      /\ cleaning.cutoff \in Int /\ hour \in Nat /\ KeptHours \in Nat
  <2>1. cleaning # none /\ cleaning \in Cleaning /\ cleaning.cutoff <= hour - KeptHours /\ hour \in Nat
      BY DEF Errors!DropOld, FailuresKept, FailureTypes
  <2> QED
      BY <2>1, ErrorsAssumption DEF Cleaning
<1>2. UNCHANGED <<log, byComponent, reader, answers, report, hour, scan>>
    BY DEF Errors!DropOld
<1>3. CASE UNCHANGED events
  <2>1. cleaning' = cleaning \/ cleaning' = [cleaning EXCEPT !.dropping = FALSE]
      BY DEF Errors!DropOld
  <2>2. cleaning' \in Cleaning /\ cleaning'.cutoff = cleaning.cutoff
      BY <1>1, <2>1 DEF Cleaning
  <2>3. FailureTypes'
      BY <1>1, <1>2, <1>3, <2>2 DEF FailuresKept, FailureTypes
  <2>4. OnlyOldGone'
      BY <1>2, <1>3 DEF FailuresKept, OnlyOldGone
  <2> QED
      BY <1>2, <2>3, <2>4, Meanwhile
<1>4. CASE ~ UNCHANGED events
  <2>1. PICK n \in events : Errors!Old(n, cleaning.cutoff) /\ events' = events \ {n} /\ UNCHANGED cleaning
      BY <1>4 DEF Errors!DropOld
  <2>2. TooOld(log, n, hour)
    <3>1. log[n] \in Failing
        BY DEF FailuresKept, FailureTypes
    <3>2. log[n].at \in Nat /\ log[n].at < cleaning.cutoff
        BY <2>1, <3>1 DEF Errors!Old, Failing
    <3> QED
        BY <1>1, <3>2 DEF TooOld
  <2>3. FailureTypes'
      BY <1>2, <2>1 DEF FailuresKept, FailureTypes
  <2>4. OnlyOldGone'
      BY <1>2, <2>1, <2>2 DEF FailuresKept, OnlyOldGone
  <2> QED
      BY <1>2, <2>3, <2>4, Meanwhile
<1> QED
    BY <1>3, <1>4

LEMMA ListRebuilt ==
    ASSUME FailuresKept, NEW c \in Places, Errors!Rebuild(c), UNCHANGED scan
    PROVE  FailuresKept'
<1>1. /\ cleaning # none
      /\ byComponent' = [byComponent EXCEPT ![c] = @ \cap events]
      /\ reader' = [t \in Watchers |-> IF Errors!Holds(t, c) THEN [reader[t] EXCEPT !.shared = FALSE]
                                       ELSE reader[t]]
      /\ cleaning' = [cleaning EXCEPT !.left = @ \ {c}]
      /\ UNCHANGED <<log, events, answers, report, hour, scan>>
    BY DEF Errors!Rebuild
<1>2. cleaning' \in Cleaning /\ cleaning'.cutoff = cleaning.cutoff
  <2>1. cleaning \in Cleaning
      BY <1>1 DEF FailuresKept, FailureTypes
  <2> QED
      BY <1>1, <2>1 DEF Cleaning
<1>3. \A p \in Places : byComponent'[p] = IF p = c THEN byComponent[c] \cap events ELSE byComponent[p]
    BY <1>1 DEF FailuresKept, FailureTypes
<1>4. FailureTypes'
    BY <1>1, <1>2, <1>3 DEF FailuresKept, FailureTypes
<1>5. OnlyOldGone'
  <2>1. \A n \in events : log[n] \in Failing /\ n \in byComponent[log[n].component]
      BY DEF FailuresKept, FailureTypes, OnlyOldGone
  <2>2. \A n \in events : n \in byComponent'[log[n].component]
      BY <1>3, <2>1 DEF Failing
  <2> QED
      BY <1>1, <2>2 DEF FailuresKept, OnlyOldGone
<1>6. ASSUME NEW t \in Watchers, reader'[t] # none, reader'[t] # reader[t]
      PROVE  ReadsAll(reader'[t], log, hour)
  <2> DEFINE r == reader[t]
             x == [r EXCEPT !.shared = FALSE]
  <2>1. reader'[t] = x /\ r # none
      BY <1>1, <1>6 DEF Errors!Holds
  <2>2. ReadsAll(r, log, hour) /\ r \in Reading
      BY <2>1 DEF FailuresKept, ReadersKept, ReadsAll
  <2>3. /\ x \in Reading /\ x.list = r.list /\ x.component = r.component /\ x.got = r.got
        /\ x.sees = r.sees /\ x.after = r.after /\ x.since = r.since
      BY <2>2 DEF Reading
  <2> HIDE DEF r, x
  <2>4. ReadsAll(x, log, hour)
      BY <2>2, <2>3 DEF ReadsAll
  <2> QED
      BY <2>1, <2>4
<1> QED
    BY <1>1, <1>4, <1>5, <1>6, Meanwhile

LEMMA CleanupEnds ==
    ASSUME FailuresKept, Errors!EndCleanup, UNCHANGED scan
    PROVE  FailuresKept'
<1>1. cleaning' = none /\ UNCHANGED <<log, events, byComponent, reader, answers, report, hour, scan>>
    BY DEF Errors!EndCleanup
<1>2. FailureTypes'
    BY <1>1 DEF FailuresKept, FailureTypes
<1>3. OnlyOldGone'
    BY <1>1 DEF FailuresKept, OnlyOldGone
<1> QED
    BY <1>1, <1>2, <1>3, Meanwhile

(* What is not in the list the reader gets is too old.                     *)
LEMMA ReadBegun ==
    ASSUME FailuresKept, NEW t \in Watchers, NEW c \in Places, Errors!StartRead(t, c), UNCHANGED scan
    PROVE  FailuresKept'
<1> DEFINE x == [component |-> c, list |-> byComponent[c], shared |-> byComponent[c] # {},
                 after |-> 0, got |-> {}, sees |-> 0, since |-> Len(log)]
<1>1. /\ reader' = [reader EXCEPT ![t] = x]
      /\ UNCHANGED <<log, events, byComponent, cleaning, answers, report, hour, scan>>
    BY DEF Errors!StartRead
<1>2. /\ log \in Seq(Failing) /\ Len(log) \in Nat /\ DOMAIN log = 1 .. Len(log)
      /\ byComponent[c] \subseteq OfPlace(log, c) /\ DOMAIN reader = Watchers
    BY DEF FailuresKept, FailureTypes
<1>3. OfPlace(log, c) \subseteq Nat
    BY <1>2 DEF OfPlace
<1>4. x \in Reading
    BY <1>2, <1>3 DEF Reading
<1>5. /\ x.component = c /\ x.list = byComponent[c] /\ x.after = 0 /\ x.got = {} /\ x.sees = 0
      /\ x.since = Len(log)
    OBVIOUS
<1> HIDE DEF x
<1>6. \A n \in 1 .. x.since :
          log[n].component = c => (n \in x.list /\ n > 0) \/ TooOld(log, n, hour)
    BY <1>2, <1>5 DEF FailuresKept, OnlyOldGone
<1>7. ReadsAll(x, log, hour)
    BY <1>2, <1>4, <1>5, <1>6 DEF ReadsAll
<1>8. reader'[t] = x /\ (\A u \in Watchers \ {t} : reader'[u] = reader[u]) /\ DOMAIN reader' = Watchers
    BY <1>1, <1>2
<1>9. FailureTypes'
    BY <1>1, <1>8 DEF FailuresKept, FailureTypes
<1>10. OnlyOldGone'
    BY <1>1 DEF FailuresKept, OnlyOldGone
<1> QED
    BY <1>1, <1>7, <1>8, <1>9, <1>10, Meanwhile

(* A number that is not among the events is that of one too old.           *)
LEMMA Asked ==
    ASSUME FailuresKept, NEW t \in Watchers, Errors!Ask(t), UNCHANGED scan
    PROVE  FailuresKept'
<1> DEFINE r == reader[t]
<1>1. /\ r # none /\ r.sees = 0
      /\ UNCHANGED <<log, events, byComponent, cleaning, answers, report, hour, scan>>
    BY DEF Errors!Ask
<1>2. PICK n \in Errors!Ahead(r) :
          /\ \A m \in Errors!Ahead(r) : n <= m
          /\ reader' = [reader EXCEPT ![t].after = n, ![t].sees = IF n \in events THEN n ELSE 0]
    BY DEF Errors!Ask
<1>3. ReadsAll(r, log, hour) /\ r \in Reading /\ DOMAIN reader = Watchers
    BY <1>1 DEF FailuresKept, FailureTypes, ReadersKept, ReadsAll
<1>4. log \in Seq(Failing) /\ DOMAIN log = 1 .. Len(log) /\ Len(log) \in Nat
    BY DEF FailuresKept, FailureTypes
<1>5. n \in r.list /\ n > r.after /\ n \in OfPlace(log, r.component) /\ n \in Nat /\ n \in DOMAIN log
    BY <1>2, <1>3, <1>4 DEF Errors!Ahead, ReadsAll, OfPlace
<1> DEFINE k == IF n \in events THEN n ELSE 0
           x == [r EXCEPT !.after = n, !.sees = k]
<1>6. reader' = [reader EXCEPT ![t] = x]
    BY <1>2, <1>3
<1>7. k \in Nat /\ (k = 0 \/ k \in OfPlace(log, r.component))
    BY <1>5
<1>8. n \notin events => TooOld(log, n, hour)
    BY <1>5 DEF FailuresKept, OnlyOldGone
<1>9. n \in events => k = n
    OBVIOUS
<1> HIDE DEF k
<1>10. /\ x \in Reading /\ x.list = r.list /\ x.component = r.component /\ x.got = r.got
       /\ x.sees = k /\ x.after = n /\ x.since = r.since
    BY <1>3, <1>5, <1>7 DEF Reading
<1> HIDE DEF r, x
<1>11. ASSUME NEW i \in 1 .. r.since, log[i].component = r.component
       PROVE  i \in x.got \/ i = x.sees \/ (i \in x.list /\ i > x.after) \/ TooOld(log, i, hour)
  <2>1. i \in r.got \/ i = r.sees \/ (i \in r.list /\ i > r.after) \/ TooOld(log, i, hour)
      BY <1>3, <1>11 DEF ReadsAll
  <2>2. i # r.sees
      BY <1>1, <1>3 DEF Reading
  <2>3. CASE i \in r.list /\ i > r.after
    <3>1. i \in Errors!Ahead(r)
        BY <2>3 DEF Errors!Ahead
    <3>2. n <= i /\ i \in Nat
        BY <1>2, <1>3, <3>1
    <3>3. i = n \/ i > n
        BY <1>5, <3>2
    <3> QED
        BY <1>8, <1>9, <1>10, <2>3, <3>3
  <2> QED
      BY <1>10, <2>1, <2>2, <2>3
<1>12. ReadsAll(x, log, hour)
    BY <1>3, <1>7, <1>10, <1>11 DEF ReadsAll
<1>13. reader'[t] = x /\ (\A u \in Watchers \ {t} : reader'[u] = reader[u]) /\ DOMAIN reader' = Watchers
    BY <1>3, <1>6
<1>14. FailureTypes'
    BY <1>1, <1>13 DEF FailuresKept, FailureTypes
<1>15. OnlyOldGone'
    BY <1>1 DEF FailuresKept, OnlyOldGone
<1> QED
    BY <1>1, <1>12, <1>13, <1>14, <1>15, Meanwhile

(* An answer that fits joins the others.                                   *)
LEMMA AnswerGiven ==
    ASSUME FailuresKept, NEW t \in Watchers, NEW x, AnswerFits(x, log), answers' = answers \cup {x},
           reader' = [reader EXCEPT ![t] = none],
           UNCHANGED <<log, events, byComponent, cleaning, report, hour, scan>>
    PROVE  FailuresKept'
<1>1. \A u \in Watchers : reader'[u] # none => u # t /\ reader'[u] = reader[u]
    BY DEF FailuresKept, FailureTypes
<1>2. FailureTypes'
    BY DEF FailuresKept, FailureTypes
<1>3. OnlyOldGone'
    BY DEF FailuresKept, OnlyOldGone
<1>4. ReadersKept'
    BY <1>1 DEF FailuresKept, ReadersKept
<1>5. Answered'
    BY DEF FailuresKept, Answered
<1>6. Reported'
    BY DEF FailuresKept, Reported
<1> QED
    BY <1>2, <1>3, <1>4, <1>5, <1>6 DEF FailuresKept

LEMMA Taken ==
    ASSUME FailuresKept, NEW t \in Watchers, Errors!Take(t), UNCHANGED scan
    PROVE  FailuresKept'
<1> DEFINE r == reader[t]
<1>1. /\ r # none /\ r.sees # 0
      /\ UNCHANGED <<log, events, byComponent, cleaning, report, hour, scan>>
    BY DEF Errors!Take
<1>2. ReadsAll(r, log, hour) /\ r \in Reading /\ DOMAIN reader = Watchers
    BY <1>1 DEF FailuresKept, FailureTypes, ReadersKept, ReadsAll
<1>3. r.sees \in OfPlace(log, r.component)
    BY <1>1, <1>2 DEF ReadsAll
<1>4. CASE r.sees \in events
  <2> DEFINE x == [r EXCEPT !.got = r.got \cup {r.sees}, !.sees = 0]
  <2>1. reader' = [reader EXCEPT ![t] = x] /\ answers' = answers
      BY <1>2, <1>4 DEF Errors!Take
  <2>2. /\ x \in Reading /\ x.list = r.list /\ x.component = r.component /\ x.got = r.got \cup {r.sees}
        /\ x.sees = 0 /\ x.after = r.after /\ x.since = r.since
      BY <1>2 DEF Reading
  <2> HIDE DEF r, x
  <2>3. ReadsAll(x, log, hour)
      BY <1>2, <1>3, <2>2 DEF ReadsAll
  <2>4. reader'[t] = x /\ (\A u \in Watchers \ {t} : reader'[u] = reader[u]) /\ DOMAIN reader' = Watchers
      BY <1>2, <2>1
  <2>5. FailureTypes'
      BY <1>1, <2>4 DEF FailuresKept, FailureTypes
  <2>6. OnlyOldGone'
      BY <1>1 DEF FailuresKept, OnlyOldGone
  <2> QED
      BY <1>1, <2>1, <2>3, <2>4, <2>5, <2>6, Meanwhile
<1>5. CASE r.sees \notin events
  <2> DEFINE x == [component |-> r.component, got |-> r.got, since |-> r.since, ended |-> hour,
                   raised |-> TRUE]
  <2>1. reader' = [reader EXCEPT ![t] = none] /\ answers' = answers \cup {x}
      BY <1>5 DEF Errors!Take, Errors!Answer
  <2>2. /\ x.component = r.component /\ x.got = r.got /\ x.since = r.since /\ x.ended = hour /\ x.raised
      OBVIOUS
  <2> HIDE DEF r, x
  <2>3. TooOld(log, r.sees, hour)
      BY <1>3, <1>5 DEF FailuresKept, OnlyOldGone, OfPlace
  <2>4. AnswerFits(x, log)
      BY <1>2, <1>3, <2>2, <2>3 DEF AnswerFits, ReadsAll, Reading, TooOld
  <2> QED
      BY <1>1, <2>1, <2>4, AnswerGiven
<1> QED
    BY <1>4, <1>5

LEMMA ReadEnded ==
    ASSUME FailuresKept, NEW t \in Watchers, Errors!EndRead(t), UNCHANGED scan
    PROVE  FailuresKept'
<1> DEFINE r == reader[t]
           x == [component |-> r.component, got |-> r.got, since |-> r.since, ended |-> hour,
                 raised |-> FALSE]
<1>1. /\ r # none /\ r.sees = 0 /\ Errors!Ahead(r) = {}
      /\ reader' = [reader EXCEPT ![t] = none] /\ answers' = answers \cup {x}
      /\ UNCHANGED <<log, events, byComponent, cleaning, report, hour, scan>>
    BY DEF Errors!EndRead, Errors!Answer
<1>2. ReadsAll(r, log, hour) /\ r \in Reading
    BY <1>1 DEF FailuresKept, ReadersKept, ReadsAll
<1>3. x.component = r.component /\ x.got = r.got /\ x.since = r.since /\ x.ended = hour /\ ~ x.raised
    OBVIOUS
<1> HIDE DEF r, x
<1>4. ASSUME NEW n \in 1 .. r.since, log[n].component = r.component, log[n].at >= hour - KeptHours
      PROVE  n \in r.got
  <2>1. n \in r.got \/ n = r.sees \/ (n \in r.list /\ n > r.after) \/ TooOld(log, n, hour)
      BY <1>2, <1>4 DEF ReadsAll
  <2>2. n # r.sees
      BY <1>1, <1>2 DEF Reading
  <2>3. ~ (n \in r.list /\ n > r.after)
      BY <1>1 DEF Errors!Ahead
  <2>4. ~ TooOld(log, n, hour)
    <3>1. log \in Seq(Failing) /\ hour \in Nat /\ Len(log) \in Nat /\ DOMAIN log = 1 .. Len(log)
        BY DEF FailuresKept, FailureTypes
    <3>2. n \in 1 .. Len(log)
        BY <1>2, <3>1 DEF ReadsAll, Reading
    <3>3. log[n] \in Failing
        BY <3>1, <3>2
    <3>4. log[n].at \in Nat /\ KeptHours \in Nat
        BY <3>3, ErrorsAssumption DEF Failing
    <3> QED
        BY <1>4, <3>1, <3>4 DEF TooOld
  <2> QED
      BY <2>1, <2>2, <2>3, <2>4
<1>5. AnswerFits(x, log)
    BY <1>2, <1>3, <1>4 DEF AnswerFits, ReadsAll, Reading
<1> QED
    BY <1>1, <1>5, AnswerGiven

(* What is gone is too old for a report.                                   *)
LEMMA ReportMade ==
    ASSUME FailuresKept, Errors!Report(ReportHours), UNCHANGED scan
    PROVE  FailuresKept'
<1> DEFINE whole == {n \in 1 .. Len(log) : log[n].at >= hour - ReportHours}
<1>1. /\ report'.total = Cardinality(Errors!Recent(ReportHours)) /\ report'.at = hour
      /\ report'.since = Len(log)
      /\ UNCHANGED <<log, events, byComponent, cleaning, reader, answers, hour, scan>>
    BY ErrorsCardinality DEF Errors!Report
<1>2. /\ log \in Seq(Failing) /\ hour \in Nat /\ Len(log) \in Nat /\ DOMAIN log = 1 .. Len(log)
      /\ events \subseteq DOMAIN log
    BY DEF FailuresKept, FailureTypes
<1>3. Errors!Recent(ReportHours) = whole
  <2>1. ASSUME NEW n \in 1 .. Len(log), n \notin events PROVE ~ (log[n].at >= hour - ReportHours)
    <3>1. TooOld(log, n, hour)
        BY <1>2, <2>1 DEF FailuresKept, OnlyOldGone
    <3>2. log[n] \in Failing
        BY <1>2
    <3>3. log[n].at \in Nat /\ KeptHours \in Nat /\ ReportHours \in Nat /\ ReportHours <= KeptHours
        BY <3>2, ErrorsAssumption DEF Failing
    <3> QED
        BY <1>2, <3>1, <3>3 DEF TooOld
  <2> QED
      BY <1>2, <2>1 DEF Errors!Recent
<1>4. ReportFits(report, log)'
    BY <1>1, <1>2, <1>3 DEF ReportFits
<1>5. FailureTypes'
    BY <1>1 DEF FailuresKept, FailureTypes
<1>6. OnlyOldGone'
    BY <1>1 DEF FailuresKept, OnlyOldGone
<1>7. ReadersKept' /\ Answered'
    BY <1>1 DEF FailuresKept, ReadersKept, Answered
<1> QED
    BY <1>4, <1>5, <1>6, <1>7 DEF FailuresKept, Reported

LEMMA TimeKept ==
    ASSUME FailuresKept, hour' \in Nat, hour <= hour',
           UNCHANGED <<log, events, byComponent, cleaning, reader, answers, report, scan>>
    PROVE  FailuresKept'
<1>1. log \in Seq(Failing) /\ hour \in Nat /\ KeptHours \in Nat /\ Grown(log, log)
    BY ErrorsAssumption, SameBook DEF FailuresKept, FailureTypes
<1>2. \A n \in DOMAIN log \ events : TooOld(log, n, hour')
  <2> SUFFICES ASSUME NEW n \in DOMAIN log, TooOld(log, n, hour) PROVE TooOld(log, n, hour')
      BY DEF FailuresKept, OnlyOldGone
  <2> QED
      BY <1>1, OldStaysOld
<1>3. OnlyOldGone'
    BY <1>2 DEF FailuresKept, OnlyOldGone
<1>4. cleaning # none => cleaning.cutoff <= hour' - KeptHours
  <2> SUFFICES ASSUME cleaning # none PROVE cleaning.cutoff <= hour' - KeptHours
      OBVIOUS
  <2>1. cleaning.cutoff \in Int /\ cleaning.cutoff <= hour - KeptHours
      BY DEF FailuresKept, FailureTypes, Cleaning
  <2> QED
      BY <1>1, <2>1
<1>5. FailureTypes'
    BY <1>4 DEF FailuresKept, FailureTypes
<1>6. ReadersKept' /\ Answered' /\ Reported'
    BY <1>1, Onward DEF ReadersKept, Answered, Reported
<1> QED
    BY <1>3, <1>5, <1>6 DEF FailuresKept

LEMMA FailureInvariance == FailureInv /\ [Next]_vars => FailureInv'
<1> SUFFICES ASSUME FailureInv, [Next]_vars, part' = "analyze" PROVE FailuresKept'
    BY DEF FailureInv
<1>1. CASE Next
  <2>1. part = "analyze" /\ FailuresKept
      BY <1>1 DEF Next, FailureInv
  <2>2. Errors!Analyze
      BY <1>1, <2>1 DEF Next, Work, Judge, Explain, Resume, Keep
  <2>3. UNCHANGED scan
      BY <2>2 DEF Errors!Analyze, Errors!patternVars
  <2>4. CASE Errors!Tick /\ UNCHANGED Errors!failureVars
    <3>1. hour \in Nat /\ hour' = hour + 1
        BY <2>1, <2>4 DEF Errors!Tick, FailuresKept, FailureTypes
    <3> QED
        BY <2>1, <2>3, <2>4, <3>1, TimeKept DEF Errors!failureVars
  <2> QED
      BY <2>1, <2>2, <2>3, <2>4, FailureRecorded, CleanupStarts, OldDropped, ListRebuilt,
         CleanupEnds, ReadBegun, Asked, Taken, ReadEnded, ReportMade DEF Errors!Analyze
<1>2. CASE UNCHANGED vars
  <2>1. part = "analyze" /\ FailuresKept
      BY <1>2 DEF vars, FailureInv
  <2>2. UNCHANGED <<log, events, byComponent, cleaning, reader, answers, report, scan, hour>>
      BY <1>2 DEF vars, errorVars
  <2> QED
      BY <2>1, <2>2, TimeKept DEF FailuresKept, FailureTypes
<1> QED
    BY <1>1, <1>2

(* For any patterns, threads and number of scans, records and failures:    *)
(* a recorded error has the first pattern that matched it, the books of a  *)
(* pattern are those of its records, and a reader of failures and a report *)
(* find all that are recent, though cleanups run all the time.             *)
THEOREM RecordsAddUp == Spec => []ErrorsSound
<1>1. MatchInv => (part = "match" => Errors!TypeOK /\ Errors!CountsMatchRecords)
  <2> SUFFICES ASSUME MatchKept PROVE Errors!TypeOK /\ Errors!CountsMatchRecords
      BY DEF MatchInv
  <2>1. Errors!TypeOK
      BY DEF MatchKept, MatchTypes, ScanFits, Errors!TypeOK
  <2>2. ASSUME NEW r \in DOMAIN records
        PROVE  LET x == records[r]
                   hits == {i \in 1 .. x.known : x.message \in patterns[i].matches}
               IN IF x.pattern = 0 THEN hits = {}
                  ELSE x.pattern \in hits /\ (kind = "errors" => \A i \in hits : x.pattern <= i)
      BY DEF MatchKept, RowsFit, Fitting, Hits
  <2>3. ASSUME NEW p \in DOMAIN patterns
        PROVE  LET mine == {r \in DOMAIN records : records[r].pattern = p}
               IN /\ patterns[p].count = Errors!Cardinality(mine)
                  /\ patterns[p].components = {records[r].component : r \in mine}
                  /\ mine # {} => patterns[p].first <= patterns[p].last
      BY ErrorsCardinality DEF MatchKept, BookKept, Mine
  <2> QED
      BY <2>1, <2>2, <2>3 DEF Errors!CountsMatchRecords
<1>2. FailureInv => (part = "analyze" => Errors!TypeOK /\ Errors!FailuresFound)
  <2> SUFFICES ASSUME FailuresKept PROVE Errors!TypeOK /\ Errors!FailuresFound
      BY DEF FailureInv
  <2>1. Errors!TypeOK
    <3>1. \A t \in Watchers : reader[t] # none => reader[t].got \subseteq DOMAIN log
        BY DEF FailuresKept, ReadersKept, ReadsAll, OfPlace
    <3>2. \A c \in Places : byComponent[c] \subseteq DOMAIN log
        BY DEF FailuresKept, FailureTypes, OfPlace
    <3> QED
        BY <3>1, <3>2 DEF FailuresKept, FailureTypes, Errors!TypeOK
  <2>2. ASSUME NEW a \in answers
        PROVE  LET mine == {n \in 1 .. a.since : log[n].component = a.component}
               IN /\ \A n \in a.got : log[n].component = a.component
                  /\ ~a.raised => {n \in mine : log[n].at >= a.ended - KeptHours} \subseteq a.got
                  /\ a.raised => \E n \in DOMAIN log : log[n].component = a.component
                                                        /\ log[n].at < a.ended - KeptHours
    <3>1. AnswerFits(a, log)
        BY DEF FailuresKept, Answered
    <3> QED
        BY <3>1 DEF AnswerFits, OfPlace
  <2>3. report # none =>
            report.total
              = Errors!Cardinality({n \in 1 .. report.since : log[n].at >= report.at - ReportHours})
      BY ErrorsCardinality DEF FailuresKept, Reported, ReportFits
  <2> QED
      BY <2>1, <2>2, <2>3 DEF Errors!FailuresFound
<1>3. MatchInv /\ FailureInv => ErrorsSound
    BY <1>1, <1>2 DEF ErrorsSound
<1> QED
    BY <1>3, MatchInit, MatchInvariance, FailureInit, FailureInvariance, PTL DEF Spec

-----------------------------------------------------------------------------
(* The memory stores *)

Placing == Memory!ToSet(Memory!Layers)
Remark == [value : Nat, confidence : Nat]
Item == [value : Nat, confidence : Nat, updated : Nat]
ConflictPolicies == {"prefer_newer", "prefer_existing", "prefer_higher_confidence"}

(* an item is one of the n writes of its key, and the one its policy asks for *)
Survives(item, mine, pol, n, t) ==
    /\ \A w \in mine : 1 <= w.value /\ w.value <= n /\ w.confidence <= Certain
    /\ item = none => mine = {}
    /\ item # none =>
          /\ 1 <= item.value /\ item.value <= n /\ item.updated <= t
          /\ \E w \in mine : w.value = item.value /\ w.confidence = item.confidence
          /\ item.confidence <= Certain
          /\ pol = "prefer_existing" => \A w \in mine : item.value <= w.value
          /\ pol = "prefer_newer" => \A w \in mine : w.value <= item.value
          /\ pol = "prefer_higher_confidence" =>
                \A w \in mine : /\ w.confidence <= item.confidence
                                /\ w.confidence = item.confidence /\ w.confidence < Certain
                                      => item.value <= w.value

HubKept ==
    /\ policy \in ConflictPolicies
    /\ layers \in [Placing -> [HubKeys -> Item \cup {none}]]
    /\ written \in [Placing -> [HubKeys -> SUBSET Remark]]
    /\ \A l \in Placing, k \in HubKeys : Survives(layers[l][k], written[l][k], policy, writes, third)

KernelKept ==
    /\ store \in [Remembered -> Nat \cup {none}]
    /\ expiry \in [Remembered -> Nat \cup {none}]
    /\ \A k \in Remembered :
          /\ store[k] # none => 1 <= store[k] /\ store[k] <= writes
          /\ expiry[k] # none => store[k] # none /\ expiry[k] <= MaxTicks + Lifetime

(* what p holds of n objects *)
HeldBy(p) == {k \in Remembered : p[k] # 0}
Fits(p, n) ==
    /\ p \in [Remembered -> Nat] /\ \A k \in Remembered : p[k] <= n
    /\ IsFiniteSet(HeldBy(p)) /\ Cardinality(HeldBy(p)) <= PadSize
    /\ \A j, k \in Remembered : p[j] # 0 /\ p[j] = p[k] => j = k

PadKept ==
    /\ objects \in Seq([value : Nat, at : Nat])
    /\ Fits(pad, Len(objects))
    /\ snapshot # none => Fits(snapshot, Len(objects))

Debt == [type : {"failure_pattern", "low_confidence"}, trace : Nat]
Seen == [message : Reports \cup {none}, known : Flag]

(* the failure pattern of trace n stands among the items, or newer ones fill the ledger *)
Recognised(items, s, n) ==
    /\ (\E i \in DOMAIN items : items[i].type = "failure_pattern" /\ items[i].trace = n) => s[n].known
    /\ s[n].known =>
          \/ \E i \in DOMAIN items : items[i].type = "failure_pattern" /\ items[i].trace = n
          \/ Len(items) = DebtSize /\ \A i \in DOMAIN items : n <= items[i].trace

InOrderUpTo(items, n) ==
    /\ items \in Seq(Debt) /\ Len(items) <= DebtSize
    /\ \A i \in DOMAIN items : 1 <= items[i].trace /\ items[i].trace <= n
    /\ \A i, j \in DOMAIN items : i <= j => items[i].trace <= items[j].trace

LedgerKept ==
    /\ known \subseteq {HeadOf[m] : m \in Reports}
    /\ observed \in Seq(Seen)
    /\ InOrderUpTo(debt, Len(observed))
    /\ \A k \in DOMAIN observed : Recognised(debt, observed, k)

MemoryKept ==
    /\ writes \in Nat /\ third \in Nat /\ third <= MaxTicks
    /\ HubKept /\ KernelKept /\ PadKept /\ LedgerKept

MemoryInv == part \in {"hub", "kernel", "pad", "reflect"} => MemoryKept

LEMMA MemoryCardinality == \A S : Memory!Cardinality(S) = Cardinality(S)
    BY DEF Memory!Cardinality, Cardinality

LEMMA LayersAre == Placing = {"l1_context", "l2_session", "l3_profile", "l4_knowledge"}
<1>1. DOMAIN Memory!Layers = 1 .. 4
    BY DEF Memory!Layers
<1>2. \A l : l \in Placing <=> \E i \in 1 .. 4 : l = Memory!Layers[i]
    BY <1>1 DEF Placing, Memory!ToSet
<1>3. /\ Memory!Layers[1] = "l1_context" /\ Memory!Layers[2] = "l2_session"
      /\ Memory!Layers[3] = "l3_profile" /\ Memory!Layers[4] = "l4_knowledge"
    BY DEF Memory!Layers
<1>4. \A i : i \in 1 .. 4 <=> i \in {1, 2, 3, 4}
    OBVIOUS
<1> QED
    BY <1>2, <1>3, <1>4

LEMMA NumbersNotNone == \A n \in Nat : n # none
    BY MemoryAssumption

(* Time passes, and other keys are written. *)
LEMMA StillSurvives ==
    ASSUME NEW item \in Item \cup {none}, NEW mine \in SUBSET Remark, NEW pol,
           NEW n \in Nat, NEW t \in Nat, NEW m \in Nat, NEW u \in Nat,
           n <= m, t <= u, Survives(item, mine, pol, n, t)
    PROVE  Survives(item, mine, pol, m, u)
<1>1. \A w \in mine : w.value \in Nat
    BY DEF Remark
<1>2. \A w \in mine : 1 <= w.value /\ w.value <= m /\ w.confidence <= Certain
    BY <1>1 DEF Survives
<1>3. item # none => 1 <= item.value /\ item.value <= m /\ item.updated <= u
    <2> SUFFICES ASSUME item # none PROVE 1 <= item.value /\ item.value <= m /\ item.updated <= u
        OBVIOUS
    <2>1. item.value \in Nat /\ item.updated \in Nat
        BY DEF Item
    <2>2. 1 <= item.value /\ item.value <= n /\ item.updated <= t
        BY DEF Survives
    <2> QED
        BY <2>1, <2>2
<1> QED
    BY <1>2, <1>3, Zenon DEF Survives

(* What resolve chooses under a policy, and what upsert makes of it. *)
Chosen(pol, item, new) ==
    IF item = none THEN new
    ELSE CASE pol = "prefer_existing" -> item
           [] pol = "prefer_newer" -> IF new.updated >= item.updated THEN new ELSE item
           [] OTHER -> IF new.confidence > item.confidence THEN new ELSE item

Incoming(c, n, t) == [value |-> n + 1, confidence |-> c, updated |-> t]
Stored(item, t) == [value |-> item.value, confidence |-> Memory!Clamp(item.confidence), updated |-> t]
Marked(c, n) == [value |-> n + 1, confidence |-> Memory!Clamp(c)]

LEMMA ClampIs ==
    \A c \in Nat : Memory!Clamp(c) \in Nat /\ Memory!Clamp(c) <= Certain /\ Memory!Clamp(c) <= c
                   /\ (Memory!Clamp(c) < Certain => Memory!Clamp(c) = c)
                   /\ (c <= Certain => Memory!Clamp(c) = c)
    BY MemoryAssumption DEF Memory!Clamp

LEMMA ChosenIs ==
    ASSUME NEW item, NEW new, NEW pol \in ConflictPolicies
    PROVE  /\ Chosen(pol, item, new) \in {item, new}
           /\ item = none => Chosen(pol, item, new) = new
           /\ item # none /\ pol = "prefer_existing" => Chosen(pol, item, new) = item
           /\ item # none /\ pol = "prefer_newer" /\ new.updated >= item.updated => Chosen(pol, item, new) = new
           /\ item # none /\ pol = "prefer_higher_confidence" =>
                 Chosen(pol, item, new) = IF new.confidence > item.confidence THEN new ELSE item
    BY DEF Chosen, ConflictPolicies

LEMMA UpsertSurvives ==
    ASSUME NEW item \in Item \cup {none}, NEW mine \in SUBSET Remark, NEW pol \in ConflictPolicies,
           NEW n \in Nat, NEW t \in Nat, NEW c \in Nat, Survives(item, mine, pol, n, t)
    PROVE  /\ Stored(Chosen(pol, item, Incoming(c, n, t)), t) \in Item
           /\ mine \cup {Marked(c, n)} \in SUBSET Remark
           /\ Survives(Stored(Chosen(pol, item, Incoming(c, n, t)), t), mine \cup {Marked(c, n)}, pol, n + 1, t)
<1> DEFINE new == Incoming(c, n, t)
           chosen == Chosen(pol, item, new)
           outcome == Stored(chosen, t)
           mark == Marked(c, n)
           clamped == Memory!Clamp(c)
<1>1. /\ clamped \in Nat /\ clamped <= Certain /\ clamped <= c /\ Certain \in Nat
      /\ clamped < Certain => clamped = c
    BY ClampIs, MemoryAssumption
<1>2. new \in Item /\ new.value = n + 1 /\ new.confidence = c /\ new.updated = t
    BY DEF Incoming, Item
<1>3. mark \in Remark /\ mark.value = n + 1 /\ mark.confidence = clamped
    BY <1>1 DEF Marked, Remark
<1>4. \A w \in mine : /\ w.value \in Nat /\ w.confidence \in Nat
                      /\ 1 <= w.value /\ w.value <= n /\ w.confidence <= Certain
    BY DEF Remark, Survives
<1>5. item # none => /\ item.value \in Nat /\ item.confidence \in Nat /\ item.updated \in Nat
                     /\ 1 <= item.value /\ item.value <= n /\ item.updated <= t
                     /\ item.confidence <= Certain
    BY DEF Item, Survives
<1>6. \A w \in mine \cup {mark} : 1 <= w.value /\ w.value <= n + 1 /\ w.confidence <= Certain
    BY <1>1, <1>3, <1>4
<1>7. outcome # none
    <2>1. outcome = none \/ outcome # none
        OBVIOUS
    <2>2. chosen \in Item
        BY <1>2, ChosenIs
    <2>3. outcome \in Item
        BY <2>2, ClampIs DEF Stored, Item
    <2> QED
        BY <2>3, MemoryAssumption DEF Item
<1>8. CASE chosen = new
  <2>1. outcome \in Item /\ outcome.value = n + 1 /\ outcome.confidence = clamped /\ outcome.updated = t
      BY <1>1, <1>2, <1>8 DEF Stored, Item
  <2>2. \E w \in mine \cup {mark} : w.value = outcome.value /\ w.confidence = outcome.confidence
      BY <1>3, <2>1
  <2>3. ASSUME pol = "prefer_existing" PROVE \A w \in mine \cup {mark} : outcome.value <= w.value
    <3>1. item = none
      <4> SUFFICES ASSUME item # none PROVE FALSE
          OBVIOUS
      <4>1. chosen = item
          BY <2>3, ChosenIs
      <4>2. item.value = n + 1
          BY <4>1, <1>2, <1>8
      <4> QED
          BY <4>2, <1>5
    <3>2. mine = {}
        BY <3>1 DEF Survives
    <3> QED
        BY <3>2, <1>3, <2>1
  <2>4. \A w \in mine \cup {mark} : w.value <= outcome.value
      BY <1>3, <1>4, <2>1
  <2>5. ASSUME pol = "prefer_higher_confidence", NEW w \in mine \cup {mark}
        PROVE  /\ w.confidence <= outcome.confidence
               /\ w.confidence = outcome.confidence /\ w.confidence < Certain => outcome.value <= w.value
    <3>1. CASE w = mark
        BY <3>1, <1>1, <1>3, <2>1
    <3>2. CASE w \in mine
      <4>1. item # none
          BY <3>2 DEF Survives
      <4>2. item.confidence < c
        <5>1. CASE chosen = item
          <6>1. item.value = n + 1
              BY <5>1, <1>2, <1>8
          <6> QED
              BY <6>1, <1>5, <4>1
        <5>2. CASE chosen # item
            BY <5>2, <4>1, <2>5, <1>2, <1>5, ChosenIs
        <5> QED
            BY <5>1, <5>2
      <4>3. w.confidence <= item.confidence
          BY <3>2, <4>1, <2>5 DEF Survives
      <4>4. w.confidence \in Nat /\ w.confidence <= Certain
          BY <1>4, <3>2
      <4>5. w.confidence <= clamped /\ (w.confidence = clamped /\ w.confidence < Certain => FALSE)
          BY <1>1, <4>2, <4>3, <4>4, <4>1, <1>5
      <4> QED
          BY <4>5, <2>1
    <3> QED
        BY <2>5, <3>1, <3>2
  <2> QED
      BY <1>1, <1>3, <1>6, <1>7, <2>1, <2>2, <2>3, <2>4, <2>5 DEF Survives
<1>9. CASE chosen = item /\ item # none
  <2>1. outcome \in Item /\ outcome.value = item.value /\ outcome.confidence = item.confidence /\ outcome.updated = t
    <3>1. Memory!Clamp(item.confidence) = item.confidence
        BY <1>5, <1>9, ClampIs
    <3> QED
        BY <3>1, <1>5, <1>9 DEF Stored, Item
  <2>2. \E w \in mine \cup {mark} : w.value = outcome.value /\ w.confidence = outcome.confidence
      BY <1>9, <2>1 DEF Survives
  <2>3. ASSUME pol = "prefer_existing" PROVE \A w \in mine \cup {mark} : outcome.value <= w.value
    <3>1. \A w \in mine : item.value <= w.value
        BY <2>3, <1>9 DEF Survives
    <3> QED
        BY <3>1, <1>3, <1>5, <1>9, <2>1
  <2>4. pol # "prefer_newer"
    <3> SUFFICES ASSUME pol = "prefer_newer" PROVE FALSE
        OBVIOUS
    <3>1. chosen = new
        BY <1>2, <1>5, <1>9, ChosenIs
    <3>2. item.value = n + 1
        BY <3>1, <1>2, <1>9
    <3> QED
        BY <3>2, <1>5, <1>9
  <2>5. ASSUME pol = "prefer_higher_confidence", NEW w \in mine \cup {mark}
        PROVE  /\ w.confidence <= outcome.confidence
               /\ w.confidence = outcome.confidence /\ w.confidence < Certain => outcome.value <= w.value
    <3>1. CASE w = mark
      <4>1. c <= item.confidence
        <5>1. CASE c > item.confidence
          <6>1. chosen = new
              BY <5>1, <2>5, <1>2, <1>9, ChosenIs
          <6>2. item.value = n + 1
              BY <6>1, <1>2, <1>9
          <6> QED
              BY <6>2, <1>5, <1>9
        <5> QED
            BY <5>1, <1>5, <1>9
      <4> QED
          BY <3>1, <4>1, <1>1, <1>3, <1>5, <1>9, <2>1
    <3>2. CASE w \in mine
        BY <3>2, <2>5, <1>9, <2>1 DEF Survives
    <3> QED
        BY <2>5, <3>1, <3>2
  <2>6. 1 <= outcome.value /\ outcome.value <= n + 1 /\ outcome.confidence <= Certain /\ outcome.updated <= t
      BY <2>1, <1>5, <1>9
  <2> QED
      BY <1>3, <1>6, <1>7, <2>1, <2>2, <2>3, <2>4, <2>5, <2>6 DEF Survives
<1> QED
    BY <1>8, <1>9, ChosenIs

(* The clock and the count of writes, under what every step does to them. *)
LEMMA ClockKept ==
    ASSUME writes \in Nat, third \in Nat, third <= MaxTicks,
           Memory!Tick \/ Memory!Write \/ UNCHANGED <<writes, third>>
    PROVE  /\ writes' \in Nat /\ third' \in Nat /\ third' <= MaxTicks
           /\ writes <= writes' /\ third <= third'
<1> USE MemoryAssumption
<1>1. CASE Memory!Tick
    BY <1>1 DEF Memory!Tick
<1>2. CASE Memory!Write
    BY <1>2 DEF Memory!Write
<1>3. CASE UNCHANGED <<writes, third>>
    BY <1>3
<1> QED
    BY <1>1, <1>2, <1>3

LEMMA HubAlone ==
    ASSUME MemoryKept, UNCHANGED <<policy, layers, written>>,
           writes' \in Nat, third' \in Nat, writes <= writes', third <= third'
    PROVE  HubKept'
<1>1. HubKept /\ writes \in Nat /\ third \in Nat
    BY DEF MemoryKept
<1>2. ASSUME NEW l \in Placing, NEW k \in HubKeys
      PROVE  Survives(layers[l][k], written[l][k], policy, writes', third')
  <2>1. layers[l][k] \in Item \cup {none} /\ written[l][k] \in SUBSET Remark
      BY <1>1, <1>2 DEF HubKept
  <2>2. Survives(layers[l][k], written[l][k], policy, writes, third)
      BY <1>1, <1>2 DEF HubKept
  <2> QED
      BY <1>1, <2>1, <2>2, StillSurvives
<1> QED
    BY <1>1, <1>2 DEF HubKept

(* upsert of an item, by writeback *)
LEMMA Upserting ==
    ASSUME MemoryKept, NEW k \in HubKeys, NEW l \in Placing, NEW c \in Confidences,
           Memory!Upsert(k, l, c)
    PROVE  HubKept' /\ Memory!Write
<1> DEFINE item == layers[l][k]
           new == Incoming(c, writes, third)
           outcome == Stored(Chosen(policy, item, new), third)
           mark == Marked(c, writes)
<1>1. HubKept /\ writes \in Nat /\ third \in Nat /\ c \in Nat
    BY MemoryAssumption DEF MemoryKept
<1>2. Memory!Write /\ writes' = writes + 1 /\ third' = third /\ policy' = policy
    BY DEF Memory!Upsert, Memory!Write
<1>3. Memory!Resolve(item, new) = Chosen(policy, item, new)
    BY DEF Memory!Resolve, Chosen
<1>4. layers' = [layers EXCEPT ![l][k] = outcome]
    BY <1>3 DEF Memory!Upsert, Incoming, Stored
<1>5. written' = [written EXCEPT ![l][k] = written[l][k] \cup {mark}]
    BY DEF Memory!Upsert, Marked
<1>6. /\ layers \in [Placing -> [HubKeys -> Item \cup {none}]]
      /\ written \in [Placing -> [HubKeys -> SUBSET Remark]]
      /\ policy \in ConflictPolicies
    BY <1>1 DEF HubKept
<1>7. item \in Item \cup {none} /\ written[l][k] \in SUBSET Remark
    BY <1>6
<1>8. Survives(item, written[l][k], policy, writes, third)
    BY <1>1 DEF HubKept
<1>9. /\ outcome \in Item /\ written[l][k] \cup {mark} \in SUBSET Remark
      /\ Survives(outcome, written[l][k] \cup {mark}, policy, writes + 1, third)
    BY <1>1, <1>6, <1>7, <1>8, UpsertSurvives
<1> HIDE DEF outcome, mark, new, item
<1>10. layers' \in [Placing -> [HubKeys -> Item \cup {none}]]
    BY <1>4, <1>6, <1>9
<1>11. written' \in [Placing -> [HubKeys -> SUBSET Remark]]
    BY <1>5, <1>6, <1>9
<1>12. ASSUME NEW p \in Placing, NEW q \in HubKeys
       PROVE  Survives(layers'[p][q], written'[p][q], policy, writes + 1, third)
  <2>1. CASE p = l /\ q = k
    <3>1. layers'[p][q] = outcome /\ written'[p][q] = written[l][k] \cup {mark}
        BY <2>1, <1>4, <1>5, <1>6
    <3> QED
        BY <3>1, <1>9
  <2>2. CASE ~ (p = l /\ q = k)
    <3>1. layers'[p][q] = layers[p][q] /\ written'[p][q] = written[p][q]
        BY <2>2, <1>4, <1>5, <1>6, <1>12
    <3>2. Survives(layers[p][q], written[p][q], policy, writes, third)
        BY <1>1, <1>12 DEF HubKept
    <3>3. layers[p][q] \in Item \cup {none} /\ written[p][q] \in SUBSET Remark
        BY <1>6, <1>12
    <3>4. writes + 1 \in Nat /\ writes <= writes + 1 /\ third <= third
        BY <1>1
    <3> QED
        BY <1>1, <3>1, <3>2, <3>3, <3>4, StillSurvives
  <2> QED
      BY <2>1, <2>2
<1> QED
    BY <1>2, <1>6, <1>10, <1>11, <1>12 DEF HubKept

LEMMA NothingSurvives ==
    \A pol, n, t : Survives(none, {}, pol, n, t)
    BY DEF Survives

(* A step of the hub. *)
LEMMA HubStep ==
    ASSUME MemoryKept, Memory!Hub
    PROVE  HubKept' /\ (Memory!Tick \/ Memory!Write \/ UNCHANGED <<writes, third>>)
<1>1. HubKept /\ writes \in Nat /\ third \in Nat /\ third <= MaxTicks
    BY DEF MemoryKept
<1>2. /\ layers \in [Placing -> [HubKeys -> Item \cup {none}]]
      /\ written \in [Placing -> [HubKeys -> SUBSET Remark]]
      /\ policy \in ConflictPolicies
    BY <1>1 DEF HubKept
<1>3. ASSUME NEW k \in HubKeys, NEW c \in Confidences, NEW f, Memory!Writeback(k, c, f)
      PROVE  HubKept' /\ Memory!Write
  <2>1. Memory!LayerFor(c, f) \in Placing
      BY LayersAre DEF Memory!LayerFor
  <2> QED
      BY <1>3, <2>1, Upserting DEF Memory!Writeback
<1>4. ASSUME NEW k \in HubKeys, NEW l \in Placing, Memory!Forget(k, l)
      PROVE  HubKept' /\ UNCHANGED <<writes, third>>
  <2>1. /\ layers' = [layers EXCEPT ![l][k] = none] /\ written' = [written EXCEPT ![l][k] = {}]
        /\ UNCHANGED <<policy, writes, third>>
      BY <1>4 DEF Memory!Forget
  <2>2. /\ layers' \in [Placing -> [HubKeys -> Item \cup {none}]]
        /\ written' \in [Placing -> [HubKeys -> SUBSET Remark]]
      BY <1>2, <2>1
  <2>3. ASSUME NEW p \in Placing, NEW q \in HubKeys
        PROVE  Survives(layers'[p][q], written'[p][q], policy, writes, third)
    <3>1. CASE p = l /\ q = k
      <4>1. layers'[p][q] = none /\ written'[p][q] = {}
          BY <3>1, <1>2, <2>1
      <4> QED
          BY <4>1, NothingSurvives
    <3>2. CASE ~ (p = l /\ q = k)
      <4>1. layers'[p][q] = layers[p][q] /\ written'[p][q] = written[p][q]
          BY <3>2, <1>2, <2>1, <2>3
      <4> QED
          BY <4>1, <1>1, <2>3 DEF HubKept
    <3> QED
        BY <3>1, <3>2
  <2> QED
      BY <1>2, <2>1, <2>2, <2>3 DEF HubKept
<1>5. ASSUME Memory!Shutdown
      PROVE  HubKept' /\ UNCHANGED <<writes, third>>
  <2>1. /\ layers' = [l \in Placing |-> [k \in HubKeys |-> none]]
        /\ written' = [l \in Placing |-> [k \in HubKeys |-> {}]]
        /\ UNCHANGED <<policy, writes, third>>
      BY <1>5 DEF Memory!Shutdown, Placing
  <2>2. \A p \in Placing, q \in HubKeys : layers'[p][q] = none /\ written'[p][q] = {}
      BY <2>1
  <2>3. \A p \in Placing, q \in HubKeys :
           Survives(layers'[p][q], written'[p][q], policy, writes, third)
      BY <2>2, NothingSurvives
  <2>4. /\ layers' \in [Placing -> [HubKeys -> Item \cup {none}]]
        /\ written' \in [Placing -> [HubKeys -> SUBSET Remark]]
      BY <2>1
  <2> QED
      BY <1>2, <2>1, <2>3, <2>4 DEF HubKept
<1>6. ASSUME Memory!Tick, UNCHANGED Memory!hubVars
      PROVE  HubKept'
  <2>1. UNCHANGED <<policy, layers, written>>
      BY <1>6 DEF Memory!hubVars
  <2>2. writes' \in Nat /\ third' \in Nat /\ writes <= writes' /\ third <= third'
      BY <1>1, <1>6, ClockKept
  <2> QED
      BY <2>1, <2>2, HubAlone
<1> QED
    BY <1>3, <1>4, <1>5, <1>6 DEF Memory!Hub, Placing

LEMMA KernelAlone ==
    ASSUME MemoryKept, UNCHANGED <<store, expiry>>, writes' \in Nat, writes <= writes'
    PROVE  KernelKept'
<1>1. KernelKept /\ writes \in Nat
    BY DEF MemoryKept
<1>2. ASSUME NEW k \in Remembered, store[k] # none
      PROVE  1 <= store[k] /\ store[k] <= writes'
  <2>1. store[k] \in Nat /\ 1 <= store[k] /\ store[k] <= writes
      BY <1>1, <1>2 DEF KernelKept
  <2> QED
      BY <1>1, <2>1
<1> QED
    BY <1>1, <1>2 DEF KernelKept

(* A step of the kernel's memory adapter or of its context bus. *)
LEMMA KernelStep ==
    ASSUME MemoryKept, Memory!Kernel
    PROVE  KernelKept' /\ (Memory!Tick \/ Memory!Write \/ UNCHANGED <<writes, third>>)
<1> USE MemoryAssumption
<1>1. KernelKept /\ writes \in Nat /\ third \in Nat /\ third <= MaxTicks
    BY DEF MemoryKept
<1>2. /\ store \in [Remembered -> Nat \cup {none}]
      /\ expiry \in [Remembered -> Nat \cup {none}]
    BY <1>1 DEF KernelKept
<1>3. ASSUME NEW k \in Remembered, NEW ttl \in BOOLEAN, Memory!Store(k, ttl)
      PROVE  KernelKept' /\ Memory!Write
  <2>1. /\ Memory!Write /\ writes' = writes + 1
        /\ store' = [store EXCEPT ![k] = writes + 1]
        /\ expiry' = IF ttl THEN [expiry EXCEPT ![k] = third + Lifetime] ELSE expiry
      BY <1>3 DEF Memory!Store, Memory!Write
  <2>2. writes + 1 \in Nat /\ third + Lifetime \in Nat /\ third + Lifetime <= MaxTicks + Lifetime
      BY <1>1
  <2>3. /\ store' \in [Remembered -> Nat \cup {none}]
        /\ expiry' \in [Remembered -> Nat \cup {none}]
      BY <1>2, <2>1, <2>2
  <2>4. ASSUME NEW j \in Remembered
        PROVE  /\ store'[j] # none => 1 <= store'[j] /\ store'[j] <= writes + 1
               /\ expiry'[j] # none => store'[j] # none /\ expiry'[j] <= MaxTicks + Lifetime
    <3>1. CASE j = k
      <4>1. store'[j] = writes + 1 /\ expiry'[j] \in {expiry[j], third + Lifetime}
          BY <3>1, <1>2, <2>1
      <4>2. store'[j] # none
          BY <4>1, <2>2, NumbersNotNone
      <4>3. expiry'[j] # none => expiry'[j] <= MaxTicks + Lifetime
          BY <4>1, <2>2, <1>1 DEF KernelKept
      <4> QED
          BY <4>1, <4>2, <4>3, <1>1
    <3>2. CASE j # k
      <4>1. store'[j] = store[j] /\ expiry'[j] = expiry[j]
          BY <3>2, <1>2, <2>1
      <4>2. store[j] # none => store[j] \in Nat /\ 1 <= store[j] /\ store[j] <= writes
          BY <1>1, <2>4 DEF KernelKept
      <4>3. store[j] # none => 1 <= store[j] /\ store[j] <= writes + 1
          BY <4>2, <1>1
      <4> QED
          BY <4>1, <4>3, <1>1, <2>4 DEF KernelKept
    <3> QED
        BY <3>1, <3>2
  <2> QED
      BY <2>1, <2>3, <2>4 DEF KernelKept
<1>4. ASSUME NEW k \in Remembered, Memory!Retrieve(k) \/ Memory!Delete(k)
      PROVE  KernelKept' /\ UNCHANGED <<writes, third>>
  <2>1. /\ store' = [store EXCEPT ![k] = none] /\ expiry' = [expiry EXCEPT ![k] = none]
        /\ UNCHANGED <<writes, third>>
      BY <1>4 DEF Memory!Retrieve, Memory!Delete, Memory!Dropped
  <2>2. /\ store' \in [Remembered -> Nat \cup {none}]
        /\ expiry' \in [Remembered -> Nat \cup {none}]
      BY <1>2, <2>1
  <2>3. ASSUME NEW j \in Remembered
        PROVE  /\ store'[j] # none => 1 <= store'[j] /\ store'[j] <= writes
               /\ expiry'[j] # none => store'[j] # none /\ expiry'[j] <= MaxTicks + Lifetime
      BY <1>1, <1>2, <2>1 DEF KernelKept
  <2> QED
      BY <2>1, <2>2, <2>3 DEF KernelKept
<1>5. ASSUME NEW k \in Remembered, Memory!Push(k) \/ Memory!Pop(k) \/ Memory!SetTop(k)
      PROVE  KernelKept' /\ (Memory!Write \/ UNCHANGED <<writes, third>>)
  <2>1. UNCHANGED <<store, expiry>> /\ (Memory!Write \/ UNCHANGED <<writes, third>>)
      BY <1>5 DEF Memory!Push, Memory!Pop, Memory!SetTop
  <2> QED
      BY <1>1, <2>1, ClockKept, KernelAlone
<1>6. ASSUME Memory!Tick, UNCHANGED Memory!kernelVars
      PROVE  KernelKept'
  <2>1. UNCHANGED <<store, expiry>>
      BY <1>6 DEF Memory!kernelVars
  <2> QED
      BY <1>1, <1>6, <2>1, ClockKept, KernelAlone
<1> QED
    BY <1>3, <1>4, <1>5, <1>6 DEF Memory!Kernel

LEMMA HeldIs == Memory!Held = HeldBy(pad)
    BY DEF Memory!Held, HeldBy

(* More objects; another pad of the same. *)
LEMMA FitsMore ==
    ASSUME NEW p, NEW n \in Nat, NEW m \in Nat, n <= m, Fits(p, n)
    PROVE  Fits(p, m)
<1>1. \A k \in Remembered : p[k] \in Nat /\ p[k] <= n
    BY DEF Fits
<1>2. \A k \in Remembered : p[k] <= m
    BY <1>1
<1> QED
    BY <1>2 DEF Fits

LEMMA PadAlone ==
    ASSUME MemoryKept, UNCHANGED <<objects, pad, snapshot>>
    PROVE  PadKept'
    BY DEF MemoryKept, PadKept

(* One key less. *)
LEMMA FitsLess ==
    ASSUME NEW p, NEW n \in Nat, NEW k \in Remembered, Fits(p, n)
    PROVE  /\ Fits([p EXCEPT ![k] = 0], n)
           /\ HeldBy([p EXCEPT ![k] = 0]) = HeldBy(p) \ {k}
<1> DEFINE q == [p EXCEPT ![k] = 0]
<1>1. /\ p \in [Remembered -> Nat] /\ \A j \in Remembered : p[j] <= n
      /\ IsFiniteSet(HeldBy(p)) /\ Cardinality(HeldBy(p)) <= PadSize
      /\ \A j, i \in Remembered : p[j] # 0 /\ p[j] = p[i] => j = i
    BY DEF Fits
<1>2. q \in [Remembered -> Nat]
    BY <1>1
<1>3. \A j \in Remembered : q[j] = IF j = k THEN 0 ELSE p[j]
    BY <1>1
<1> HIDE DEF q
<1>4. HeldBy(q) = HeldBy(p) \ {k}
    BY <1>3 DEF HeldBy
<1>5. IsFiniteSet(HeldBy(q)) /\ Cardinality(HeldBy(q)) <= Cardinality(HeldBy(p))
    BY <1>1, <1>4, FS_Subset
<1>6. Cardinality(HeldBy(q)) <= PadSize
    BY <1>1, <1>5, FS_CardinalityType, MemoryAssumption
<1>7. \A j \in Remembered : q[j] <= n
    BY <1>1, <1>3
<1>8. \A j, i \in Remembered : q[j] # 0 /\ q[j] = q[i] => j = i
    BY <1>1, <1>3
<1>9. Fits(q, n)
    BY <1>2, <1>5, <1>6, <1>7, <1>8 DEF Fits
<1> QED
    BY <1>4, <1>9 DEF q

(* A new object at a key, where there is room. *)
LEMMA FitsOneMore ==
    ASSUME NEW p, NEW n \in Nat, NEW k \in Remembered, Fits(p, n),
           Cardinality(HeldBy(p)) < PadSize
    PROVE  Fits([p EXCEPT ![k] = n + 1], n + 1)
<1> DEFINE q == [p EXCEPT ![k] = n + 1]
<1>1. /\ p \in [Remembered -> Nat] /\ \A j \in Remembered : p[j] <= n
      /\ IsFiniteSet(HeldBy(p))
      /\ \A j, i \in Remembered : p[j] # 0 /\ p[j] = p[i] => j = i
    BY DEF Fits
<1>2. q \in [Remembered -> Nat]
    BY <1>1
<1>3. \A j \in Remembered : q[j] = IF j = k THEN n + 1 ELSE p[j]
    BY <1>1
<1> HIDE DEF q
<1>4. HeldBy(q) = HeldBy(p) \cup {k}
    BY <1>3 DEF HeldBy
<1>5. IsFiniteSet(HeldBy(q)) /\ Cardinality(HeldBy(q)) <= Cardinality(HeldBy(p)) + 1
  <2>1. Cardinality(HeldBy(p)) \in Nat
      BY <1>1, FS_CardinalityType
  <2>2. /\ IsFiniteSet(HeldBy(p) \cup {k})
        /\ Cardinality(HeldBy(p) \cup {k}) \in {Cardinality(HeldBy(p)), Cardinality(HeldBy(p)) + 1}
      BY <1>1, FS_AddElement
  <2> QED
      BY <1>4, <2>1, <2>2
<1>6. Cardinality(HeldBy(q)) <= PadSize
    BY <1>1, <1>5, FS_CardinalityType, MemoryAssumption
<1>7. \A j \in Remembered : q[j] <= n + 1
    BY <1>1, <1>3
<1>8. \A j, i \in Remembered : q[j] # 0 /\ q[j] = q[i] => j = i
  <2> SUFFICES ASSUME NEW j \in Remembered, NEW i \in Remembered, q[j] # 0, q[j] = q[i]
               PROVE  j = i
      OBVIOUS
  <2>1. p[j] \in Nat /\ p[j] <= n /\ p[i] \in Nat /\ p[i] <= n
      BY <1>1
  <2> QED
      BY <1>1, <1>3, <2>1
<1>9. Fits(q, n + 1)
    BY <1>2, <1>5, <1>6, <1>7, <1>8 DEF Fits
<1> QED
    BY <1>9 DEF q

(* A step of the scratchpad. *)
LEMMA PadStep ==
    ASSUME MemoryKept, Memory!Pad
    PROVE  PadKept' /\ (Memory!Tick \/ Memory!Write \/ UNCHANGED <<writes, third>>)
<1>1. PadKept /\ writes \in Nat /\ third \in Nat /\ third <= MaxTicks
    BY DEF MemoryKept
<1>2. /\ objects \in Seq([value : Nat, at : Nat]) /\ Len(objects) \in Nat
      /\ Fits(pad, Len(objects)) /\ (snapshot # none => Fits(snapshot, Len(objects)))
    BY <1>1 DEF PadKept
<1>3. ASSUME NEW k \in Remembered, Memory!PadStore(k)
      PROVE  PadKept' /\ Memory!Write
  <2>1. /\ Memory!Write /\ snapshot' = snapshot
        /\ objects' = Append(objects, [value |-> writes + 1, at |-> third])
      BY <1>3 DEF Memory!PadStore
  <2>2. [value |-> writes + 1, at |-> third] \in [value : Nat, at : Nat]
      BY <1>1
  <2>3. objects' \in Seq([value : Nat, at : Nat]) /\ Len(objects') = Len(objects) + 1
      BY <1>2, <2>1, <2>2
  <2>4. IsFiniteSet(HeldBy(pad)) /\ Cardinality(HeldBy(pad)) \in Nat
      BY <1>2, FS_CardinalityType DEF Fits
  <2>5. ASSUME Cardinality(HeldBy(pad)) < PadSize, pad' = [pad EXCEPT ![k] = Len(objects) + 1]
        PROVE  Fits(pad', Len(objects) + 1)
      BY <1>2, <2>5, FitsOneMore
  <2>6. ASSUME NEW o \in HeldBy(pad), pad' = [[pad EXCEPT ![o] = 0] EXCEPT ![k] = Len(objects) + 1]
        PROVE  Fits(pad', Len(objects) + 1)
    <3> DEFINE p == [pad EXCEPT ![o] = 0]
    <3>1. o \in Remembered
        BY <2>6 DEF HeldBy
    <3>2. Fits(p, Len(objects)) /\ HeldBy(p) = HeldBy(pad) \ {o}
        BY <1>2, <3>1, FitsLess
    <3>3. Cardinality(HeldBy(p)) = Cardinality(HeldBy(pad)) - 1
        BY <2>4, <2>6, <3>2, FS_RemoveElement
    <3>4. Cardinality(HeldBy(pad)) <= PadSize
        BY <1>2 DEF Fits
    <3>5. Cardinality(HeldBy(p)) < PadSize
        BY <2>4, <3>3, <3>4, MemoryAssumption
    <3>6. pad' = [p EXCEPT ![k] = Len(objects) + 1]
        BY <2>6
    <3> HIDE DEF p
    <3> QED
        BY <1>2, <3>2, <3>5, <3>6, FitsOneMore
  <2>7. Fits(pad', Len(objects) + 1)
    <3>1. \/ Cardinality(HeldBy(pad)) < PadSize /\ pad' = [pad EXCEPT ![k] = Len(objects) + 1]
          \/ \E o \in HeldBy(pad) : pad' = [[pad EXCEPT ![o] = 0] EXCEPT ![k] = Len(objects) + 1]
        BY <1>3, HeldIs, MemoryCardinality DEF Memory!PadStore, Memory!Place, Memory!Oldest
    <3> QED
        BY <3>1, <2>5, <2>6
  <2>8. snapshot' # none => Fits(snapshot', Len(objects) + 1)
      BY <1>2, <2>1, FitsMore
  <2> QED
      BY <2>1, <2>3, <2>7, <2>8 DEF PadKept
<1>4. ASSUME NEW k \in Remembered, Memory!PadUpdate(k)
      PROVE  PadKept' /\ Memory!Write
  <2>1. /\ Memory!Write /\ UNCHANGED <<pad, snapshot>> /\ k \in HeldBy(pad)
        /\ objects' = [objects EXCEPT ![pad[k]].value = writes + 1, ![pad[k]].at = third]
      BY <1>4, HeldIs DEF Memory!PadUpdate
  <2>2. pad[k] \in 1 .. Len(objects)
      BY <1>2, <2>1 DEF HeldBy, Fits
  <2> DEFINE Entry == [value : Nat, at : Nat]
  <2>3. objects[pad[k]] \in Entry
    <3>1. objects \in Seq(Entry)
        BY <1>2
    <3> HIDE DEF Entry
    <3> QED
        BY <3>1, <2>2
  <2>4. objects' \in Seq([value : Nat, at : Nat]) /\ Len(objects') = Len(objects)
      BY <1>1, <1>2, <2>1, <2>2, <2>3
  <2> QED
      BY <1>2, <2>1, <2>4 DEF PadKept
<1>5. ASSUME NEW k \in Remembered, Memory!PadDrop(k)
      PROVE  PadKept' /\ UNCHANGED <<writes, third>>
  <2>1. pad' = [pad EXCEPT ![k] = 0] /\ UNCHANGED <<objects, snapshot, writes, third>>
      BY <1>5 DEF Memory!PadDrop
  <2>2. Fits(pad', Len(objects))
      BY <1>2, <2>1, FitsLess
  <2> QED
      BY <1>2, <2>1, <2>2 DEF PadKept
<1>6. ASSUME Memory!PadSnapshot \/ Memory!PadRestore
      PROVE  PadKept' /\ UNCHANGED <<writes, third>>
    BY <1>2, <1>6 DEF Memory!PadSnapshot, Memory!PadRestore, PadKept
<1>7. ASSUME Memory!Tick, UNCHANGED Memory!padVars
      PROVE  PadKept'
    BY <1>7, PadAlone DEF Memory!padVars
<1> QED
    BY <1>3, <1>4, <1>5, <1>6, <1>7 DEF Memory!Pad

LEMMA DebtItems ==
    ASSUME NEW items \in Seq(Debt)
    PROVE  /\ Len(items) \in Nat /\ DOMAIN items = 1 .. Len(items)
           /\ \A i \in 1 .. Len(items) : items[i] \in Debt /\ items[i].trace \in Nat
<1>1. /\ Len(items) \in Nat /\ DOMAIN items = 1 .. Len(items)
      /\ \A i \in 1 .. Len(items) : items[i] \in Debt
    OBVIOUS
<1>2. \A x \in Debt : x.trace \in Nat
    BY DEF Debt
<1> QED
    BY <1>1, <1>2

(* add puts an item at the end and drops the first of a full ledger. *)
Follows(l, items, x, d) ==
    /\ l \in Seq(Debt)
    /\ d \in {0, 1} /\ (d = 0 => Len(items) < DebtSize) /\ (d = 1 => Len(items) = DebtSize)
    /\ Len(l) = Len(items) + 1 - d
    /\ \A i \in 1 .. Len(l) : /\ i + d <= Len(items) => l[i] = items[i + d]
                              /\ i + d > Len(items) => l[i] = x

LEMMA LedgerIs ==
    ASSUME NEW items \in Seq(Debt), Len(items) <= DebtSize, NEW x \in Debt
    PROVE  \E d \in {0, 1} : Follows(Memory!Ledger(Append(items, x)), items, x, d)
<1> DEFINE a == Append(items, x)
           n == Len(items)
<1>1. n \in Nat /\ DebtSize \in Nat
    BY MemoryAssumption
<1>2. a \in Seq(Debt) /\ Len(a) = n + 1 /\ (\A i \in 1 .. n : a[i] = items[i]) /\ a[n + 1] = x
    BY <1>1
<1> HIDE DEF a
<1>3. CASE n < DebtSize
  <2>1. Memory!Ledger(a) = SubSeq(a, 1, n + 1)
    <3>1. Len(a) <= DebtSize
        BY <1>1, <1>2, <1>3
    <3> QED
        BY <3>1, <1>2 DEF Memory!Ledger
  <2>2. Len(SubSeq(a, 1, n + 1)) = n + 1 /\ \A i \in 1 .. n + 1 : SubSeq(a, 1, n + 1)[i] = a[i]
      BY <1>1, <1>2
  <2>3. SubSeq(a, 1, n + 1) \in Seq(Debt)
      BY <1>1, <1>2
  <2>4. Follows(SubSeq(a, 1, n + 1), items, x, 0)
      BY <1>1, <1>2, <1>3, <2>2, <2>3 DEF Follows
  <2> QED
      BY <2>1, <2>4 DEF a
<1>4. CASE n = DebtSize
  <2>1. Memory!Ledger(a) = SubSeq(a, 2, n + 1)
    <3>1. ~ (Len(a) <= DebtSize) /\ Len(a) - DebtSize + 1 = 2
        BY <1>1, <1>2, <1>4
    <3> QED
        BY <3>1, <1>2 DEF Memory!Ledger
  <2>2. Len(SubSeq(a, 2, n + 1)) = n /\ \A i \in 1 .. n : SubSeq(a, 2, n + 1)[i] = a[i + 1]
      BY <1>1, <1>2
  <2>3. SubSeq(a, 2, n + 1) \in Seq(Debt)
      BY <1>1, <1>2
  <2>4. Follows(SubSeq(a, 2, n + 1), items, x, 1)
      BY <1>1, <1>2, <1>4, <2>2, <2>3 DEF Follows
  <2> QED
      BY <2>1, <2>4 DEF a
<1> QED
    BY <1>1, <1>3, <1>4

(* An item of the latest trace takes nothing away that is not older than   *)
(* what is left.                                                           *)
LEMMA AddedOrder ==
    ASSUME NEW items, NEW l, NEW x \in Debt, NEW d \in {0, 1}, NEW n \in Nat, 1 <= n,
           InOrderUpTo(items, n), Follows(l, items, x, d), x.trace = n
    PROVE  InOrderUpTo(l, n)
<1>1. /\ items \in Seq(Debt) /\ Len(items) <= DebtSize /\ Len(items) \in Nat /\ DebtSize \in Nat
      /\ \A i \in 1 .. Len(items) : /\ items[i].trace \in Nat
                                    /\ 1 <= items[i].trace /\ items[i].trace <= n
      /\ \A i, j \in 1 .. Len(items) : i <= j => items[i].trace <= items[j].trace
    BY DebtItems, MemoryAssumption DEF InOrderUpTo
<1>2. l \in Seq(Debt) /\ DOMAIN l = 1 .. Len(l) /\ Len(l) = Len(items) + 1 - d /\ Len(l) \in Nat
    BY DEF Follows
<1>3. Len(l) <= DebtSize
    BY <1>1, <1>2 DEF Follows
<1>4. ASSUME NEW i \in 1 .. Len(l)
      PROVE  /\ i + d <= Len(items) => i + d \in 1 .. Len(items) /\ l[i].trace = items[i + d].trace
             /\ i + d > Len(items) => l[i].trace = n
  <2>1. i \in Nat /\ 1 <= i /\ i + d \in Nat /\ 1 <= i + d
      BY <1>2
  <2>2. /\ i + d <= Len(items) => l[i] = items[i + d]
        /\ i + d > Len(items) => l[i] = x
      BY DEF Follows
  <2> QED
      BY <2>1, <2>2, <1>1
<1>5. ASSUME NEW i \in 1 .. Len(l) PROVE 1 <= l[i].trace /\ l[i].trace <= n
  <2>1. CASE i + d <= Len(items)
      BY <1>1, <1>4, <2>1
  <2>2. CASE i + d > Len(items)
      BY <1>4, <2>2
  <2> QED
      BY <2>1, <2>2, <1>1, <1>2
<1>6. ASSUME NEW i \in 1 .. Len(l), NEW j \in 1 .. Len(l), i <= j
      PROVE  l[i].trace <= l[j].trace
  <2>1. CASE j + d <= Len(items)
    <3>1. i + d <= Len(items) /\ i + d <= j + d
        BY <1>1, <1>2, <1>6, <2>1
    <3> QED
        BY <1>1, <1>4, <2>1, <3>1
  <2>2. CASE j + d > Len(items)
      BY <1>4, <1>5, <2>2
  <2> QED
      BY <2>1, <2>2, <1>1, <1>2
<1> QED
    BY <1>2, <1>3, <1>5, <1>6 DEF InOrderUpTo

LEMMA AddedRecognised ==
    ASSUME NEW items, NEW l, NEW x \in Debt, NEW d \in {0, 1}, NEW n \in Nat, 1 <= n,
           InOrderUpTo(items, n), Follows(l, items, x, d), x.trace = n,
           NEW s, x.type = "failure_pattern" => s[n].known,
           NEW k \in Nat, k <= n, Recognised(items, s, k)
    PROVE  Recognised(l, s, k)
<1>1. /\ Len(items) <= DebtSize /\ Len(items) \in Nat /\ DebtSize \in Nat
      /\ DOMAIN items = 1 .. Len(items)
      /\ \A i \in 1 .. Len(items) : items[i].trace \in Nat
      /\ \A i, j \in 1 .. Len(items) : i <= j => items[i].trace <= items[j].trace
    BY DebtItems, MemoryAssumption DEF InOrderUpTo
<1>2. DOMAIN l = 1 .. Len(l) /\ Len(l) = Len(items) + 1 - d /\ Len(l) \in Nat
    BY DEF Follows
<1>3. ASSUME NEW i \in 1 .. Len(l)
      PROVE  \/ i + d \in 1 .. Len(items) /\ l[i] = items[i + d]
             \/ l[i] = x
  <2>1. i \in Nat /\ 1 <= i /\ i + d \in Nat /\ 1 <= i + d
      BY <1>2
  <2>2. /\ i + d <= Len(items) => l[i] = items[i + d]
        /\ i + d > Len(items) => l[i] = x
      BY DEF Follows
  <2> QED
      BY <2>1, <2>2, <1>1
<1>4. (\E i \in DOMAIN l : l[i].type = "failure_pattern" /\ l[i].trace = k) => s[k].known
    BY <1>1, <1>2, <1>3 DEF Recognised
<1>5. ASSUME d = 1, \A i \in 2 .. Len(items) : k <= items[i].trace
      PROVE  Len(l) = DebtSize /\ \A i \in DOMAIN l : k <= l[i].trace
  <2>1. Len(l) = DebtSize
      BY <1>1, <1>2, <1>5 DEF Follows
  <2>2. ASSUME NEW i \in 1 .. Len(l) PROVE k <= l[i].trace
    <3>1. CASE l[i] = x
        BY <3>1
    <3>2. CASE i + d \in 1 .. Len(items) /\ l[i] = items[i + d]
      <4>1. i + d \in 2 .. Len(items)
          BY <1>5, <3>2
      <4> QED
          BY <4>1, <3>2, <1>5
    <3> QED
        BY <3>1, <3>2, <1>3
  <2> QED
      BY <1>2, <2>1, <2>2
<1>6. ASSUME NEW i \in 1 .. Len(items), items[i].type = "failure_pattern", items[i].trace = k
      PROVE  \/ \E j \in DOMAIN l : l[j].type = "failure_pattern" /\ l[j].trace = k
             \/ Len(l) = DebtSize /\ \A j \in DOMAIN l : k <= l[j].trace
  <2>1. CASE i > d
    <3>1. i - d \in 1 .. Len(l) /\ (i - d) + d = i /\ i <= Len(items)
        BY <1>1, <1>2, <2>1
    <3>2. l[i - d] = items[i]
        BY <3>1 DEF Follows
    <3> QED
        BY <1>2, <1>6, <3>1, <3>2
  <2>2. CASE i <= d
    <3>1. d = 1 /\ i = 1
        BY <2>2
    <3>2. \A j \in 2 .. Len(items) : k <= items[j].trace
        BY <1>1, <1>6, <3>1
    <3> QED
        BY <1>5, <3>1, <3>2
  <2> QED
      BY <2>1, <2>2
<1>7. ASSUME Len(items) = DebtSize, \A i \in DOMAIN items : k <= items[i].trace
      PROVE  Len(l) = DebtSize /\ \A i \in DOMAIN l : k <= l[i].trace
  <2>1. d = 1
      BY <1>1, <1>7 DEF Follows
  <2>2. \A i \in 2 .. Len(items) : k <= items[i].trace
      BY <1>1, <1>7
  <2> QED
      BY <1>5, <2>1, <2>2
<1> QED
    BY <1>1, <1>4, <1>6, <1>7 DEF Recognised

LEMMA NewRecognised ==
    ASSUME NEW items, NEW l, NEW x \in Debt, NEW d \in {0, 1}, NEW n \in Nat,
           Len(items) \in Nat, Follows(l, items, x, d),
           NEW s, x.type = "failure_pattern", x.trace = n, s[n].known
    PROVE  Recognised(l, s, n)
<1>1. DOMAIN l = 1 .. Len(l) /\ Len(l) = Len(items) + 1 - d /\ Len(l) \in Nat
    BY DEF Follows
<1>2. CASE Len(l) = 0
  <2>1. d = 1 /\ Len(items) = 0
      BY <1>1, <1>2
  <2>2. DebtSize = 0 /\ DOMAIN l = {}
      BY <1>1, <1>2, <2>1 DEF Follows
  <2> QED
      BY <1>2, <2>2 DEF Recognised
<1>3. CASE Len(l) # 0
  <2>1. Len(l) \in 1 .. Len(l) /\ Len(l) + d > Len(items)
      BY <1>1, <1>3
  <2>2. l[Len(l)] = x
      BY <2>1 DEF Follows
  <2> QED
      BY <1>1, <2>1, <2>2 DEF Recognised
<1> QED
    BY <1>2, <1>3

LEMMA LedgerAlone ==
    ASSUME MemoryKept, UNCHANGED <<known, debt, observed>>
    PROVE  LedgerKept'
    BY DEF MemoryKept, LedgerKept

(* observe *)
LEMMA ObserveKeeps ==
    ASSUME LedgerKept, NEW m \in Reports \cup {none}, NEW confident \in BOOLEAN, Memory!Observe(m, confident)
    PROVE  LedgerKept'
<1> DEFINE n == Len(observed) + 1
           s == observed'
           fresh == [type |-> "failure_pattern", trace |-> n]
           doubt == [type |-> "low_confidence", trace |-> n]
           matched == IF Memory!Matches(m) # {} THEN Memory!Added(debt, "failure_pattern", n) ELSE debt
<1>1. /\ known \subseteq {HeadOf[r] : r \in Reports} /\ observed \in Seq(Seen)
      /\ InOrderUpTo(debt, Len(observed)) /\ \A k \in DOMAIN observed : Recognised(debt, observed, k)
      /\ debt \in Seq(Debt) /\ Len(debt) <= DebtSize
    BY DEF LedgerKept, InOrderUpTo
<1>2. /\ observed' = Append(observed, [message |-> m, known |-> m # none /\ HeadsIn[m] \cap known # {}])
      /\ debt' = IF confident THEN matched ELSE Memory!Added(matched, "low_confidence", n)
      /\ known' = known
    BY DEF Memory!Observe
<1>3. [message |-> m, known |-> m # none /\ HeadsIn[m] \cap known # {}] \in Seen
    BY DEF Seen, Flag
<1>4. Len(observed) \in Nat /\ n \in Nat /\ 1 <= n /\ Len(observed) <= n
    BY <1>1
<1>5. /\ s \in Seq(Seen) /\ Len(s) = n
      /\ \A k \in 1 .. Len(observed) : s[k] = observed[k]
      /\ s[n] = [message |-> m, known |-> m # none /\ HeadsIn[m] \cap known # {}]
    BY <1>1, <1>2, <1>3
<1>6. fresh \in Debt /\ fresh.type = "failure_pattern" /\ fresh.trace = n
    BY <1>4 DEF Debt
<1>7. doubt \in Debt /\ doubt.type = "low_confidence" /\ doubt.trace = n
    BY <1>4 DEF Debt
<1>8. s[n].known <=> Memory!Matches(m) # {}
  <2>1. s[n].known = (m # none /\ HeadsIn[m] \cap known # {})
      BY <1>5
  <2>2. (m # none /\ HeadsIn[m] \cap known # {}) <=> Memory!Matches(m) # {}
      BY DEF Memory!Matches
  <2> QED
      BY <2>1, <2>2
<1>9. InOrderUpTo(debt, n)
  <2>1. \A i \in DOMAIN debt : debt[i].trace \in Nat /\ debt[i].trace <= Len(observed)
      BY <1>1, DebtItems DEF InOrderUpTo
  <2>2. \A i \in DOMAIN debt : debt[i].trace <= n
      BY <1>4, <2>1
  <2> QED
      BY <1>1, <2>2 DEF InOrderUpTo
<1>10. \A k \in 1 .. Len(observed) : Recognised(debt, s, k)
  <2>1. DOMAIN observed = 1 .. Len(observed)
      BY <1>1
  <2> QED
      BY <1>1, <1>5, <2>1 DEF Recognised
<1>11. Memory!Added(debt, "failure_pattern", n) = Memory!Ledger(Append(debt, fresh))
    BY DEF Memory!Added
<1>12. Memory!Added(matched, "low_confidence", n) = Memory!Ledger(Append(matched, doubt))
    BY DEF Memory!Added
<1> HIDE DEF n, s, fresh, doubt
<1>13. InOrderUpTo(matched, n) /\ \A k \in 1 .. n : Recognised(matched, s, k)
  <2>1. CASE Memory!Matches(m) # {}
    <3>1. matched = Memory!Ledger(Append(debt, fresh))
        BY <1>11, <2>1
    <3> HIDE DEF matched
    <3>2. PICK d \in {0, 1} : Follows(matched, debt, fresh, d)
        BY <1>1, <1>6, <3>1, LedgerIs
    <3>3. InOrderUpTo(matched, n)
        BY <1>4, <1>6, <1>9, <3>2, AddedOrder
    <3>4. ASSUME NEW k \in 1 .. n PROVE Recognised(matched, s, k)
      <4>1. CASE k = n
        <5>1. Len(debt) \in Nat /\ s[n].known
            BY <1>1, <1>8, <2>1
        <5> QED
            BY <4>1, <5>1, <1>4, <1>6, <3>2, NewRecognised
      <4>2. CASE k # n
        <5>1. k \in 1 .. Len(observed) /\ k \in Nat /\ k <= n
            BY <4>2, <1>4 DEF n
        <5>2. Recognised(debt, s, k) /\ s[n].known
            BY <5>1, <1>10, <1>8, <2>1
        <5> QED
            BY <5>1, <5>2, <1>4, <1>6, <1>9, <3>2, AddedRecognised
      <4> QED
          BY <4>1, <4>2
    <3> QED
        BY <3>3, <3>4
  <2>2. CASE Memory!Matches(m) = {}
    <3>1. matched = debt
        BY <2>2
    <3>2. ASSUME NEW k \in 1 .. n PROVE Recognised(debt, s, k)
      <4>1. CASE k = n
        <5>1. ~ s[n].known
            BY <1>8, <2>2
        <5>2. \A i \in DOMAIN debt : debt[i].trace # n
          <6>1. \A i \in DOMAIN debt : debt[i].trace \in Nat /\ debt[i].trace <= Len(observed)
              BY <1>1, DebtItems DEF InOrderUpTo
          <6> QED
              BY <6>1, <1>4 DEF n
        <5> QED
            BY <4>1, <5>1, <5>2 DEF Recognised
      <4>2. CASE k # n
        <5>1. k \in 1 .. Len(observed)
            BY <4>2, <1>4 DEF n
        <5> QED
            BY <5>1, <1>10
      <4> QED
          BY <4>1, <4>2
    <3> QED
        BY <3>1, <3>2, <1>9
  <2> QED
      BY <2>1, <2>2
<1> HIDE DEF matched
<1>14. InOrderUpTo(debt', n) /\ \A k \in 1 .. n : Recognised(debt', s, k)
  <2>1. CASE confident
      BY <2>1, <1>2, <1>13
  <2>2. CASE ~ confident
    <3>1. debt' = Memory!Ledger(Append(matched, doubt)) /\ matched \in Seq(Debt) /\ Len(matched) <= DebtSize
        BY <2>2, <1>2, <1>12, <1>13 DEF InOrderUpTo
    <3>2. PICK d \in {0, 1} : Follows(debt', matched, doubt, d)
        BY <1>7, <3>1, LedgerIs
    <3>3. InOrderUpTo(debt', n)
        BY <1>4, <1>7, <1>13, <3>2, AddedOrder
    <3>4. ASSUME NEW k \in 1 .. n PROVE Recognised(debt', s, k)
      <4>1. k \in Nat /\ k <= n /\ Recognised(matched, s, k)
          BY <1>4, <1>13
      <4>2. doubt.type # "failure_pattern"
          BY <1>7
      <4> QED
          BY <4>1, <4>2, <1>4, <1>7, <1>13, <3>2, AddedRecognised
    <3> QED
        BY <3>3, <3>4
  <2> QED
      BY <2>1, <2>2
<1>15. DOMAIN s = 1 .. n /\ Len(s) = n
    BY <1>5
<1> QED
    BY <1>1, <1>2, <1>5, <1>14, <1>15 DEF LedgerKept, s

(* A step of the metacognition loop. *)
LEMMA ReflectStep ==
    ASSUME MemoryKept, Memory!Reflect
    PROVE  LedgerKept' /\ UNCHANGED <<writes, third>>
<1>1. LedgerKept
    BY DEF MemoryKept
<1>2. ASSUME NEW n \in DOMAIN observed, Memory!ApplyUpdate(n)
      PROVE  LedgerKept' /\ UNCHANGED <<writes, third>>
  <2>1. /\ observed[n].message # none /\ UNCHANGED <<debt, observed, writes, third>>
        /\ known' = known \cup {HeadOf[observed[n].message]}
      BY <1>2 DEF Memory!ApplyUpdate
  <2>2. observed[n] \in Seen
      BY <1>1 DEF LedgerKept
  <2>3. observed[n].message \in Reports
      BY <2>1, <2>2 DEF Seen
  <2> QED
      BY <1>1, <2>1, <2>3 DEF LedgerKept
<1>3. ASSUME NEW m \in Reports \cup {none}, NEW c \in BOOLEAN, Memory!Observe(m, c)
      PROVE  LedgerKept' /\ UNCHANGED <<writes, third>>
    BY <1>1, <1>3, ObserveKeeps DEF Memory!Observe
<1> QED
    BY <1>2, <1>3 DEF Memory!Reflect

LEMMA MemoryInit == Init => MemoryInv
<1> SUFFICES ASSUME Memory!Init PROVE MemoryKept
    BY DEF Init, MemoryInv
<1> USE MemoryAssumption
<1>1. writes = 0 /\ third = 0 /\ writes \in Nat /\ third \in Nat /\ third <= MaxTicks
    BY DEF Memory!Init
<1>2. HubKept
  <2>1. /\ policy \in ConflictPolicies
        /\ layers = [l \in Placing |-> [k \in HubKeys |-> none]]
        /\ written = [l \in Placing |-> [k \in HubKeys |-> {}]]
      BY DEF Memory!Init, ConflictPolicies, Placing
  <2>2. \A l \in Placing, k \in HubKeys : layers[l][k] = none /\ written[l][k] = {}
      BY <2>1
  <2>3. \A l \in Placing, k \in HubKeys : Survives(layers[l][k], written[l][k], policy, writes, third)
    <3> SUFFICES ASSUME NEW l \in Placing, NEW k \in HubKeys
                 PROVE  Survives(layers[l][k], written[l][k], policy, writes, third)
        OBVIOUS
    <3>1. layers[l][k] = none /\ written[l][k] = {}
        BY <2>2
    <3> QED
        BY <3>1, Zenon, NothingSurvives
  <2>4. /\ layers \in [Placing -> [HubKeys -> Item \cup {none}]]
        /\ written \in [Placing -> [HubKeys -> SUBSET Remark]]
      BY <2>1
  <2> QED
      BY <2>1, <2>3, <2>4 DEF HubKept
<1>3. KernelKept
    BY DEF Memory!Init, KernelKept
<1>4. PadKept
  <2>1. objects = <<>> /\ pad = [k \in Remembered |-> 0] /\ snapshot = none
      BY DEF Memory!Init
  <2>2. HeldBy(pad) = {}
      BY <2>1 DEF HeldBy
  <2>3. IsFiniteSet(HeldBy(pad)) /\ Cardinality(HeldBy(pad)) <= PadSize
      BY <2>2, FS_EmptySet
  <2>4. objects \in Seq([value : Nat, at : Nat]) /\ Len(objects) = 0
      BY <2>1
  <2>5. Fits(pad, Len(objects))
      BY <2>1, <2>3, <2>4 DEF Fits
  <2> QED
      BY <2>1, <2>4, <2>5 DEF PadKept
<1>5. LedgerKept
  <2>1. known = {} /\ debt = <<>> /\ observed = <<>>
      BY DEF Memory!Init
  <2>2. observed \in Seq(Seen) /\ DOMAIN observed = {}
      BY <2>1
  <2>3. debt \in Seq(Debt) /\ DOMAIN debt = {} /\ Len(debt) <= DebtSize
      BY <2>1
  <2>4. InOrderUpTo(debt, Len(observed))
      BY <2>3 DEF InOrderUpTo
  <2> QED
      BY <2>1, <2>2, <2>4 DEF LedgerKept
<1> QED
    BY <1>1, <1>2, <1>3, <1>4, <1>5 DEF MemoryKept

LEMMA MemoryStep ==
    ASSUME MemoryKept, Memory!Hub \/ Memory!Kernel \/ Memory!Pad \/ Memory!Reflect
    PROVE  MemoryKept'
<1>1. writes \in Nat /\ third \in Nat /\ third <= MaxTicks
    BY DEF MemoryKept
<1>2. CASE Memory!Hub
  <2>1. UNCHANGED <<store, expiry>> /\ UNCHANGED <<objects, pad, snapshot>>
        /\ UNCHANGED <<known, debt, observed>>
      BY <1>2 DEF Memory!Hub, Memory!kernelVars, Memory!padVars, Memory!debtVars
  <2>2. /\ HubKept' /\ writes' \in Nat /\ third' \in Nat /\ third' <= MaxTicks
        /\ writes <= writes'
      BY <1>1, <1>2, HubStep, ClockKept
  <2>3. KernelKept' /\ PadKept' /\ LedgerKept'
      BY <2>1, <2>2, KernelAlone, PadAlone, LedgerAlone
  <2> QED
      BY <2>2, <2>3 DEF MemoryKept
<1>3. CASE Memory!Kernel
  <2>1. UNCHANGED <<policy, layers, written>> /\ UNCHANGED <<objects, pad, snapshot>>
        /\ UNCHANGED <<known, debt, observed>>
      BY <1>3 DEF Memory!Kernel, Memory!hubVars, Memory!padVars, Memory!debtVars
  <2>2. /\ KernelKept' /\ writes' \in Nat /\ third' \in Nat /\ third' <= MaxTicks
        /\ writes <= writes' /\ third <= third'
      BY <1>1, <1>3, KernelStep, ClockKept
  <2>3. HubKept' /\ PadKept' /\ LedgerKept'
      BY <2>1, <2>2, HubAlone, PadAlone, LedgerAlone
  <2> QED
      BY <2>2, <2>3 DEF MemoryKept
<1>4. CASE Memory!Pad
  <2>1. UNCHANGED <<policy, layers, written>> /\ UNCHANGED <<store, expiry>>
        /\ UNCHANGED <<known, debt, observed>>
      BY <1>4 DEF Memory!Pad, Memory!hubVars, Memory!kernelVars, Memory!debtVars
  <2>2. /\ PadKept' /\ writes' \in Nat /\ third' \in Nat /\ third' <= MaxTicks
        /\ writes <= writes' /\ third <= third'
      BY <1>1, <1>4, PadStep, ClockKept
  <2>3. HubKept' /\ KernelKept' /\ LedgerKept'
      BY <2>1, <2>2, HubAlone, KernelAlone, LedgerAlone
  <2> QED
      BY <2>2, <2>3 DEF MemoryKept
<1>5. CASE Memory!Reflect
  <2>1. UNCHANGED <<policy, layers, written>> /\ UNCHANGED <<store, expiry>>
        /\ UNCHANGED <<objects, pad, snapshot>>
      BY <1>5 DEF Memory!Reflect, Memory!hubVars, Memory!kernelVars, Memory!padVars
  <2>2. LedgerKept' /\ UNCHANGED <<writes, third>>
      BY <1>5, ReflectStep
  <2>3. /\ writes' \in Nat /\ third' \in Nat /\ third' <= MaxTicks
        /\ writes <= writes' /\ third <= third'
      BY <1>1, <2>2
  <2>4. HubKept' /\ KernelKept' /\ PadKept'
      BY <2>1, <2>3, HubAlone, KernelAlone, PadAlone
  <2> QED
      BY <2>2, <2>3, <2>4 DEF MemoryKept
<1> QED
    BY <1>2, <1>3, <1>4, <1>5

LEMMA MemoryInvariance == MemoryInv /\ [Next]_vars => MemoryInv'
<1> SUFFICES ASSUME MemoryKept, [Next]_vars, part \in {"hub", "kernel", "pad", "reflect"}
             PROVE  MemoryKept'
    BY DEF MemoryInv, Next, vars
<1>1. CASE Next
  <2>1. Memory!Hub \/ Memory!Kernel \/ Memory!Pad \/ Memory!Reflect
      BY <1>1 DEF Next, Work, Judge, Explain, Resume, Keep
  <2> QED
      BY <2>1, MemoryStep
<1>2. CASE UNCHANGED vars
  <2>1. /\ UNCHANGED <<policy, layers, written>> /\ UNCHANGED <<store, expiry>>
        /\ UNCHANGED <<objects, pad, snapshot>> /\ UNCHANGED <<known, debt, observed>>
        /\ UNCHANGED <<writes, third>>
      BY <1>2 DEF vars, keptVars, memoryVars
  <2>2. /\ writes' \in Nat /\ third' \in Nat /\ third' <= MaxTicks
        /\ writes <= writes' /\ third <= third'
      BY <2>1 DEF MemoryKept
  <2>3. HubKept' /\ KernelKept' /\ PadKept' /\ LedgerKept'
      BY <2>1, <2>2, HubAlone, KernelAlone, PadAlone, LedgerAlone
  <2> QED
      BY <2>2, <2>3 DEF MemoryKept
<1> QED
    BY <1>1, <1>2

(* Whatever is written, forgotten, expires or is restored, for any keys,   *)
(* confidences, policy and sizes: a layer keeps the survivor its policy    *)
(* asks for (ConflictResolver, LayeredMemoryHub.upsert); a time to live    *)
(* has its key (MemoryAdapter); the scratchpad stays within max_entries,   *)
(* restored or not; and an error that was learnt is recognised until newer *)
(* items fill the ledger (SimpleMetacognitionLoop).                        *)
THEOREM MemoriesAreKept == Spec => []MemorySound
<1>1. MemoryInv => MemorySound
  <2> SUFFICES ASSUME MemoryKept
               PROVE  /\ Memory!TypeOK /\ Memory!SurvivorKept /\ Memory!TimesHaveKeys
                      /\ Memory!PadBounded /\ Memory!LearntIsRecognised
      BY DEF MemoryInv, MemorySound
  <2>1. writes \in Nat /\ HubKept /\ KernelKept /\ PadKept /\ LedgerKept
      BY DEF MemoryKept
  <2>2. /\ layers \in [Placing -> [HubKeys -> Item \cup {none}]]
        /\ written \in [Placing -> [HubKeys -> SUBSET Remark]]
        /\ \A l \in Placing, k \in HubKeys : Survives(layers[l][k], written[l][k], policy, writes, third)
      BY <2>1 DEF HubKept
  <2>3. /\ store \in [Remembered -> Nat \cup {none}]
        /\ expiry \in [Remembered -> Nat \cup {none}]
        /\ \A k \in Remembered :
              /\ store[k] # none => 1 <= store[k] /\ store[k] <= writes
              /\ expiry[k] # none => store[k] # none /\ expiry[k] <= MaxTicks + Lifetime
      BY <2>1 DEF KernelKept
  <2>4. Len(objects) \in Nat /\ Fits(pad, Len(objects))
      BY <2>1 DEF PadKept
  <2>5. Memory!TypeOK
    <3>1. ASSUME NEW l \in Placing, NEW k \in HubKeys, layers[l][k] # none
          PROVE  layers[l][k].value \in 1 .. writes
      <4>1. layers[l][k] \in Item
          BY <2>2, <3>1
      <4>2. layers[l][k].value \in Nat
          BY <4>1 DEF Item
      <4>3. 1 <= layers[l][k].value /\ layers[l][k].value <= writes
          BY <2>2, <3>1 DEF Survives
      <4> QED
          BY <2>1, <4>2, <4>3
    <3>2. ASSUME NEW k \in Remembered
          PROVE  store[k] \in 1 .. writes \cup {none} /\ expiry[k] \in 0 .. MaxTicks + Lifetime \cup {none}
      <4>1. /\ store[k] # none => store[k] \in 1 .. writes
            /\ expiry[k] # none => expiry[k] \in 0 .. MaxTicks + Lifetime
          BY <2>1, <2>3, MemoryAssumption
      <4> QED
          BY <4>1
    <3>3. pad \in [Remembered -> 0 .. Len(objects)]
        BY <2>4 DEF Fits
    <3>4. known \subseteq {HeadOf[m] : m \in Reports}
        BY <2>1 DEF LedgerKept
    <3> QED
        BY <3>1, <3>2, <3>3, <3>4 DEF Memory!TypeOK, Placing
  <2>6. Memory!SurvivorKept
    <3>1. ASSUME NEW l \in Placing, NEW k \in HubKeys, layers[l][k] # none
          PROVE  /\ \E w \in written[l][k] : /\ w.value = layers[l][k].value
                                             /\ w.confidence = layers[l][k].confidence
                 /\ policy = "prefer_existing" =>
                       \A w \in written[l][k] : layers[l][k].value <= w.value
                 /\ policy = "prefer_newer" =>
                       \A w \in written[l][k] : w.value <= layers[l][k].value
                 /\ policy = "prefer_higher_confidence" =>
                       \A w \in written[l][k] :
                          /\ w.confidence <= layers[l][k].confidence
                          /\ w.confidence = layers[l][k].confidence /\ w.confidence < Certain
                                => layers[l][k].value <= w.value
        BY <2>2, <3>1 DEF Survives
    <3>2. ASSUME NEW l \in Placing, NEW k \in HubKeys, layers[l][k] # none, NEW w \in written[l][k]
          PROVE  w.value <= layers[l][k].value <=> layers[l][k].value >= w.value
      <4>1. layers[l][k] \in Item /\ w \in Remark
          BY <2>2, <3>2
      <4>2. layers[l][k].value \in Nat /\ w.value \in Nat
          BY <4>1 DEF Item, Remark
      <4> QED
          BY <4>2
    <3> QED
        BY <3>1, <3>2 DEF Memory!SurvivorKept, Placing
  <2>7. Memory!TimesHaveKeys
      BY <2>3 DEF Memory!TimesHaveKeys
  <2>8. Memory!PadBounded
      BY <2>4, HeldIs, MemoryCardinality DEF Memory!PadBounded, Fits, HeldBy
  <2>9. Memory!LearntIsRecognised
    <3>1. /\ debt \in Seq(Debt) /\ Len(debt) <= DebtSize
          /\ \A k \in DOMAIN observed : Recognised(debt, observed, k)
        BY <2>1 DEF LedgerKept, InOrderUpTo
    <3>2. ASSUME NEW i \in DOMAIN debt, NEW n
          PROVE  /\ debt[i].trace \in Nat
                 /\ debt[i] = [type |-> "failure_pattern", trace |-> n] <=>
                       debt[i].type = "failure_pattern" /\ debt[i].trace = n
      <4>1. debt[i] \in Debt
          BY <3>1, <3>2, DebtItems
      <4> QED
          BY <4>1 DEF Debt
    <3>3. ASSUME NEW n \in DOMAIN observed
          PROVE  /\ {i \in DOMAIN debt : debt[i] = [type |-> "failure_pattern", trace |-> n]} # {} =>
                       observed[n].known
                 /\ (observed[n].known
                     /\ {i \in DOMAIN debt : debt[i] = [type |-> "failure_pattern", trace |-> n]} = {}) =>
                       Len(debt) = DebtSize /\ \A i \in DOMAIN debt : debt[i].trace >= n
      <4>1. Recognised(debt, observed, n)
          BY <3>1
      <4>2. n \in Nat
        <5>1. observed \in Seq(Seen)
            BY <2>1 DEF LedgerKept
        <5> QED
            BY <5>1
      <4>3. \A i \in DOMAIN debt : n <= debt[i].trace => debt[i].trace >= n
          BY <3>2, <4>2
      <4> DEFINE pattern(i) == debt[i] = [type |-> "failure_pattern", trace |-> n]
                 mine == {i \in DOMAIN debt : pattern(i)}
      <4>4. mine # {} <=> \E i \in DOMAIN debt : pattern(i)
          OBVIOUS
      <4>5. \A i \in DOMAIN debt :
               pattern(i) <=> debt[i].type = "failure_pattern" /\ debt[i].trace = n
          BY <3>2
      <4>6. mine # {} <=>
               \E i \in DOMAIN debt : debt[i].type = "failure_pattern" /\ debt[i].trace = n
          BY <4>4, <4>5
      <4> HIDE DEF mine
      <4>7. /\ mine # {} => observed[n].known
            /\ observed[n].known /\ mine = {} =>
                  Len(debt) = DebtSize /\ \A i \in DOMAIN debt : debt[i].trace >= n
          BY <4>1, <4>3, <4>6 DEF Recognised
      <4> QED
          BY <4>7 DEF mine
    <3> QED
        BY <3>1, <3>3 DEF Memory!LearntIsRecognised
  <2> QED
      BY <2>5, <2>6, <2>7, <2>8, <2>9
<1> QED
    BY <1>1, MemoryInit, MemoryInvariance, PTL DEF Spec

-----------------------------------------------------------------------------
(* The cloud drive *)

Roots == {"cloudrive", "workspace", "datasets", "analysis"}
PathNames == FileNames \cup Roots
Paths == Seq(PathNames)
Filed == [path : Paths, sum : Contents \cup {none}, dir : Flag]
Version == [number : Nat, sum : Contents]
Ids == Paths \cup Folders
Sharing == [file : Ids, limit : Nat, count : Nat, expires : Nat]

(* the disk is a tree *)
Tree(fs, ds) ==
    /\ DOMAIN fs \subseteq Paths /\ ds \subseteq Paths /\ DOMAIN fs \cap ds = {}
    /\ \A p \in DOMAIN fs : fs[p] \in Contents
    /\ \A p \in DOMAIN fs \cup ds : p # <<>> /\ Drive!Above(p) \subseteq ds

(* the metadata m has the versions v of its files *)
Versioned(m, v) ==
    /\ \A id \in DOMAIN v : v[id] \in Seq(Version) /\ Len(v[id]) <= VersionsKept
    /\ \A id \in DOMAIN m :
          /\ m[id] \in Filed /\ m[id].path # <<>>
          /\ m[id].dir => m[id].sum = none
          /\ ~ m[id].dir => /\ id \in DOMAIN v /\ v[id] # <<>>
                            /\ v[id][Len(v[id])].sum = m[id].sum

Limited(sh) == sh.limit # 0 => sh.count <= sh.limit
SharesKept ==
    /\ share \in [Shares -> Sharing \cup {none}]
    /\ \A s \in Shares : share[s] # none => Limited(share[s])

DriveKept ==
    /\ now \in Nat /\ now <= MaxShared /\ calls \in Nat /\ calls <= MaxAnswered
    /\ Tree(files, dirs)
    /\ DOMAIN meta \subseteq Ids /\ Versioned(meta, versions)
    /\ SharesKept

DriveInv == part = "drive" => DriveKept

Under(s, t) == Drive!IsPrefix(s, t)

LEMMA PrefixIs ==
    ASSUME NEW s \in Paths, NEW t \in Paths
    PROVE  Under(s, t) <=> Len(s) <= Len(t) /\ \A i \in 1 .. Len(s) : s[i] = t[i]
<1>1. Len(s) \in Nat /\ Len(t) \in Nat
    BY DEF Paths
<1>2. ASSUME Len(s) <= Len(t)
      PROVE  SubSeq(s, 1, Len(s)) = SubSeq(t, 1, Len(s)) <=> \A i \in 1 .. Len(s) : s[i] = t[i]
  <2>1. /\ SubSeq(s, 1, Len(s)) \in Paths /\ Len(SubSeq(s, 1, Len(s))) = Len(s)
        /\ \A i \in 1 .. Len(s) : SubSeq(s, 1, Len(s))[i] = s[i]
      BY <1>1 DEF Paths
  <2>2. /\ SubSeq(t, 1, Len(s)) \in Paths /\ Len(SubSeq(t, 1, Len(s))) = Len(s)
        /\ \A i \in 1 .. Len(s) : SubSeq(t, 1, Len(s))[i] = t[i]
      BY <1>1, <1>2 DEF Paths
  <2>3. ASSUME \A i \in 1 .. Len(s) : s[i] = t[i]
        PROVE  SubSeq(s, 1, Len(s)) = SubSeq(t, 1, Len(s))
      BY <2>1, <2>2, <2>3, SeqEqual DEF Paths
  <2> QED
      BY <2>1, <2>2, <2>3
<1> QED
    BY <1>2 DEF Under, Drive!IsPrefix

LEMMA PathsEqual ==
    ASSUME NEW s \in Paths, NEW t \in Paths, Len(s) = Len(t), \A i \in 1 .. Len(s) : s[i] = t[i]
    PROVE  s = t
    BY SeqEqual DEF Paths

LEMMA PathFacts ==
    ASSUME NEW p \in Paths
    PROVE  /\ Len(p) \in Nat /\ (\A i \in 1 .. Len(p) : p[i] \in PathNames)
           /\ p # <<>> => 1 <= Len(p)
           /\ <<>> \in Paths /\ (Len(p) = 0 => p = <<>>)
    BY DEF Paths

LEMMA PrefixOrder ==
    /\ \A s \in Paths : Under(s, s)
    /\ \A s, t, u \in Paths : Under(s, t) /\ Under(t, u) => Under(s, u)
<1>1. ASSUME NEW s \in Paths PROVE Under(s, s)
    BY <1>1, PrefixIs, PathFacts
<1>2. ASSUME NEW s \in Paths, NEW t \in Paths, NEW u \in Paths, Under(s, t), Under(t, u)
      PROVE  Under(s, u)
  <2>1. Len(s) \in Nat /\ Len(t) \in Nat /\ Len(u) \in Nat
      BY PathFacts
  <2>2. Len(s) <= Len(t) /\ Len(t) <= Len(u)
      BY <1>2, PrefixIs
  <2>3. \A i \in 1 .. Len(s) : s[i] = t[i]
      BY <1>2, PrefixIs
  <2>4. \A i \in 1 .. Len(t) : t[i] = u[i]
      BY <1>2, PrefixIs
  <2>5. \A i \in 1 .. Len(s) : s[i] = u[i]
      BY <2>1, <2>2, <2>3, <2>4
  <2>6. Len(s) <= Len(u)
      BY <2>1, <2>2
  <2> QED
      BY <2>5, <2>6, PrefixIs
<1> QED
    BY <1>1, <1>2

(* Two beginnings of one path: the shorter begins the longer. *)
LEMMA Comparable ==
    ASSUME NEW s \in Paths, NEW t \in Paths, NEW u \in Paths, Under(s, u), Under(t, u),
           Len(s) <= Len(t)
    PROVE  Under(s, t) /\ (Len(s) = Len(t) => s = t)
<1>1. Len(s) \in Nat /\ Len(t) \in Nat /\ Len(u) \in Nat
    BY PathFacts
<1>2. \A i \in 1 .. Len(s) : s[i] = u[i]
    BY PrefixIs
<1>3. \A i \in 1 .. Len(t) : t[i] = u[i]
    BY PrefixIs
<1>4. \A i \in 1 .. Len(s) : s[i] = t[i]
    BY <1>1, <1>2, <1>3
<1> QED
    BY <1>4, PrefixIs, PathsEqual

LEMMA AboveIs ==
    ASSUME NEW p \in Paths, NEW u
    PROVE  u \in Drive!Above(p) <=>
              u \in Paths /\ 1 <= Len(u) /\ Len(u) < Len(p) /\ Under(u, p)
<1>1. Len(p) \in Nat
    BY PathFacts
<1>2. ASSUME NEW n \in 1 .. (Len(p) - 1)
      PROVE  /\ SubSeq(p, 1, n) \in Paths /\ Len(SubSeq(p, 1, n)) = n
             /\ \A i \in 1 .. n : SubSeq(p, 1, n)[i] = p[i]
    BY <1>1 DEF Paths
<1>3. ASSUME NEW n \in 1 .. (Len(p) - 1), u = SubSeq(p, 1, n)
      PROVE  u \in Paths /\ 1 <= Len(u) /\ Len(u) < Len(p) /\ Under(u, p)
  <2>1. u \in Paths /\ Len(u) = n /\ \A i \in 1 .. Len(u) : u[i] = p[i]
      BY <1>2, <1>3
  <2>2. 1 <= Len(u) /\ Len(u) < Len(p) /\ Len(u) <= Len(p)
      BY <1>1, <2>1
  <2> QED
      BY <2>1, <2>2, PrefixIs
<1>4. ASSUME u \in Paths, 1 <= Len(u), Len(u) < Len(p), Under(u, p)
      PROVE  u \in Drive!Above(p)
  <2>1. Len(u) \in 1 .. (Len(p) - 1)
      BY <1>1, <1>4, PathFacts
  <2>2. \A i \in 1 .. Len(u) : u[i] = p[i]
      BY <1>4, PrefixIs
  <2>3. /\ SubSeq(p, 1, Len(u)) \in Paths /\ Len(SubSeq(p, 1, Len(u))) = Len(u)
        /\ \A i \in 1 .. Len(u) : SubSeq(p, 1, Len(u))[i] = p[i]
      BY <1>2, <2>1
  <2>4. u = SubSeq(p, 1, Len(u))
      BY <1>4, <2>2, <2>3, PathsEqual
  <2> QED
      BY <2>1, <2>4 DEF Drive!Above
<1> QED
    BY <1>3, <1>4 DEF Drive!Above

(* What begins a path is the path or above it. *)
LEMMA UnderAbove ==
    ASSUME NEW s \in Paths, NEW p \in Paths, s # <<>>, Under(s, p)
    PROVE  s = p \/ s \in Drive!Above(p)
<1>1. Len(s) \in Nat /\ Len(p) \in Nat /\ 1 <= Len(s) /\ Len(s) <= Len(p)
    BY PathFacts, PrefixIs
<1>2. CASE Len(s) = Len(p)
    BY <1>2, PrefixOrder, Comparable
<1>3. CASE Len(s) < Len(p)
    BY <1>1, <1>3, AboveIs
<1> QED
    BY <1>1, <1>2, <1>3

LEMMA AboveAbove ==
    ASSUME NEW p \in Paths, NEW u \in Drive!Above(p)
    PROVE  /\ u \in Paths /\ u # <<>> /\ Drive!Above(u) \subseteq Drive!Above(p)
           /\ p \notin Drive!Above(p)
<1>1. u \in Paths /\ 1 <= Len(u) /\ Len(u) < Len(p) /\ Under(u, p)
    BY AboveIs
<1>2. Len(p) \in Nat /\ Len(u) \in Nat /\ u # <<>>
    BY <1>1, PathFacts
<1>3. ASSUME NEW w \in Drive!Above(u) PROVE w \in Drive!Above(p)
  <2>1. w \in Paths /\ 1 <= Len(w) /\ Len(w) < Len(u) /\ Under(w, u)
      BY <1>1, AboveIs
  <2>2. Under(w, p)
      BY <1>1, <2>1, PrefixOrder
  <2>3. Len(w) < Len(p)
      BY <1>1, <1>2, <2>1, PathFacts
  <2> QED
      BY <2>1, <2>2, <2>3, AboveIs
<1>4. p \notin Drive!Above(p)
    BY <1>2, AboveIs
<1> QED
    BY <1>1, <1>2, <1>3, <1>4

(* A path that begins with f, with t for f. *)
LEMMA RebasedIs ==
    ASSUME NEW p \in Paths, NEW f \in Paths, NEW t \in Paths, Under(f, p)
    PROVE  /\ Drive!Rebased(p, f, t) \in Paths
           /\ Len(Drive!Rebased(p, f, t)) = Len(t) + (Len(p) - Len(f))
           /\ \A i \in 1 .. Len(t) : Drive!Rebased(p, f, t)[i] = t[i]
           /\ \A i \in 1 .. (Len(p) - Len(f)) : Drive!Rebased(p, f, t)[Len(t) + i] = p[Len(f) + i]
           /\ Under(t, Drive!Rebased(p, f, t))
<1> DEFINE rest == SubSeq(p, Len(f) + 1, Len(p))
           r == t \o rest
<1>1. Len(p) \in Nat /\ Len(f) \in Nat /\ Len(t) \in Nat /\ Len(f) <= Len(p)
    BY PathFacts, PrefixIs
<1>2. /\ rest \in Paths /\ Len(rest) = Len(p) - Len(f)
      /\ \A i \in 1 .. (Len(p) - Len(f)) : rest[i] = p[Len(f) + i]
    BY <1>1 DEF Paths
<1> HIDE DEF rest
<1>3. /\ r \in Paths /\ Len(r) = Len(t) + Len(rest)
      /\ \A i \in 1 .. Len(t) : r[i] = t[i]
      /\ \A i \in 1 .. Len(rest) : r[Len(t) + i] = rest[i]
  <2>1. /\ r \in Paths /\ Len(r) = Len(t) + Len(rest)
        /\ \A i \in 1 .. Len(t) + Len(rest) : r[i] = IF i <= Len(t) THEN t[i] ELSE rest[i - Len(t)]
      BY <1>2, ConcatProperties DEF Paths
  <2>3. \A i \in 1 .. Len(t) : r[i] = t[i]
      BY <1>1, <1>2, <2>1, PathFacts
  <2>2. ASSUME NEW i \in 1 .. Len(rest) PROVE r[Len(t) + i] = rest[i]
    <3>1. /\ Len(t) + i \in 1 .. Len(t) + Len(rest) /\ ~ (Len(t) + i <= Len(t))
          /\ (Len(t) + i) - Len(t) = i
        BY <1>1, <1>2, PathFacts
    <3>2. r[Len(t) + i] = rest[(Len(t) + i) - Len(t)]
        BY <2>1, <3>1
    <3> QED
        BY <3>1, <3>2
  <2> QED
      BY <2>1, <2>2, <2>3
<1>4. r = Drive!Rebased(p, f, t)
    BY DEF Drive!Rebased, rest
<1> HIDE DEF r
<1>5. Under(t, r)
    BY <1>1, <1>2, <1>3, PrefixIs
<1> QED
    BY <1>2, <1>3, <1>4, <1>5

LEMMA RebasedBack ==
    ASSUME NEW p \in Paths, NEW f \in Paths, NEW t \in Paths, Under(f, p)
    PROVE  Drive!Rebased(Drive!Rebased(p, f, t), t, f) = p
<1> DEFINE r == Drive!Rebased(p, f, t)
           q == Drive!Rebased(r, t, f)
<1>1. Len(p) \in Nat /\ Len(f) \in Nat /\ Len(t) \in Nat /\ Len(f) <= Len(p)
    BY PathFacts, PrefixIs
<1>2. /\ r \in Paths /\ Len(r) = Len(t) + (Len(p) - Len(f)) /\ Under(t, r)
      /\ \A i \in 1 .. (Len(p) - Len(f)) : r[Len(t) + i] = p[Len(f) + i]
    BY RebasedIs
<1> HIDE DEF r
<1>3. /\ q \in Paths /\ Len(q) = Len(f) + (Len(r) - Len(t))
      /\ \A i \in 1 .. Len(f) : q[i] = f[i]
      /\ \A i \in 1 .. (Len(r) - Len(t)) : q[Len(f) + i] = r[Len(t) + i]
    BY <1>2, RebasedIs
<1> HIDE DEF q
<1>4. Len(q) = Len(p) /\ Len(r) - Len(t) = Len(p) - Len(f)
    BY <1>1, <1>2, <1>3
<1>5. ASSUME NEW i \in 1 .. Len(q) PROVE q[i] = p[i]
  <2>1. CASE i <= Len(f)
    <3>1. i \in 1 .. Len(f)
        BY <1>1, <2>1
    <3>2. f[i] = p[i]
        BY <3>1, PrefixIs
    <3> QED
        BY <3>1, <3>2, <1>3
  <2>2. CASE Len(f) < i
    <3>1. i - Len(f) \in 1 .. (Len(p) - Len(f)) /\ Len(f) + (i - Len(f)) = i
        BY <1>1, <1>4, <1>5, <2>2
    <3>2. q[Len(f) + (i - Len(f))] = p[Len(f) + (i - Len(f))]
        BY <3>1, <1>2, <1>3, <1>4
    <3> QED
        BY <3>1, <3>2
  <2> QED
      BY <2>1, <2>2, <1>1, <1>4
<1>6. q = p
    BY <1>3, <1>4, <1>5, PathsEqual
<1> QED
    BY <1>6 DEF q, r

(* What is above a rebased path is above its new beginning, or rebased. *)
LEMMA RebasedAbove ==
    ASSUME NEW p \in Paths, NEW f \in Paths, NEW t \in Paths, Under(f, p), f # <<>>,
           NEW u \in Drive!Above(Drive!Rebased(p, f, t))
    PROVE  \/ u \in Drive!Above(t)
           \/ \E w \in Drive!Above(p) : Under(f, w) /\ u = Drive!Rebased(w, f, t)
<1> DEFINE r == Drive!Rebased(p, f, t)
           w == Drive!Rebased(u, t, f)
<1>1. Len(p) \in Nat /\ Len(f) \in Nat /\ Len(t) \in Nat /\ Len(f) <= Len(p) /\ 1 <= Len(f)
    BY PathFacts, PrefixIs
<1>2. r \in Paths /\ Len(r) = Len(t) + (Len(p) - Len(f)) /\ Under(t, r)
      /\ \A i \in 1 .. (Len(p) - Len(f)) : r[Len(t) + i] = p[Len(f) + i]
    BY RebasedIs
<1>3. u \in Paths /\ Len(u) \in Nat /\ 1 <= Len(u) /\ Len(u) < Len(r) /\ Under(u, r)
    BY <1>2, AboveIs, PathFacts
<1> HIDE DEF r
<1>4. CASE Len(u) < Len(t)
    BY <1>2, <1>3, <1>4, Comparable, AboveIs
<1>5. CASE Len(t) <= Len(u)
  <2>1. Under(t, u)
      BY <1>2, <1>3, <1>5, Comparable
  <2>2. /\ w \in Paths /\ Len(w) = Len(f) + (Len(u) - Len(t)) /\ Under(f, w)
        /\ \A i \in 1 .. Len(f) : w[i] = f[i]
        /\ \A i \in 1 .. (Len(u) - Len(t)) : w[Len(f) + i] = u[Len(t) + i]
      BY <1>3, <2>1, RebasedIs
  <2>3. u = Drive!Rebased(w, f, t)
      BY <1>3, <2>1, RebasedBack
  <2> HIDE DEF w
  <2>4. 1 <= Len(w) /\ Len(w) < Len(p)
      BY <1>1, <1>2, <1>3, <1>5, <2>2
  <2>5. ASSUME NEW i \in 1 .. Len(w) PROVE w[i] = p[i]
    <3>1. CASE i <= Len(f)
      <4>1. i \in 1 .. Len(f)
          BY <1>1, <3>1
      <4>2. f[i] = p[i]
          BY <4>1, PrefixIs
      <4> QED
          BY <4>1, <4>2, <2>2
    <3>2. CASE Len(f) < i
      <4> DEFINE j == i - Len(f)
      <4>1. /\ j \in 1 .. (Len(u) - Len(t)) /\ j \in 1 .. (Len(p) - Len(f)) /\ Len(f) + j = i
            /\ Len(t) + j \in 1 .. Len(u)
          BY <1>1, <1>2, <1>3, <1>5, <2>2, <2>5, <3>2
      <4> HIDE DEF j
      <4>2. w[Len(f) + j] = u[Len(t) + j]
          BY <4>1, <2>2
      <4>3. u[Len(t) + j] = r[Len(t) + j]
          BY <4>1, <1>2, <1>3, PrefixIs
      <4>4. r[Len(t) + j] = p[Len(f) + j]
          BY <4>1, <1>2
      <4> QED
          BY <4>1, <4>2, <4>3, <4>4
    <3> QED
        BY <3>1, <3>2, <1>1, <2>2, <1>3, <1>5
  <2>6. Under(w, p)
      BY <2>2, <2>4, <2>5, <1>1, PrefixIs, PathFacts
  <2>7. w \in Drive!Above(p)
      BY <2>2, <2>4, <2>6, AboveIs
  <2> QED
      BY <2>2, <2>3, <2>7
<1> QED
    BY <1>1, <1>3, <1>4, <1>5

LEMMA AppendAbove ==
    ASSUME NEW p \in Paths, NEW x \in PathNames
    PROVE  /\ Append(p, x) \in Paths /\ Append(p, x) # <<>> /\ Under(p, Append(p, x))
           /\ \A u \in Drive!Above(Append(p, x)) : u = p \/ u \in Drive!Above(p)
<1> DEFINE a == Append(p, x)
<1>1. /\ Len(p) \in Nat /\ a \in Paths /\ Len(a) = Len(p) + 1
      /\ \A i \in 1 .. Len(p) : a[i] = p[i]
    BY DEF Paths
<1> HIDE DEF a
<1>2. Under(p, a)
    BY <1>1, PrefixIs
<1>3. a # <<>>
    BY <1>1, PathFacts DEF a
<1>4. ASSUME NEW u \in Drive!Above(a) PROVE u = p \/ u \in Drive!Above(p)
  <2>1. u \in Paths /\ Len(u) \in Nat /\ 1 <= Len(u) /\ Len(u) <= Len(p) /\ Under(u, a)
      BY <1>1, AboveIs, PathFacts
  <2>2. Under(u, p)
      BY <1>1, <1>2, <2>1, Comparable
  <2>3. u # <<>>
      BY <2>1, PathFacts
  <2> QED
      BY <2>1, <2>2, <2>3, UnderAbove
<1> QED
    BY <1>1, <1>2, <1>3, <1>4 DEF a

(* Making the directories above a path, and a file or a directory there.   *)
LEMMA MadeTree ==
    ASSUME Tree(files, dirs), NEW p \in Paths, Drive!CanMakeDirs(p)
    PROVE  /\ Tree(files, Drive!MadeDirs(p))
           /\ p # <<>> /\ p \notin dirs => \A c \in Contents : Tree(Drive!Put(files, p, c), Drive!MadeDirs(p))
           /\ p # <<>> /\ p \notin DOMAIN files => Tree(files, Drive!MadeDirs(p) \cup {p})
<1> DEFINE all == dirs \cup Drive!Above(p)
<1>1. /\ DOMAIN files \subseteq Paths /\ dirs \subseteq Paths /\ DOMAIN files \cap dirs = {}
      /\ \A q \in DOMAIN files : files[q] \in Contents
      /\ \A q \in DOMAIN files \cup dirs : q # <<>> /\ Drive!Above(q) \subseteq dirs
    BY DEF Tree
<1>2. Drive!MadeDirs(p) = all
    BY DEF Drive!MadeDirs
<1>3. Drive!Above(p) \cap DOMAIN files = {}
    BY DEF Drive!CanMakeDirs
<1>4. \A u \in Drive!Above(p) : u \in Paths /\ u # <<>> /\ Drive!Above(u) \subseteq Drive!Above(p) /\ u # p
    BY AboveAbove
<1> HIDE DEF all
<1>5. all \subseteq Paths /\ DOMAIN files \cap all = {} /\ Drive!Above(p) \subseteq all /\ dirs \subseteq all
    BY <1>1, <1>3, <1>4 DEF all
<1>6. \A q \in DOMAIN files \cup all : q # <<>> /\ Drive!Above(q) \subseteq all
    BY <1>1, <1>4 DEF all
<1>7. Tree(files, all)
    BY <1>1, <1>5, <1>6 DEF Tree
<1>8. ASSUME p # <<>>, p \notin dirs, NEW c \in Contents
      PROVE  Tree(Drive!Put(files, p, c), all)
  <2> DEFINE fs == Drive!Put(files, p, c)
  <2>1. DOMAIN fs = DOMAIN files \cup {p} /\ \A q \in DOMAIN fs : fs[q] = IF q = p THEN c ELSE files[q]
      BY DEF Drive!Put
  <2> HIDE DEF fs
  <2>2. p \notin all
      BY <1>4, <1>8 DEF all
  <2>3. DOMAIN fs \subseteq Paths /\ DOMAIN fs \cap all = {}
      BY <1>1, <1>5, <2>1, <2>2
  <2>4. \A q \in DOMAIN fs : fs[q] \in Contents
      BY <1>1, <1>8, <2>1
  <2>5. \A q \in DOMAIN fs \cup all : q # <<>> /\ Drive!Above(q) \subseteq all
      BY <1>5, <1>6, <1>8, <2>1
  <2>6. Tree(fs, all)
      BY <1>5, <2>3, <2>4, <2>5 DEF Tree
  <2> QED
      BY <2>6 DEF fs
<1>9. ASSUME p # <<>>, p \notin DOMAIN files
      PROVE  Tree(files, all \cup {p})
    BY <1>1, <1>5, <1>6, <1>9 DEF Tree
<1> QED
    BY <1>2, <1>7, <1>8, <1>9

(* Deleting what is under a path. *)
LEMMA CutTree ==
    ASSUME Tree(files, dirs), NEW p \in Paths
    PROVE  /\ Tree(Drive!Without(p), {d \in dirs : ~ Under(p, d)})
           /\ DOMAIN Drive!Without(p) = {q \in DOMAIN files : ~ Under(p, q)}
           /\ \A q \in DOMAIN Drive!Without(p) : Drive!Without(p)[q] = files[q]
<1> DEFINE fs == Drive!Without(p)
           ds == {d \in dirs : ~ Under(p, d)}
<1>1. /\ DOMAIN files \subseteq Paths /\ dirs \subseteq Paths /\ DOMAIN files \cap dirs = {}
      /\ \A q \in DOMAIN files : files[q] \in Contents
      /\ \A q \in DOMAIN files \cup dirs : q # <<>> /\ Drive!Above(q) \subseteq dirs
    BY DEF Tree
<1>2. /\ DOMAIN fs = {q \in DOMAIN files : ~ Under(p, q)}
      /\ \A q \in DOMAIN fs : fs[q] = files[q]
    BY DEF Drive!Without, Drive!Restrict, Under
<1> HIDE DEF fs
<1>3. ASSUME NEW q \in DOMAIN fs \cup ds PROVE q # <<>> /\ Drive!Above(q) \subseteq ds
  <2>1. q \in DOMAIN files \cup dirs /\ ~ Under(p, q) /\ q \in Paths
      BY <1>1, <1>2
  <2>2. ASSUME NEW u \in Drive!Above(q) PROVE u \in ds
    <3>1. u \in dirs /\ u \in Paths /\ Under(u, q)
        BY <1>1, <2>1, AboveIs
    <3>2. ~ Under(p, u)
        BY <2>1, <3>1, PrefixOrder
    <3> QED
        BY <3>1, <3>2
  <2> QED
      BY <1>1, <2>1, <2>2
<1>4. Tree(fs, ds)
    BY <1>1, <1>2, <1>3 DEF Tree
<1> QED
    BY <1>2, <1>4 DEF fs

(* What a path from becomes when it is moved to real. *)
Becomes(p, from, real) == Drive!Rebased(p, from, real)

LEMMA LastName ==
    ASSUME NEW p \in Paths, p # <<>>
    PROVE  Drive!Last(p) \in PathNames
<1>1. Len(p) \in 1 .. Len(p)
    BY PathFacts
<1> QED
    BY <1>1, PathFacts DEF Drive!Last

LEMMA MovedValues ==
    ASSUME Tree(files, dirs), NEW from \in Paths, NEW to \in Paths,
           NEW real \in Paths, real = Drive!Destination(from, to)
    PROVE  /\ DOMAIN Drive!Moved(from, to) =
                 {p \in DOMAIN files : ~ Under(from, p)}
                    \cup {Becomes(p, from, real) : p \in {q \in DOMAIN files : Under(from, q)}}
           /\ \A p \in DOMAIN files : Under(from, p) =>
                 Drive!Moved(from, to)[Becomes(p, from, real)] = files[p]
           /\ \A p \in DOMAIN files :
                 /\ ~ Under(from, p)
                 /\ \A q \in DOMAIN files : Under(from, q) => p # Becomes(q, from, real)
                 => Drive!Moved(from, to)[p] = files[p]
<1> DEFINE gone == {p \in DOMAIN files : Under(from, p)}
           here == DOMAIN files \ gone
           come == {Drive!Rebased(p, from, real) : p \in gone}
           fs == Drive!Moved(from, to)
<1>1. fs = [p \in (here \ come) \cup come |->
               IF p \in come THEN files[Drive!Rebased(p, real, from)] ELSE files[p]]
    BY DEF Drive!Moved, Under
<1>2. DOMAIN files \subseteq Paths
    BY DEF Tree
<1> HIDE DEF come, fs
<1>3. DOMAIN fs = here \cup come
    BY <1>1
<1>4. ASSUME NEW p \in DOMAIN files, Under(from, p)
      PROVE  fs[Drive!Rebased(p, from, real)] = files[p]
  <2>1. Drive!Rebased(p, from, real) \in come
      BY <1>4 DEF come
  <2>2. Drive!Rebased(Drive!Rebased(p, from, real), real, from) = p
      BY <1>2, <1>4, RebasedBack
  <2> QED
      BY <1>1, <2>1, <2>2
<1>5. ASSUME NEW p \in DOMAIN files, ~ Under(from, p),
             \A q \in DOMAIN files : Under(from, q) => p # Drive!Rebased(q, from, real)
      PROVE  fs[p] = files[p]
  <2>1. p \notin come /\ p \in here
      BY <1>5 DEF come
  <2> QED
      BY <1>1, <2>1
<1> QED
    BY <1>3, <1>4, <1>5 DEF Becomes, come, fs

(* Moving a file or a directory to where the disk lets it. *)
LEMMA MovedTree ==
    ASSUME Tree(files, dirs), NEW from \in Paths, NEW to \in Paths, from # <<>>, to # <<>>,
           Drive!OnDisk(from), Drive!CanMakeDirs(to), Drive!CanMove(from, to)
    PROVE  /\ Tree(Drive!Moved(from, to), Drive!MovedDirs(from, to))
           /\ Drive!Destination(from, to) \in Paths /\ Under(to, Drive!Destination(from, to))
           /\ from \in DOMAIN files => \A p \in DOMAIN files : Under(from, p) => p = from
<1> DEFINE real == Drive!Destination(from, to)
           all == dirs \cup Drive!Above(to)
           fs == Drive!Moved(from, to)
           ds == Drive!MovedDirs(from, to)
<1>1. /\ DOMAIN files \subseteq Paths /\ DOMAIN files \cap dirs = {}
      /\ \A q \in DOMAIN files : files[q] \in Contents /\ q # <<>> /\ Drive!Above(q) \subseteq dirs
    BY DEF Tree
<1>2. /\ all \subseteq Paths /\ DOMAIN files \cap all = {}
      /\ \A q \in DOMAIN files \cup all : q # <<>> /\ Drive!Above(q) \subseteq all
    BY MadeTree DEF Tree, Drive!MadeDirs
<1>3. Drive!Above(to) \subseteq all /\ dirs \subseteq all /\ (to \in all => to \in dirs)
    BY AboveAbove
<1>4. ds = (all \ {d \in all : Under(from, d)})
              \cup {Becomes(d, from, real) : d \in {e \in all : Under(from, e)}}
    BY DEF Drive!MovedDirs, Drive!MadeDirs, Under, Becomes
<1>5. /\ from \in DOMAIN files \/ from \in dirs
      /\ ~ (from \in dirs /\ from # to /\ Under(from, real))
      /\ to \in dirs /\ from # to => real \notin DOMAIN files /\ real \notin dirs
      /\ from \in dirs /\ from # to => real \notin DOMAIN files
    BY DEF Drive!OnDisk, Drive!CanMove, Under
<1> HIDE DEF all
<1>7. /\ real \in Paths /\ real # <<>> /\ Under(to, real)
      /\ Drive!Above(real) \subseteq all
      /\ from # to => real \notin all
      /\ from = to => real = from
  <2>1. CASE to \in dirs /\ from # to
    <3>1. real = Append(to, Drive!Last(from)) /\ Drive!Last(from) \in PathNames
        BY <2>1, LastName DEF Drive!Destination
    <3> HIDE DEF real
    <3>2. real \in Paths /\ real # <<>> /\ Under(to, real)
          /\ \A u \in Drive!Above(real) : u = to \/ u \in Drive!Above(to)
        BY <3>1, AppendAbove
    <3>3. Drive!Above(real) \subseteq all
        BY <2>1, <3>2, <1>3
    <3>4. real \notin Drive!Above(to)
      <4>1. Len(real) = Len(to) + 1 /\ Len(to) \in Nat
          BY <3>1, PathFacts DEF Paths
      <4> QED
          BY <4>1, AboveIs
    <3>5. real \notin all
        BY <1>5, <2>1, <3>4 DEF all, real
    <3> QED
        BY <2>1, <3>2, <3>3, <3>5
  <2>2. CASE ~ (to \in dirs /\ from # to)
    <3>1. real = to
        BY <2>2 DEF Drive!Destination
    <3>2. to \notin Drive!Above(to)
        BY AboveIs, PathFacts
    <3>3. from # to => real \notin all
        BY <2>2, <3>1, <3>2 DEF all
    <3> QED
        BY <3>1, <3>3, <1>3, PrefixOrder
  <2> QED
      BY <2>1, <2>2
<1> HIDE DEF real
<1>8. ASSUME from \in DOMAIN files
      PROVE  /\ \A p \in DOMAIN files : Under(from, p) => p = from
             /\ \A d \in all : ~ Under(from, d)
  <2>1. from \notin all
      BY <1>2, <1>8
  <2>2. ASSUME NEW p \in DOMAIN files \cup all, Under(from, p), p # from PROVE FALSE
    <3>1. from \in Drive!Above(p)
        BY <1>1, <1>2, <2>2, UnderAbove
    <3> QED
        BY <1>2, <2>1, <3>1
  <2> QED
      BY <2>1, <2>2
<1>9. ASSUME NEW u \in Drive!Above(real) PROVE ~ Under(from, u)
  <2>1. u \in all /\ u \in Paths /\ Len(u) < Len(real) /\ Under(u, real)
      BY <1>7, AboveIs
  <2>2. CASE from = to
    <3>1. Len(u) < Len(from) /\ Len(u) \in Nat /\ Len(from) \in Nat
        BY <1>7, <2>1, <2>2, PathFacts
    <3> QED
        BY <2>1, <3>1, PrefixIs
  <2>3. CASE from \in DOMAIN files
      BY <1>8, <2>1, <2>3
  <2>4. CASE from \in dirs /\ from # to
      BY <1>5, <1>7, <2>1, <2>4, PrefixOrder
  <2> QED
      BY <1>5, <2>2, <2>3, <2>4
(* of what is moved *)
<1>10. ASSUME NEW p \in DOMAIN files \cup all, Under(from, p)
       PROVE  /\ Becomes(p, from, real) \in Paths /\ Becomes(p, from, real) # <<>>
              /\ Under(real, Becomes(p, from, real))
              /\ Drive!Rebased(Becomes(p, from, real), real, from) = p
              /\ \A u \in Drive!Above(Becomes(p, from, real)) :
                    \/ u \in Drive!Above(real)
                    \/ \E w \in Drive!Above(p) : Under(from, w) /\ u = Becomes(w, from, real)
  <2>1. p \in Paths
      BY <1>1, <1>2
  <2>2. Becomes(p, from, real) \in Paths /\ Under(real, Becomes(p, from, real))
      BY <1>7, <1>10, <2>1, RebasedIs DEF Becomes
  <2>3. Becomes(p, from, real) # <<>>
    <3>1. 1 <= Len(real) /\ Len(real) \in Nat /\ Len(real) <= Len(Becomes(p, from, real))
        BY <1>7, <2>2, PathFacts, PrefixIs
    <3> QED
        BY <2>2, <3>1
  <2>4. Drive!Rebased(Becomes(p, from, real), real, from) = p
      BY <1>7, <1>10, <2>1, RebasedBack DEF Becomes
  <2>5. \A u \in Drive!Above(Becomes(p, from, real)) :
           \/ u \in Drive!Above(real)
           \/ \E w \in Drive!Above(p) : Under(from, w) /\ u = Becomes(w, from, real)
      BY <1>7, <1>10, <2>1, RebasedAbove DEF Becomes
  <2> QED
      BY <2>2, <2>3, <2>4, <2>5
<1> DEFINE stay == {p \in DOMAIN files : ~ Under(from, p)}
           come == {Becomes(p, from, real) : p \in {q \in DOMAIN files : Under(from, q)}}
           stayDirs == all \ {d \in all : Under(from, d)}
           comeDirs == {Becomes(d, from, real) : d \in {e \in all : Under(from, e)}}
<1>11. /\ DOMAIN fs = stay \cup come
       /\ \A p \in DOMAIN files : Under(from, p) => fs[Becomes(p, from, real)] = files[p]
       /\ \A p \in DOMAIN files :
             /\ ~ Under(from, p)
             /\ \A q \in DOMAIN files : Under(from, q) => p # Becomes(q, from, real)
             => fs[p] = files[p]
    BY <1>7, MovedValues DEF real
<1>12. ds = stayDirs \cup comeDirs
    BY <1>4
<1> HIDE DEF fs, ds
<1>13. DOMAIN fs \cup ds \subseteq Paths /\ \A p \in DOMAIN fs \cup ds : p # <<>>
    BY <1>1, <1>2, <1>10, <1>11, <1>12
<1>14. \A p \in DOMAIN fs : fs[p] \in Contents
  <2> SUFFICES ASSUME NEW p \in DOMAIN fs PROVE fs[p] \in Contents
      OBVIOUS
  <2>1. CASE p \in come
    <3>1. PICK q \in DOMAIN files : Under(from, q) /\ p = Becomes(q, from, real)
        BY <2>1
    <3> QED
        BY <3>1, <1>1, <1>11
  <2>2. CASE p \notin come
    <3>1. p \in DOMAIN files /\ ~ Under(from, p)
        BY <2>2, <1>11
    <3>2. \A q \in DOMAIN files : Under(from, q) => p # Becomes(q, from, real)
        BY <2>2
    <3> QED
        BY <3>1, <3>2, <1>1, <1>11
  <2> QED
      BY <2>1, <2>2
<1>15. DOMAIN fs \cap ds = {}
  <2>1. \A p \in stay : p \notin stayDirs
      BY <1>2
  <2>2. ASSUME NEW p \in DOMAIN files, Under(from, p), NEW d \in all, Under(from, d),
               Becomes(p, from, real) = Becomes(d, from, real)
        PROVE  FALSE
    <3>1. p = d
        BY <1>10, <2>2
    <3> QED
        BY <1>2, <3>1
  <2>3. ASSUME NEW p \in DOMAIN files, Under(from, p), Becomes(p, from, real) \in stayDirs
        PROVE  FALSE
    <3> DEFINE b == Becomes(p, from, real)
    <3>1. b \in all /\ b \in Paths /\ ~ Under(from, b) /\ Under(real, b)
        BY <1>10, <2>3
    <3>2. real = b \/ real \in Drive!Above(b)
        BY <1>7, <3>1, UnderAbove
    <3>3. real \in all
        BY <1>2, <3>1, <3>2
    <3> QED
        BY <1>7, <3>1, <3>3
  <2>4. ASSUME NEW d \in all, Under(from, d), Becomes(d, from, real) \in stay
        PROVE  FALSE
    <3> DEFINE b == Becomes(d, from, real)
    <3>1. b \in DOMAIN files /\ b \in Paths /\ ~ Under(from, b) /\ Under(real, b)
        BY <1>10, <2>4
    <3>2. from \in dirs
        BY <1>5, <1>8, <2>4
    <3>3. from # to
        BY <1>7, <3>1
    <3>4. real # b
        BY <1>5, <3>1, <3>2, <3>3
    <3>5. real \in Drive!Above(b)
        BY <1>7, <3>1, <3>4, UnderAbove
    <3>6. real \in all
        BY <1>2, <3>1, <3>5
    <3> QED
        BY <1>7, <3>3, <3>6
  <2>5. ASSUME NEW x \in DOMAIN fs, x \in ds PROVE FALSE
    <3>1. CASE x \in stay /\ x \in comeDirs
        BY <3>1, <2>4
    <3>2. CASE x \in come /\ x \in stayDirs
        BY <3>2, <2>3
    <3>3. CASE x \in come /\ x \in comeDirs
      <4>1. PICK p \in DOMAIN files : Under(from, p) /\ x = Becomes(p, from, real)
          BY <3>3
      <4>2. PICK d \in all : Under(from, d) /\ x = Becomes(d, from, real)
          BY <3>3
      <4> QED
          BY <4>1, <4>2, <2>2
    <3> QED
        BY <2>1, <2>5, <3>1, <3>2, <3>3, <1>11, <1>12
  <2> QED
      BY <2>5
<1>16. ASSUME NEW p \in DOMAIN fs \cup ds PROVE Drive!Above(p) \subseteq ds
  <2>1. ASSUME NEW q \in DOMAIN files \cup all, ~ Under(from, q), NEW u \in Drive!Above(q)
        PROVE  u \in stayDirs
    <3>1. u \in all /\ q \in Paths /\ u \in Paths /\ Under(u, q)
        BY <1>1, <1>2, <2>1, AboveIs
    <3>2. ~ Under(from, u)
        BY <2>1, <3>1, PrefixOrder
    <3> QED
        BY <3>1, <3>2
  <2>2. ASSUME NEW q \in DOMAIN files \cup all, Under(from, q),
               NEW u \in Drive!Above(Becomes(q, from, real))
        PROVE  u \in stayDirs \cup comeDirs
    <3>1. CASE u \in Drive!Above(real)
        BY <3>1, <1>7, <1>9
    <3>2. ASSUME NEW w \in Drive!Above(q), Under(from, w), u = Becomes(w, from, real)
          PROVE  u \in comeDirs
        BY <1>2, <2>2, <3>2
    <3> QED
        BY <1>10, <2>2, <3>1, <3>2
  <2> HIDE DEF stayDirs, comeDirs
  <2>3. \E q \in DOMAIN files \cup all :
           (p = q /\ ~ Under(from, q)) \/ (p = Becomes(q, from, real) /\ Under(from, q))
      BY <1>11, <1>12, <1>16 DEF stayDirs, comeDirs
  <2> QED
      BY <2>1, <2>2, <2>3, <1>12
<1>17. Tree(fs, ds)
    BY <1>13, <1>14, <1>15, <1>16 DEF Tree
<1> QED
    BY <1>7, <1>8, <1>17 DEF fs, ds, real

(* What may become of a file that downloads as its metadata says. *)
Goes(id) ==
    \/ id \notin DOMAIN meta'
    \/ /\ ~ meta'[id].dir /\ meta'[id].path \in DOMAIN files'
       /\ files'[meta'[id].path] = meta'[id].sum
    \/ meta'[id].path \in dirs
    \/ \E other \in (DOMAIN meta \cup DOMAIN meta') \ {id} :
          \/ other \in DOMAIN meta /\ Under(meta[other].path, meta[id].path)
          \/ other \in DOMAIN meta' /\ Under(meta'[other].path, meta'[id].path)

LEMMA GoesIs ==
    Drive!StaysIntact <=>
        \A id \in DOMAIN meta :
           ~ meta[id].dir /\ meta[id].path \in DOMAIN files /\ files[meta[id].path] = meta[id].sum
              => Goes(id)
    BY DEF Drive!StaysIntact, Drive!Intact, Goes, Under

LEMMA SameFiles ==
    ASSUME UNCHANGED <<files, meta>>
    PROVE  Drive!StaysIntact
    BY GoesIs DEF Goes

(* A new version of a file. *)
LEMMA NewVersion ==
    ASSUME NEW had \in Seq(Version), Len(had) <= VersionsKept, NEW c \in Contents, NEW last,
           last = [number |-> Len(had) + 1, sum |-> c]
    PROVE  LET new == Drive!NewestVersions(Append(had, last)) IN
           /\ new \in Seq(Version) /\ Len(new) <= VersionsKept /\ new # <<>>
           /\ new[Len(new)].sum = c
<1> DEFINE a == Append(had, last)
           new == Drive!NewestVersions(a)
<1>1. Len(had) \in Nat /\ VersionsKept \in Nat /\ 1 <= VersionsKept
    BY DriveAssumption
<1>2. last \in Version /\ last.sum = c
    BY <1>1 DEF Version
<1>3. a \in Seq(Version) /\ Len(a) = Len(had) + 1 /\ a[Len(had) + 1] = last
  <2> HIDE DEF Version
  <2> QED
      BY <1>1, <1>2
<1> HIDE DEF a
<1>4. CASE Len(a) > VersionsKept
  <2>1. new = Tail(a) /\ a # <<>>
      BY <1>1, <1>3, <1>4 DEF Drive!NewestVersions
  <2>2. Len(a) = VersionsKept + 1 /\ Len(had) = VersionsKept
      BY <1>1, <1>3, <1>4
  <2>3. /\ Tail(a) \in Seq(Version) /\ Len(Tail(a)) = VersionsKept
        /\ Tail(a)[VersionsKept] = a[VersionsKept + 1]
    <3> HIDE DEF Version
    <3> QED
        BY <1>1, <1>3, <2>1, <2>2
  <2>4. new \in Seq(Version) /\ Len(new) = VersionsKept /\ new[Len(new)] = last
      BY <1>3, <2>1, <2>2, <2>3
  <2>5. new # <<>>
      BY <1>1, <2>4
  <2> QED
      BY <1>1, <1>2, <2>4, <2>5 DEF a
<1>5. CASE ~ (Len(a) > VersionsKept)
  <2>1. new = a
      BY <1>5 DEF Drive!NewestVersions
  <2>2. new \in Seq(Version) /\ Len(new) <= VersionsKept /\ new[Len(new)] = last
      BY <1>1, <1>3, <1>5, <2>1
  <2>3. new # <<>>
      BY <1>1, <1>3, <2>1
  <2> QED
      BY <1>2, <2>2, <2>3 DEF a
<1> QED
    BY <1>4, <1>5

LEMMA PutIs ==
    ASSUME NEW f, NEW k, NEW x
    PROVE  /\ DOMAIN Drive!Put(f, k, x) = DOMAIN f \cup {k}
           /\ Drive!Put(f, k, x)[k] = x
           /\ \A j \in DOMAIN f : j # k => Drive!Put(f, k, x)[j] = f[j]
    BY DEF Drive!Put

(* upload *)
LEMMA UploadStep ==
    ASSUME DriveKept, Drive!Call, NEW c \in Contents, NEW p \in Paths, p # <<>>,
           Drive!Upload(c, p)
    PROVE  DriveKept' /\ Drive!StaysIntact
<1> DEFINE had == IF p \in DOMAIN versions THEN versions[p] ELSE <<>>
           last == [number |-> Len(had) + 1, sum |-> c]
           new == Drive!NewestVersions(Append(had, last))
           entry == [path |-> p, sum |-> c, dir |-> FALSE]
<1>1. /\ Drive!CanMakeDirs(p) /\ p \notin dirs
      /\ files' = Drive!Put(files, p, c) /\ dirs' = Drive!MadeDirs(p)
      /\ meta' = Drive!Put(meta, p, entry) /\ versions' = Drive!Put(versions, p, new)
      /\ UNCHANGED <<share, now>>
    BY DEF Drive!Upload
<1>2. Tree(files', dirs')
    BY <1>1, MadeTree DEF DriveKept
<1>3. \A id \in DOMAIN versions : versions[id] \in Seq(Version) /\ Len(versions[id]) <= VersionsKept
    BY DEF DriveKept, Versioned
<1>4. had \in Seq(Version) /\ Len(had) <= VersionsKept
  <2>1. <<>> \in Seq(Version) /\ Len(<<>>) <= VersionsKept
      BY DriveAssumption
  <2> QED
      BY <1>3, <2>1
<1> HIDE DEF had
<1>5. new \in Seq(Version) /\ Len(new) <= VersionsKept /\ new # <<>> /\ new[Len(new)].sum = c
    BY <1>4, NewVersion
<1>6. entry \in Filed /\ entry.path = p /\ entry.sum = c /\ entry.dir = FALSE
    BY DEF Filed, Flag
<1> HIDE DEF new, entry
<1>7. /\ DOMAIN meta' = DOMAIN meta \cup {p} /\ meta'[p] = entry
      /\ \A id \in DOMAIN meta : id # p => meta'[id] = meta[id]
      /\ DOMAIN versions' = DOMAIN versions \cup {p} /\ versions'[p] = new
      /\ \A id \in DOMAIN versions : id # p => versions'[id] = versions[id]
      /\ DOMAIN files' = DOMAIN files \cup {p} /\ files'[p] = c
      /\ \A q \in DOMAIN files : q # p => files'[q] = files[q]
  <2>1. /\ DOMAIN meta' = DOMAIN meta \cup {p} /\ meta'[p] = entry
        /\ \A id \in DOMAIN meta : id # p => meta'[id] = meta[id]
      BY <1>1 DEF Drive!Put
  <2>2. /\ DOMAIN versions' = DOMAIN versions \cup {p} /\ versions'[p] = new
        /\ \A id \in DOMAIN versions : id # p => versions'[id] = versions[id]
      BY <1>1 DEF Drive!Put
  <2>3. /\ DOMAIN files' = DOMAIN files \cup {p} /\ files'[p] = c
        /\ \A q \in DOMAIN files : q # p => files'[q] = files[q]
      BY <1>1 DEF Drive!Put
  <2> QED
      BY <2>1, <2>2, <2>3
<1>8. Versioned(meta', versions')
  <2>1. \A id \in DOMAIN versions' : versions'[id] \in Seq(Version) /\ Len(versions'[id]) <= VersionsKept
      BY <1>3, <1>5, <1>7
  <2>2. ASSUME NEW id \in DOMAIN meta'
        PROVE  /\ meta'[id] \in Filed /\ meta'[id].path # <<>>
               /\ meta'[id].dir => meta'[id].sum = none
               /\ ~ meta'[id].dir => /\ id \in DOMAIN versions' /\ versions'[id] # <<>>
                                     /\ versions'[id][Len(versions'[id])].sum = meta'[id].sum
    <3>1. CASE id = p
        BY <3>1, <1>5, <1>6, <1>7
    <3>2. CASE id # p
      <4>1. id \in DOMAIN meta /\ meta'[id] = meta[id]
          BY <3>2, <2>2, <1>7
      <4>2. /\ meta[id] \in Filed /\ meta[id].path # <<>>
            /\ meta[id].dir => meta[id].sum = none
            /\ ~ meta[id].dir => /\ id \in DOMAIN versions /\ versions[id] # <<>>
                                 /\ versions[id][Len(versions[id])].sum = meta[id].sum
          BY <4>1 DEF DriveKept, Versioned
      <4>3. id \in DOMAIN versions => id \in DOMAIN versions' /\ versions'[id] = versions[id]
          BY <3>2, <1>7
      <4> QED
          BY <4>1, <4>2, <4>3
    <3> QED
        BY <3>1, <3>2
  <2> QED
      BY <2>1, <2>2 DEF Versioned
<1>9. DOMAIN meta' \subseteq Ids
    BY <1>7 DEF DriveKept, Ids
<1>10. SharesKept' /\ now' \in Nat /\ now' <= MaxShared /\ calls' \in Nat /\ calls' <= MaxAnswered
    BY <1>1, DriveAssumption DEF DriveKept, SharesKept, Drive!Call
<1>11. DriveKept'
    BY <1>2, <1>8, <1>9, <1>10 DEF DriveKept
<1>12. ASSUME NEW id \in DOMAIN meta, ~ meta[id].dir, meta[id].path \in DOMAIN files,
              files[meta[id].path] = meta[id].sum
       PROVE  Goes(id)
  <2>1. CASE id = p
      BY <2>1, <1>6, <1>7 DEF Goes
  <2>2. CASE id # p /\ meta[id].path = p
    <3>1. p \in DOMAIN meta' /\ p # id /\ meta'[p].path = p /\ meta'[id].path = p
        BY <2>2, <1>6, <1>7
    <3>2. Under(p, p)
        BY PrefixOrder
    <3> QED
        BY <3>1, <3>2 DEF Goes
  <2>3. CASE id # p /\ meta[id].path # p
      BY <2>3, <1>7, <1>12 DEF Goes
  <2> QED
      BY <2>1, <2>2, <2>3
<1> QED
    BY <1>11, <1>12, GoesIs

(* The metadata's paths. *)
LEMMA PathOf ==
    ASSUME DriveKept, NEW id \in DOMAIN meta
    PROVE  meta[id].path \in Paths /\ meta[id].path # <<>> /\ meta[id] \in Filed /\ id \in Ids
    BY DEF DriveKept, Versioned, Filed

(* delete *)
LEMMA DeleteStep ==
    ASSUME DriveKept, NEW d \in DOMAIN meta, Drive!Delete(d)
    PROVE  DriveKept' /\ Drive!StaysIntact
<1> DEFINE p == meta[d].path
<1>1. /\ Drive!Call /\ files' = Drive!Without(p) /\ dirs' = {e \in dirs : ~ Under(p, e)}
      /\ meta' = Drive!Restrict(meta, DOMAIN meta \ {d})
      /\ versions' = Drive!Restrict(versions, DOMAIN versions \ {d})
      /\ UNCHANGED <<share, now>>
    BY DEF Drive!Delete, Under
<1>2. p \in Paths /\ p # <<>>
    BY PathOf
<1>3. /\ Tree(files', dirs') /\ DOMAIN files' = {q \in DOMAIN files : ~ Under(p, q)}
      /\ \A q \in DOMAIN files' : files'[q] = files[q]
    BY <1>1, <1>2, CutTree DEF DriveKept
<1>4. /\ DOMAIN meta' = DOMAIN meta \ {d} /\ \A id \in DOMAIN meta' : meta'[id] = meta[id]
      /\ DOMAIN versions' = DOMAIN versions \ {d}
      /\ \A id \in DOMAIN versions' : versions'[id] = versions[id]
    BY <1>1 DEF Drive!Restrict
<1>5. Versioned(meta', versions') /\ DOMAIN meta' \subseteq Ids
  <2>1. Versioned(meta, versions) /\ DOMAIN meta \subseteq Ids
      BY DEF DriveKept
  <2> QED
      BY <2>1, <1>4 DEF Versioned
<1>6. SharesKept' /\ now' \in Nat /\ now' <= MaxShared /\ calls' \in Nat /\ calls' <= MaxAnswered
    BY <1>1, DriveAssumption DEF DriveKept, SharesKept, Drive!Call
<1>7. DriveKept'
    BY <1>3, <1>5, <1>6 DEF DriveKept
<1>8. ASSUME NEW id \in DOMAIN meta, ~ meta[id].dir, meta[id].path \in DOMAIN files,
             files[meta[id].path] = meta[id].sum
      PROVE  Goes(id)
  <2>1. CASE id = d
      BY <2>1, <1>4 DEF Goes
  <2>2. CASE id # d /\ Under(p, meta[id].path)
      BY <2>2 DEF Goes
  <2>3. CASE id # d /\ ~ Under(p, meta[id].path)
    <3>1. id \in DOMAIN meta' /\ meta'[id] = meta[id]
        BY <2>3, <1>4
    <3>2. meta[id].path \in DOMAIN files' /\ files'[meta[id].path] = files[meta[id].path]
        BY <2>3, <1>3, <1>8
    <3> QED
        BY <3>1, <3>2, <1>8 DEF Goes
  <2> QED
      BY <2>1, <2>2, <2>3
<1> QED
    BY <1>7, <1>8, GoesIs

(* What a move does to the metadata. *)
LEMMA MetaMovedKeeps ==
    ASSUME DriveKept, NEW d \in DOMAIN meta, NEW to \in Paths, to # <<>>
    PROVE  /\ Versioned(Drive!MetaMoved(d, to), versions) /\ DOMAIN Drive!MetaMoved(d, to) = DOMAIN meta
           /\ Drive!MetaMoved(d, to)[d].path = to
           /\ Drive!MetaMoved(d, to)[d].dir = meta[d].dir /\ Drive!MetaMoved(d, to)[d].sum = meta[d].sum
           /\ \A id \in DOMAIN meta : id # d => Drive!MetaMoved(d, to)[id] = meta[id]
<1> DEFINE m == Drive!MetaMoved(d, to)
           entry == [meta[d] EXCEPT !.path = to]
<1>1. m = [meta EXCEPT ![d] = entry]
    BY DEF Drive!MetaMoved
<1>2. /\ \A id \in DOMAIN versions : versions[id] \in Seq(Version) /\ Len(versions[id]) <= VersionsKept
      /\ \A id \in DOMAIN meta :
            /\ meta[id] \in Filed /\ meta[id].path # <<>>
            /\ meta[id].dir => meta[id].sum = none
            /\ ~ meta[id].dir => /\ id \in DOMAIN versions /\ versions[id] # <<>>
                                 /\ versions[id][Len(versions[id])].sum = meta[id].sum
    BY DEF DriveKept, Versioned
<1>3. meta[d] \in Filed
    BY <1>2
<1>4. entry \in Filed /\ entry.path = to /\ entry.sum = meta[d].sum /\ entry.dir = meta[d].dir
    BY <1>3 DEF Filed
<1> HIDE DEF entry, m
<1>5. /\ DOMAIN m = DOMAIN meta /\ m[d] = entry
      /\ \A id \in DOMAIN meta : id # d => m[id] = meta[id]
    BY <1>1
<1>6. ASSUME NEW id \in DOMAIN m
      PROVE  /\ m[id] \in Filed /\ m[id].path # <<>>
             /\ m[id].dir => m[id].sum = none
             /\ ~ m[id].dir => /\ id \in DOMAIN versions /\ versions[id] # <<>>
                               /\ versions[id][Len(versions[id])].sum = m[id].sum
  <2>1. CASE id = d
      BY <2>1, <1>2, <1>4, <1>5
  <2>2. CASE id # d
      BY <2>2, <1>2, <1>5, <1>6
  <2> QED
      BY <2>1, <2>2
<1>7. Versioned(m, versions)
    BY <1>2, <1>6 DEF Versioned
<1> QED
    BY <1>4, <1>5, <1>7 DEF m

(* What is moved becomes where it is moved to. *)
LEMMA RebasedSelf ==
    ASSUME NEW f \in Paths, NEW t \in Paths
    PROVE  Becomes(f, f, t) = t
<1> DEFINE r == Drive!Rebased(f, f, t)
<1>1. Under(f, f)
    BY PrefixOrder
<1>2. r \in Paths /\ Len(r) = Len(t) + (Len(f) - Len(f)) /\ \A i \in 1 .. Len(t) : r[i] = t[i]
    BY <1>1, RebasedIs
<1> HIDE DEF r
<1>3. Len(r) = Len(t)
    BY <1>2, PathFacts
<1>4. r = t
    BY <1>2, <1>3, PathsEqual
<1> QED
    BY <1>4 DEF Becomes, r

(* move and rename *)
LEMMA MoveStep ==
    ASSUME DriveKept, NEW d \in DOMAIN meta, NEW to \in Paths, to # <<>>, Drive!MoveTo(d, to)
    PROVE  DriveKept' /\ Drive!StaysIntact
<1> DEFINE from == meta[d].path
           real == Drive!Destination(from, to)
<1>1. Drive!Call /\ UNCHANGED <<versions, share, now>>
    BY DEF Drive!MoveTo
<1>2. SharesKept' /\ now' \in Nat /\ now' <= MaxShared /\ calls' \in Nat /\ calls' <= MaxAnswered
    BY <1>1, DriveAssumption DEF DriveKept, SharesKept, Drive!Call
<1>3. from \in Paths /\ from # <<>>
    BY PathOf
<1>4. Tree(files, dirs) /\ Versioned(meta, versions) /\ DOMAIN meta \subseteq Ids
    BY DEF DriveKept
<1>5. meta' = Drive!MetaMoved(d, to) =>
         /\ Versioned(meta', versions') /\ DOMAIN meta' \subseteq Ids /\ DOMAIN meta' = DOMAIN meta
         /\ meta'[d].path = to /\ meta'[d].dir = meta[d].dir /\ meta'[d].sum = meta[d].sum
         /\ \A id \in DOMAIN meta : id # d => meta'[id] = meta[id]
    BY <1>1, <1>4, MetaMovedKeeps
<1>6. CASE ~ Drive!OnDisk(from)
  <2>1. meta' = Drive!MetaMoved(d, to) /\ UNCHANGED <<files, dirs>>
      BY <1>6 DEF Drive!MoveTo
  <2>2. DriveKept'
      BY <1>2, <1>4, <1>5, <2>1 DEF DriveKept
  <2>3. ASSUME NEW id \in DOMAIN meta, ~ meta[id].dir, meta[id].path \in DOMAIN files,
               files[meta[id].path] = meta[id].sum
        PROVE  Goes(id)
    <3>1. id # d
        BY <1>6, <2>3 DEF Drive!OnDisk
    <3> QED
        BY <3>1, <1>5, <2>1, <2>3 DEF Goes
  <2> QED
      BY <2>2, <2>3, GoesIs
<1>7. CASE Drive!OnDisk(from) /\ ~ Drive!CanMove(from, to)
  <2>1. Drive!CanMakeDirs(to) /\ dirs' = Drive!MadeDirs(to) /\ UNCHANGED <<files, meta>>
      BY <1>7 DEF Drive!MoveTo
  <2>2. Tree(files', dirs')
      BY <1>4, <2>1, MadeTree
  <2>3. DriveKept'
      BY <1>1, <1>2, <1>4, <2>1, <2>2 DEF DriveKept
  <2> QED
      BY <2>1, <2>3, SameFiles
<1>8. CASE Drive!OnDisk(from) /\ Drive!CanMove(from, to)
  <2>1. /\ Drive!CanMakeDirs(to) /\ files' = Drive!Moved(from, to)
        /\ dirs' = Drive!MovedDirs(from, to) /\ meta' = Drive!MetaMoved(d, to)
      BY <1>8 DEF Drive!MoveTo
  <2> HIDE DEF from
  <2>2. /\ Tree(files', dirs') /\ real \in Paths /\ Under(to, real)
        /\ from \in DOMAIN files => \A p \in DOMAIN files : Under(from, p) => p = from
      BY <1>3, <1>4, <1>8, <2>1, MovedTree
  <2>3. DriveKept'
      BY <1>2, <1>5, <2>1, <2>2 DEF DriveKept
  <2>8. real = Drive!Destination(from, to)
      OBVIOUS
  <2> HIDE DEF real
  <2>9. /\ DOMAIN Drive!Moved(from, to) = {p \in DOMAIN files : ~ Under(from, p)}
              \cup {Becomes(p, from, real) : p \in {q \in DOMAIN files : Under(from, q)}}
        /\ \A p \in DOMAIN files : Under(from, p) =>
              Drive!Moved(from, to)[Becomes(p, from, real)] = files[p]
        /\ \A p \in DOMAIN files :
              /\ ~ Under(from, p)
              /\ \A q \in DOMAIN files : Under(from, q) => p # Becomes(q, from, real)
              => Drive!Moved(from, to)[p] = files[p]
      BY <1>3, <1>4, <2>2, <2>8, MovedValues
  <2>4. /\ DOMAIN files' = {p \in DOMAIN files : ~ Under(from, p)}
              \cup {Becomes(p, from, real) : p \in {q \in DOMAIN files : Under(from, q)}}
        /\ \A p \in DOMAIN files : Under(from, p) => files'[Becomes(p, from, real)] = files[p]
        /\ \A p \in DOMAIN files :
              /\ ~ Under(from, p)
              /\ \A q \in DOMAIN files : Under(from, q) => p # Becomes(q, from, real)
              => files'[p] = files[p]
    <3>1. files' = Drive!Moved(from, to)
        BY <2>1
    <3> QED
        BY <2>9, <3>1
  <2>5. DOMAIN files \subseteq Paths
      BY <1>4 DEF Tree
  <2>6. \A q \in DOMAIN files : Under(from, q) =>
           Becomes(q, from, real) \in Paths /\ Under(real, Becomes(q, from, real))
      BY <1>3, <2>2, <2>5, RebasedIs DEF Becomes
  <2>7. ASSUME NEW id \in DOMAIN meta, ~ meta[id].dir, meta[id].path \in DOMAIN files,
               files[meta[id].path] = meta[id].sum
        PROVE  Goes(id)
    <3> DEFINE p == meta[id].path
    <3>1. p \in Paths
        BY PathOf
    <3>2. CASE id # d /\ Under(from, p)
        BY <3>2 DEF Goes, from
    <3>3. CASE id # d /\ ~ Under(from, p)
      <4>1. id \in DOMAIN meta' /\ meta'[id] = meta[id] /\ d \in DOMAIN meta' /\ meta'[d].path = to
          BY <3>3, <1>5, <2>1
      <4>2. CASE \A q \in DOMAIN files : Under(from, q) => p # Becomes(q, from, real)
        <5>1. p \in DOMAIN files' /\ files'[p] = files[p]
            BY <3>3, <4>2, <2>4, <2>7
        <5> QED
            BY <4>1, <5>1, <2>7 DEF Goes
      <4>3. ASSUME NEW q \in DOMAIN files, Under(from, q), p = Becomes(q, from, real)
            PROVE  Goes(id)
        <5>1. Under(to, p)
            BY <2>2, <2>6, <3>1, <4>3, PrefixOrder
        <5> QED
            BY <3>3, <4>1, <5>1 DEF Goes
      <4> QED
          BY <4>2, <4>3
    <3>4. CASE id = d
      <4>1. p = from /\ from \in DOMAIN files /\ Under(from, from)
          BY <3>4, <2>7, <1>3, PrefixOrder DEF from
      <4>2. id \in DOMAIN meta' /\ meta'[id].path = to /\ ~ meta'[id].dir /\ meta'[id].sum = meta[id].sum
          BY <3>4, <1>5, <2>1, <2>7
      <4>3. CASE to \in dirs
          BY <4>2, <4>3 DEF Goes
      <4>4. CASE to \notin dirs
        <5>1. real = to
            BY <4>4, <2>8 DEF Drive!Destination
        <5>3. Becomes(from, from, real) = real
            BY <1>3, <2>2, RebasedSelf
        <5>4. to \in DOMAIN files' /\ files'[to] = files[from]
            BY <2>4, <4>1, <5>1, <5>3
        <5> QED
            BY <2>7, <4>1, <4>2, <5>4 DEF Goes
      <4> QED
          BY <4>3, <4>4
    <3> QED
        BY <3>2, <3>3, <3>4
  <2> QED
      BY <2>3, <2>7, GoesIs
<1> QED
    BY <1>6, <1>7, <1>8

(* create_folder *)
LEMMA FolderStep ==
    ASSUME DriveKept, NEW id \in Folders, NEW folder \in Paths, NEW x \in PathNames,
           Drive!CreateFolder(id, folder, x)
    PROVE  DriveKept' /\ Drive!StaysIntact
<1> DEFINE p == Append(folder, x)
           entry == [path |-> p, sum |-> none, dir |-> TRUE]
<1>1. /\ Drive!Call /\ id \notin DOMAIN meta /\ Drive!CanMakeDirs(p) /\ p \notin DOMAIN files
      /\ dirs' = Drive!MadeDirs(p) \cup {p} /\ meta' = Drive!Put(meta, id, entry)
      /\ UNCHANGED <<files, versions, share, now>>
    BY DEF Drive!CreateFolder
<1>2. p \in Paths /\ p # <<>>
    BY AppendAbove
<1>3. entry \in Filed /\ entry.path = p /\ entry.sum = none /\ entry.dir = TRUE
    BY <1>2 DEF Filed, Flag
<1> HIDE DEF p, entry
<1>4. Tree(files', dirs')
    BY <1>1, <1>2, MadeTree DEF DriveKept
<1>5. /\ DOMAIN meta' = DOMAIN meta \cup {id} /\ meta'[id] = entry
      /\ \A j \in DOMAIN meta : meta'[j] = meta[j]
    BY <1>1 DEF Drive!Put
<1>6. Versioned(meta', versions') /\ DOMAIN meta' \subseteq Ids
  <2>1. Versioned(meta, versions) /\ DOMAIN meta \subseteq Ids
      BY DEF DriveKept
  <2>2. ASSUME NEW j \in DOMAIN meta'
        PROVE  /\ meta'[j] \in Filed /\ meta'[j].path # <<>>
               /\ meta'[j].dir => meta'[j].sum = none
               /\ ~ meta'[j].dir => /\ j \in DOMAIN versions /\ versions[j] # <<>>
                                    /\ versions[j][Len(versions[j])].sum = meta'[j].sum
    <3>1. CASE j = id
        BY <3>1, <1>2, <1>3, <1>5
    <3>2. CASE j # id
        BY <3>2, <2>1, <2>2, <1>5 DEF Versioned
    <3> QED
        BY <3>1, <3>2
  <2>3. versions' = versions
      BY <1>1
  <2> QED
      BY <2>1, <2>2, <2>3, <1>5 DEF Versioned, Ids
<1>7. SharesKept' /\ now' \in Nat /\ now' <= MaxShared /\ calls' \in Nat /\ calls' <= MaxAnswered
    BY <1>1, DriveAssumption DEF DriveKept, SharesKept, Drive!Call
<1>8. DriveKept'
    BY <1>4, <1>6, <1>7 DEF DriveKept
<1>9. ASSUME NEW j \in DOMAIN meta, ~ meta[j].dir, meta[j].path \in DOMAIN files,
             files[meta[j].path] = meta[j].sum
      PROVE  Goes(j)
    BY <1>1, <1>5, <1>9 DEF Goes
<1> QED
    BY <1>8, <1>9, GoesIs

(* create_share and download_share *)
LEMMA SharingStep ==
    ASSUME DriveKept, NEW s \in Shares,
           \/ Drive!DownloadShare(s)
           \/ \E id \in DOMAIN meta, limit \in Limits, lasting \in Expiries :
                 Drive!CreateShare(s, id, limit, lasting)
    PROVE  DriveKept' /\ Drive!StaysIntact
<1>1. Drive!Call /\ UNCHANGED <<files, dirs, meta, versions, now>>
    BY DEF Drive!DownloadShare, Drive!CreateShare
<1>2. /\ share \in [Shares -> Sharing \cup {none}]
      /\ \A t \in Shares : share[t] # none => Limited(share[t])
      /\ now \in Nat /\ now <= MaxShared /\ calls \in Nat
    BY DEF DriveKept, SharesKept
<1>3. \E sh \in Sharing : share' = [share EXCEPT ![s] = sh] /\ (sh # none => Limited(sh))
  <2>1. ASSUME Drive!DownloadShare(s)
        PROVE  \E sh \in Sharing : share' = [share EXCEPT ![s] = sh] /\ (sh # none => Limited(sh))
    <3> DEFINE old == share[s]
               sh == [old EXCEPT !.count = old.count + 1]
    <3>1. old # none /\ (old.limit # 0 => old.count < old.limit) /\ share' = [share EXCEPT ![s] = sh]
        BY <2>1 DEF Drive!DownloadShare, Drive!Served
    <3>2. old \in Sharing
        BY <1>2, <3>1
    <3>3. old.count \in Nat /\ old.limit \in Nat
        BY <3>2 DEF Sharing
    <3>4. sh \in Sharing /\ sh.limit = old.limit /\ sh.count = old.count + 1
        BY <3>2, <3>3 DEF Sharing
    <3>5. Limited(sh)
        BY <3>1, <3>3, <3>4 DEF Limited
    <3> QED
        BY <3>1, <3>4, <3>5
  <2>2. ASSUME NEW id \in DOMAIN meta, NEW limit \in Limits, NEW lasting \in Expiries,
               Drive!CreateShare(s, id, limit, lasting)
        PROVE  \E sh \in Sharing : share' = [share EXCEPT ![s] = sh] /\ (sh # none => Limited(sh))
    <3> DEFINE until == IF lasting = 0 THEN 0 ELSE now + lasting
               sh == [file |-> id, limit |-> limit, count |-> 0, expires |-> until]
    <3>1. share' = [share EXCEPT ![s] = sh]
        BY <2>2 DEF Drive!CreateShare
    <3>2. until \in Nat /\ limit \in Nat
        BY <1>2, DriveAssumption
    <3>3. id \in Ids
        BY PathOf
    <3> HIDE DEF until
    <3>4. sh \in Sharing /\ sh.limit = limit /\ sh.count = 0
        BY <3>2, <3>3 DEF Sharing
    <3>5. Limited(sh)
        BY <3>2, <3>4 DEF Limited
    <3> QED
        BY <3>1, <3>4, <3>5
  <2> QED
      BY <2>1, <2>2
<1>4. SharesKept'
    BY <1>2, <1>3 DEF SharesKept
<1>5. calls' \in Nat /\ calls' <= MaxAnswered
    BY <1>1, <1>2, DriveAssumption DEF Drive!Call
<1>6. DriveKept'
    BY <1>1, <1>4, <1>5 DEF DriveKept
<1> QED
    BY <1>1, <1>6, SameFiles

LEMMA DriveSame ==
    ASSUME DriveKept, UNCHANGED <<files, dirs, meta, versions, share, calls>>,
           now' \in Nat, now' <= MaxShared
    PROVE  DriveKept' /\ Drive!StaysIntact
<1>1. SharesKept'
    BY DEF DriveKept, SharesKept
<1>2. DriveKept'
    BY <1>1 DEF DriveKept
<1> QED
    BY <1>2, SameFiles

(* Every step of the drive keeps the disk a tree and its files intact. *)
LEMMA DriveStep ==
    ASSUME DriveKept, Drive!Next
    PROVE  DriveKept' /\ Drive!StaysIntact
<1>1. dirs \subseteq Paths /\ <<>> \in Paths
    BY DEF DriveKept, Tree, Paths
<1>2. \A folder \in Drive!InFolder : folder \in Paths
    BY <1>1 DEF Drive!InFolder
<1>3. \A x \in FileNames : x \in PathNames
    BY DEF PathNames
<1>4. ASSUME NEW c \in Contents, NEW x \in FileNames, NEW asked, NEW taskKind,
             Drive!SaveOutput(c, x, asked, taskKind)
      PROVE  DriveKept' /\ Drive!StaysIntact
  <2> DEFINE target == Drive!Route(x, asked, taskKind)
             p == IF target \in {"cloudrive", "workspace", "datasets", "analysis"}
                  THEN <<target, x, x>> ELSE <<x>>
  <2>1. Drive!Call /\ Drive!Upload(c, p)
      BY <1>4 DEF Drive!SaveOutput
  <2> HIDE DEF target
  <2>2. x \in PathNames /\ (target \in {"cloudrive", "workspace", "datasets", "analysis"} => target \in PathNames)
      BY DEF PathNames, Roots
  <2>3. p \in Paths /\ p # <<>>
      BY <2>2 DEF Paths
  <2> QED
      BY <2>1, <2>3, UploadStep
<1>5. ASSUME NEW c \in Contents, NEW x \in FileNames, NEW folder \in Drive!InFolder,
             Drive!UploadTo(c, folder, x)
      PROVE  DriveKept' /\ Drive!StaysIntact
    BY <1>2, <1>3, <1>5, AppendAbove, UploadStep DEF Drive!UploadTo
<1>6. ASSUME NEW id \in DOMAIN meta, NEW folder \in Drive!InFolder, Drive!Move(id, folder)
      PROVE  DriveKept' /\ Drive!StaysIntact
  <2>1. Drive!Last(meta[id].path) \in PathNames
      BY PathOf, LastName
  <2> QED
      BY <1>2, <1>6, <2>1, AppendAbove, MoveStep DEF Drive!Move
<1>7. ASSUME NEW id \in DOMAIN meta, NEW x \in FileNames, Drive!Rename(id, x)
      PROVE  DriveKept' /\ Drive!StaysIntact
  <2>1. Drive!Parent(meta[id].path) \in Paths
    <3>1. meta[id].path \in Paths /\ meta[id].path # <<>>
        BY PathOf
    <3>2. Len(meta[id].path) - 1 \in 0 .. Len(meta[id].path)
        BY <3>1, PathFacts
    <3> QED
        BY <3>1, <3>2 DEF Drive!Parent, Drive!Front, Paths
  <2> QED
      BY <1>3, <1>7, <2>1, AppendAbove, MoveStep DEF Drive!Rename
<1>8. ASSUME Drive!Tick
      PROVE  DriveKept' /\ Drive!StaysIntact
  <2>1. now' \in Nat /\ now' <= MaxShared
      BY <1>8, DriveAssumption DEF Drive!Tick, DriveKept
  <2> QED
      BY <1>8, <2>1, DriveSame DEF Drive!Tick
<1> QED
    BY <1>2, <1>3, <1>4, <1>5, <1>6, <1>7, <1>8, DeleteStep, FolderStep, SharingStep DEF Drive!Next

LEMMA DriveInit == Init => DriveInv
<1> SUFFICES ASSUME Drive!Init PROVE DriveKept
    BY DEF Init, DriveInv
<1>1. /\ DOMAIN files = {} /\ dirs = {} /\ DOMAIN meta = {} /\ DOMAIN versions = {}
      /\ share = [s \in Shares |-> none] /\ now = 0 /\ calls = 0
    BY DEF Drive!Init, Drive!NoFile
<1>2. Tree(files, dirs)
    BY <1>1 DEF Tree
<1>3. Versioned(meta, versions)
    BY <1>1 DEF Versioned
<1>4. SharesKept
    BY <1>1 DEF SharesKept
<1> QED
    BY <1>1, <1>2, <1>3, <1>4, DriveAssumption DEF DriveKept

LEMMA DriveInvariance ==
    DriveInv /\ [Next]_vars => DriveInv' /\ (part = "drive" => Drive!StaysIntact)
<1> SUFFICES ASSUME DriveInv, [Next]_vars, part = "drive"
             PROVE  DriveKept' /\ Drive!StaysIntact
    BY DEF DriveInv, Next, vars
<1>1. DriveKept
    BY DEF DriveInv
<1>2. CASE Next
  <2>1. Drive!Next
      BY <1>2 DEF Next, Work, Judge, Explain, Resume, Keep
  <2> QED
      BY <1>1, <2>1, DriveStep
<1>3. CASE UNCHANGED vars
  <2>1. UNCHANGED <<files, dirs, meta, versions, share, calls>> /\ now' = now
      BY <1>3 DEF vars, keptVars, driveVars
  <2>2. now' \in Nat /\ now' <= MaxShared
      BY <1>1, <2>1 DEF DriveKept
  <2> QED
      BY <1>1, <2>1, <2>2, DriveSame
<1> QED
    BY <1>2, <1>3

(* Whatever is uploaded, moved, renamed, deleted and shared, for any names *)
(* and contents, depth and number of versions: a file that downloads as    *)
(* its metadata says goes on doing so unless it is deleted, moved onto a   *)
(* directory, or another entry of the drive is on its path or above it;    *)
(* its newest version is the content its metadata names; and no limited    *)
(* share is served more often than its limit (CloudDriveService).          *)
THEOREM DriveKeepsFiles == Spec => DriveSound
<1>1. DriveInv => (part = "drive" => Drive!TypeOK /\ Drive!VersionsFollow)
  <2> SUFFICES ASSUME DriveKept PROVE Drive!TypeOK /\ Drive!VersionsFollow
      BY DEF DriveInv
  <2>1. Drive!TypeOK
    <3>1. /\ \A p \in DOMAIN files : files[p] \in Contents
          /\ DOMAIN files \cap dirs = {}
        BY DEF DriveKept, Tree
    <3>2. \A id \in DOMAIN meta : meta[id].dir => meta[id].sum = none
        BY DEF DriveKept, Versioned
    <3>3. now \in 0 .. MaxShared /\ calls \in 0 .. MaxAnswered
        BY DriveAssumption DEF DriveKept
    <3> QED
        BY <3>1, <3>2, <3>3 DEF Drive!TypeOK
  <2>2. Drive!VersionsFollow
    <3>1. \A id \in DOMAIN meta :
             ~ meta[id].dir => /\ id \in DOMAIN versions /\ versions[id] # <<>>
                               /\ Len(versions[id]) <= VersionsKept
                               /\ versions[id][Len(versions[id])].sum = meta[id].sum
        BY DEF DriveKept, Versioned
    <3>2. \A s \in Shares : share[s] # none /\ share[s].limit # 0 => share[s].count <= share[s].limit
        BY DEF DriveKept, SharesKept, Limited
    <3> QED
        BY <3>1, <3>2 DEF Drive!VersionsFollow, Drive!Last
  <2> QED
      BY <2>1, <2>2
<1> QED
    BY <1>1, DriveInit, DriveInvariance, PTL DEF Spec, DriveSound
=============================================================================
