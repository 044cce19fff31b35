--------------------------- MODULE Failover_proofs --------------------------
(***************************************************************************)
(* What the results recorded with a breaker and the calls it lets through  *)
(* have to do with its state, and the checks of an instance with its       *)
(* health, for any number of instances and callers and all thresholds.     *)
(***************************************************************************)
EXTENDS Failover, SequenceTheorems, TLAPS

(* A breaker's counters are runs at the end of its log, a closed breaker    *)
(* has not reached its threshold, and what a half-open one let through is   *)
(* one more than the slots taken.                                           *)
Runs(log, fails, succs) ==
    /\ Len(log) <= LogLength
    /\ LastAre(log, fails, FALSE)
    /\ LastAre(log, succs, TRUE)

BreakerOK(b) ==
    /\ b \in BreakerType
    /\ Runs(b.log, b.fails, b.succs)
    /\ b.state = "closed" => b.fails < FailureThreshold
    /\ b.state = "half_open" => b.granted = b.probes + 1
    /\ b.state # "half_open" => b.granted = 0

BreakersOK ==
    /\ DOMAIN breaker = Instances
    /\ \A i \in Instances : BreakerOK(breaker[i])

-----------------------------------------------------------------------------
(* The log a breaker keeps is long enough for either threshold. *)
LEMMA LogLengthBounds ==
    /\ LogLength \in Nat \ {0}
    /\ FailureThreshold <= LogLength
    /\ SuccessThreshold <= LogLength
  BY FailoverAssumption DEF LogLength

(* Remember returns a log within its length, and the old one less its       *)
(* oldest result if that was full.                                          *)
LEMMA RememberShape ==
    ASSUME NEW S, NEW log \in Seq(S), NEW r \in S, NEW n \in Nat \ {0},
           Len(log) <= n
    PROVE  LET kept == Remember(log, r, n)
               gone == IF Len(log) = n THEN 1 ELSE 0
           IN  /\ kept \in Seq(S)
               /\ Len(kept) = Len(log) + 1 - gone
               /\ \A k \in 1..Len(log) - gone : kept[k] = log[k + gone]
               /\ kept[Len(kept)] = r
<1> DEFINE longer == Append(log, r)
<1>1. /\ longer \in Seq(S) /\ longer # <<>>
      /\ Len(longer) = Len(log) + 1
      /\ \A k \in 1..Len(log) : longer[k] = log[k]
      /\ longer[Len(log) + 1] = r
  BY AppendProperties
<1> HIDE DEF longer
<1>2. /\ Tail(longer) \in Seq(S)
      /\ Len(Tail(longer)) = Len(longer) - 1
      /\ \A k \in 1..Len(Tail(longer)) : Tail(longer)[k] = longer[k + 1]
  BY <1>1, HeadTailProperties
<1>3. Remember(log, r, n) = IF Len(longer) > n THEN Tail(longer) ELSE longer
  BY DEF Remember, longer
<1>4. Len(log) \in Nat
  BY LenProperties
<1>5. CASE Len(log) = n
  <2>1. Remember(log, r, n) = Tail(longer)
    BY <1>1, <1>3, <1>4, <1>5
  <2>2. \A k \in 1..Len(log) - 1 : Tail(longer)[k] = log[k + 1]
    BY <1>1, <1>2, <1>4
  <2>3. Tail(longer)[Len(log)] = r
    BY <1>1, <1>2, <1>4, <1>5
  <2>4. Len(Tail(longer)) = Len(log)
    BY <1>1, <1>2, <1>4
  <2> QED BY <1>2, <1>5, <2>1, <2>2, <2>3, <2>4
<1>6. CASE Len(log) # n
  <2>1. Remember(log, r, n) = longer
    BY <1>1, <1>3, <1>4, <1>6
  <2> QED BY <1>1, <1>4, <1>6, <2>1
<1> QED BY <1>5, <1>6

LEMMA RememberLength ==
    ASSUME NEW S, NEW log \in Seq(S), NEW r \in S, NEW n \in Nat \ {0},
           Len(log) <= n
    PROVE  Len(Remember(log, r, n)) <= n
<1>1. Len(log) \in Nat
  BY LenProperties
<1> DEFINE kept == Remember(log, r, n)
<1>2. Len(kept) = Len(log) + 1 - (IF Len(log) = n THEN 1 ELSE 0)
  BY RememberShape
<1> HIDE DEF kept
<1>3. Len(kept) <= n
  BY <1>1, <1>2
<1> QED BY <1>3 DEF kept

(* One more equal result lengthens the run at the end of a log by one, as   *)
(* far as max counts.                                                       *)
LEMMA RememberRun ==
    ASSUME NEW S, NEW log \in Seq(S), NEW r \in S, NEW n \in Nat \ {0},
           Len(log) <= n, NEW m \in Nat, NEW max \in Nat, max <= n,
           LastAre(log, m, r)
    PROVE  LastAre(Remember(log, r, n), AtMost(m + 1, max), r)
<1> DEFINE kept == Remember(log, r, n)
           q == AtMost(m + 1, max)
           gone == IF Len(log) = n THEN 1 ELSE 0
<1>1. /\ Len(kept) = Len(log) + 1 - gone
      /\ \A k \in 1..Len(log) - gone : kept[k] = log[k + gone]
      /\ kept[Len(kept)] = r
  BY RememberShape
<1>2. q \in Nat /\ q <= m + 1 /\ q <= n
  BY DEF AtMost
<1>3. Len(log) >= m /\ \A k \in Len(log) - m + 1..Len(log) : log[k] = r
  BY DEF LastAre
<1>4. Len(log) \in Nat /\ gone \in 0..1
  BY LenProperties
<1> HIDE DEF kept, q
<1>5. Len(kept) >= q
  BY <1>1, <1>2, <1>3, <1>4
<1>6. ASSUME NEW k \in Len(kept) - q + 1..Len(kept) PROVE kept[k] = r
  <2>1. CASE k = Len(kept)
    BY <1>1, <2>1
  <2>2. CASE k # Len(kept)
    <3>1. k \in 1..Len(log) - gone
      BY <1>1, <1>2, <1>4, <1>5, <2>2
    <3>2. k + gone \in Len(log) - m + 1..Len(log)
      BY <1>1, <1>2, <1>4, <3>1
    <3> QED BY <1>1, <1>3, <3>1, <3>2
  <2> QED BY <2>1, <2>2
<1> QED BY <1>5, <1>6 DEF LastAre, kept, q
-----------------------------------------------------------------------------
LEMMA Thresholds ==
    /\ FailureThreshold \in Nat \ {0} /\ SuccessThreshold \in Nat \ {0}
    /\ HalfOpenMax \in Nat /\ Timeout \in Nat
  BY FailoverAssumption

LEMMA Zeros ==
    /\ 0 \in 0..FailureThreshold /\ 0 \in 0..SuccessThreshold
    /\ 0 \in 0..Timeout /\ 0 \in 0..HalfOpenMax
    /\ 0 \in Nat /\ 1 \in Nat
  BY Thresholds

(* A run of no results is at the end of every log. *)
LEMMA NoRun ==
    ASSUME NEW log \in Seq(BOOLEAN), NEW r
    PROVE  LastAre(log, 0, r)
<1>1. Len(log) \in Nat
  BY LenProperties
<1> QED BY <1>1 DEF LastAre

(* A breaker by its fields. *)
LEMMA BreakerFields ==
    ASSUME NEW b \in BreakerType
    PROVE  /\ b = [state |-> b.state, fails |-> b.fails, succs |-> b.succs,
                   age |-> b.age, probes |-> b.probes, granted |-> b.granted,
                   log |-> b.log]
           /\ b.state \in {"closed", "open", "half_open"}
           /\ b.fails \in 0..FailureThreshold /\ b.succs \in 0..SuccessThreshold
           /\ b.age \in 0..Timeout /\ b.probes \in 0..HalfOpenMax
           /\ b.granted \in Nat /\ b.log \in Seq(BOOLEAN)
  BY DEF BreakerType

LEMMA OpenedFields ==
    ASSUME NEW b \in BreakerType
    PROVE  /\ Opened(b) \in BreakerType
           /\ Opened(b).state = "open" /\ Opened(b).granted = 0
           /\ Opened(b).fails = b.fails /\ Opened(b).succs = b.succs
           /\ Opened(b).age = b.age /\ Opened(b).log = b.log
<1>1. Opened(b) \in BreakerType
  BY Thresholds DEF BreakerType, Opened
<1>2. /\ Opened(b).state = "open" /\ Opened(b).granted = 0
      /\ Opened(b).fails = b.fails /\ Opened(b).succs = b.succs
      /\ Opened(b).age = b.age /\ Opened(b).log = b.log
  BY Thresholds DEF BreakerType, Opened
<1> QED BY <1>1, <1>2

LEMMA ClosedFields ==
    ASSUME NEW b \in BreakerType
    PROVE  /\ Closed(b) \in BreakerType
           /\ Closed(b).state = "closed" /\ Closed(b).granted = 0
           /\ Closed(b).fails = 0 /\ Closed(b).succs = 0
           /\ Closed(b).age = b.age /\ Closed(b).log = b.log
<1>1. Closed(b) \in BreakerType
  BY Zeros DEF BreakerType, Closed
<1>2. /\ Closed(b).state = "closed" /\ Closed(b).granted = 0
      /\ Closed(b).fails = 0 /\ Closed(b).succs = 0
      /\ Closed(b).age = b.age /\ Closed(b).log = b.log
  BY Thresholds DEF BreakerType, Closed
<1> QED BY <1>1, <1>2

LEMMA HalfOpenedFields ==
    ASSUME NEW b \in BreakerType
    PROVE  /\ HalfOpened(b) \in BreakerType
           /\ HalfOpened(b).state = "half_open" /\ HalfOpened(b).granted = 1
           /\ HalfOpened(b).probes = 0
           /\ HalfOpened(b).fails = b.fails /\ HalfOpened(b).succs = b.succs
           /\ HalfOpened(b).age = b.age /\ HalfOpened(b).log = b.log
<1>1. HalfOpened(b) \in BreakerType
  BY Zeros DEF BreakerType, HalfOpened
<1>2. /\ HalfOpened(b).state = "half_open" /\ HalfOpened(b).granted = 1
      /\ HalfOpened(b).probes = 0
      /\ HalfOpened(b).fails = b.fails /\ HalfOpened(b).succs = b.succs
      /\ HalfOpened(b).age = b.age /\ HalfOpened(b).log = b.log
  BY Thresholds DEF BreakerType, HalfOpened
<1> QED BY <1>1, <1>2

LEMMA OlderFields ==
    ASSUME NEW b \in BreakerType
    PROVE  /\ Older(b) \in BreakerType
           /\ Older(b).state = b.state /\ Older(b).granted = b.granted
           /\ Older(b).probes = b.probes
           /\ Older(b).fails = b.fails /\ Older(b).succs = b.succs
           /\ Older(b).log = b.log
<1>1. Older(b) \in BreakerType
  BY Thresholds DEF BreakerType, Older, AtMost
<1>2. /\ Older(b).state = b.state /\ Older(b).granted = b.granted
      /\ Older(b).probes = b.probes
      /\ Older(b).fails = b.fails /\ Older(b).succs = b.succs
      /\ Older(b).log = b.log
  BY Thresholds DEF BreakerType, Older, AtMost
<1> QED BY <1>1, <1>2

(* A new breaker is in order, and so is one an operator forced. *)
LEMMA NewBreakerOK == BreakerOK(NewBreaker)
<1>1. <<>> \in Seq(BOOLEAN) /\ Len(<<>>) = 0
  BY EmptySeq
<1>2. Runs(<<>>, 0, 0)
  <2>1. LastAre(<<>>, 0, FALSE) /\ LastAre(<<>>, 0, TRUE)
    BY <1>1, NoRun
  <2>2. Len(<<>>) <= LogLength
    BY <1>1, LogLengthBounds
  <2> QED BY <2>1, <2>2, Zenon DEF Runs
<1>3. NewBreaker \in BreakerType
  BY <1>1, Thresholds DEF NewBreaker, BreakerType
<1> QED BY <1>1, <1>2, <1>3, Thresholds, LogLengthBounds DEF BreakerOK, NewBreaker

LEMMA OpenedOK ==
    ASSUME NEW b, BreakerOK(b)
    PROVE  BreakerOK(Opened(b))
  BY OpenedFields DEF BreakerOK

LEMMA ClosedOK ==
    ASSUME NEW b, BreakerOK(b)
    PROVE  BreakerOK(Closed(b))
<1>1. Runs(b.log, 0, 0)
  BY NoRun, BreakerFields DEF BreakerOK, Runs
<1> QED BY <1>1, Thresholds, ClosedFields DEF BreakerOK

LEMMA OlderOK ==
    ASSUME NEW b, BreakerOK(b)
    PROVE  BreakerOK(Older(b))
  BY OlderFields DEF BreakerOK

(* What can_execute leaves behind, if it answers True. *)
LEMMA GrantedOK ==
    ASSUME NEW b, BreakerOK(b), CanExecute(b)
    PROVE  /\ BreakerOK(Granted(b))
           /\ b.state = "closed" => Granted(b) = b
           /\ b.state = "open" => b.age = Timeout
           /\ b.state # "closed" => Granted(b).state = "half_open"
<1>1. CASE b.state = "closed"
  BY <1>1 DEF Granted
<1>2. CASE b.state = "open"
  <2>1. Granted(b) = HalfOpened(b) /\ b.age = Timeout
    BY <1>2 DEF Granted, CanExecute
  <2> QED BY <1>2, <2>1, HalfOpenedFields DEF BreakerOK
<1>3. CASE b.state = "half_open"
  <2> DEFINE g == [b EXCEPT !.probes = @ + 1, !.granted = @ + 1]
  <2>1. Granted(b) = g /\ b.probes < HalfOpenMax
    BY <1>3 DEF Granted, CanExecute
  <2>2. b \in BreakerType /\ b.probes \in 0..HalfOpenMax /\ b.granted \in Nat
    BY BreakerFields DEF BreakerOK
  <2>3. /\ g.state = b.state
        /\ g.probes = b.probes + 1 /\ g.granted = b.granted + 1
        /\ g.fails = b.fails /\ g.succs = b.succs /\ g.log = b.log
    BY <2>2 DEF BreakerType
  <2>4. g \in BreakerType
    <3>1. b.probes + 1 \in 0..HalfOpenMax /\ b.granted + 1 \in Nat
      BY <2>1, <2>2, Thresholds
    <3> QED BY <2>2, <3>1 DEF BreakerType
  <2> HIDE DEF g
  <2> QED BY <1>3, <2>1, <2>2, <2>3, <2>4 DEF BreakerOK
<1> QED BY <1>1, <1>2, <1>3, BreakerFields DEF BreakerOK

(* The log after a result, and the runs at its end. *)
LEMMA RunsAfterSuccess ==
    ASSUME NEW log \in Seq(BOOLEAN), NEW fails \in Nat, NEW succs \in Nat,
           Runs(log, fails, succs)
    PROVE  /\ Remember(log, TRUE, LogLength) \in Seq(BOOLEAN)
           /\ Runs(Remember(log, TRUE, LogLength), 0,
                   AtMost(succs + 1, SuccessThreshold))
<1> DEFINE kept == Remember(log, TRUE, LogLength)
<1>1. Len(log) <= LogLength /\ LastAre(log, succs, TRUE)
  BY DEF Runs
<1>2. LastAre(kept, AtMost(succs + 1, SuccessThreshold), TRUE)
  BY <1>1, LogLengthBounds, Thresholds, RememberRun
<1>3. kept \in Seq(BOOLEAN)
  BY <1>1, LogLengthBounds, RememberShape
<1>4. Len(kept) <= LogLength
  BY <1>1, LogLengthBounds, RememberLength
<1>5. LastAre(kept, 0, FALSE)
  BY <1>3, NoRun
<1> QED BY <1>2, <1>3, <1>4, <1>5, Zenon DEF Runs

LEMMA RunsAfterFailure ==
    ASSUME NEW log \in Seq(BOOLEAN), NEW fails \in Nat, NEW succs \in Nat,
           Runs(log, fails, succs)
    PROVE  /\ Remember(log, FALSE, LogLength) \in Seq(BOOLEAN)
           /\ Runs(Remember(log, FALSE, LogLength),
                   AtMost(fails + 1, FailureThreshold), 0)
<1> DEFINE kept == Remember(log, FALSE, LogLength)
<1>1. Len(log) <= LogLength /\ LastAre(log, fails, FALSE)
  BY DEF Runs
<1>2. LastAre(kept, AtMost(fails + 1, FailureThreshold), FALSE)
  BY <1>1, LogLengthBounds, Thresholds, RememberRun
<1>3. kept \in Seq(BOOLEAN)
  BY <1>1, LogLengthBounds, RememberShape
<1>4. Len(kept) <= LogLength
  BY <1>1, LogLengthBounds, RememberLength
<1>5. LastAre(kept, 0, TRUE)
  BY <1>3, NoRun
<1> QED BY <1>2, <1>3, <1>4, <1>5, Zenon DEF Runs

(* A success closes a half-open breaker, once it ends a long enough run. *)
LEMMA RecordSuccessOK ==
    ASSUME NEW b, BreakerOK(b)
    PROVE  LET c == RecordSuccess(b)
           IN  /\ BreakerOK(c)
               /\ \/ c.state = b.state
                  \/ /\ b.state = "half_open" /\ c.state = "closed"
                     /\ LastAre(c.log, SuccessThreshold, TRUE)
<1> DEFINE log == Remember(b.log, TRUE, LogLength)
           succs == AtMost(b.succs + 1, SuccessThreshold)
           c == [b EXCEPT !.fails = 0,
                          !.succs = AtMost(@ + 1, SuccessThreshold),
                          !.log = Remember(@, TRUE, LogLength)]
<1>1. b \in BreakerType /\ b.log \in Seq(BOOLEAN) /\ b.fails \in Nat /\ b.succs \in Nat
      /\ b.succs \in 0..SuccessThreshold
  BY BreakerFields, Thresholds DEF BreakerOK
<1>2. log \in Seq(BOOLEAN) /\ Runs(log, 0, succs)
  BY <1>1, RunsAfterSuccess DEF BreakerOK
<1>3. succs \in 0..SuccessThreshold
  BY <1>1, Thresholds DEF AtMost
<1>4. RecordSuccess(b) = IF c.state = "half_open" /\ c.succs >= SuccessThreshold
                         THEN Closed(c) ELSE c
  BY DEF RecordSuccess
<1>5. /\ c.state = b.state /\ c.probes = b.probes /\ c.granted = b.granted
      /\ c.fails = 0 /\ c.succs = succs /\ c.log = log
  BY <1>1 DEF BreakerType
<1> HIDE DEF log, succs
<1>6. c \in BreakerType
  BY <1>1, <1>2, <1>3, Zeros DEF BreakerType, log, succs
<1> HIDE DEF c
<1>7. BreakerOK(c)
  BY <1>2, <1>5, <1>6, Thresholds DEF BreakerOK
<1>8. CASE c.state = "half_open" /\ c.succs >= SuccessThreshold
  <2>1. c.succs = SuccessThreshold
    BY <1>3, <1>5, <1>8, Thresholds
  <2>2. LastAre(c.log, SuccessThreshold, TRUE)
    BY <1>2, <1>5, <2>1 DEF Runs
  <2>3. RecordSuccess(b) = Closed(c)
    BY <1>4, <1>8
  <2>4. BreakerOK(Closed(c)) /\ Closed(c).state = "closed" /\ Closed(c).log = c.log
    BY <1>6, <1>7, ClosedOK, ClosedFields
  <2>5. b.state = "half_open"
    BY <1>5, <1>8
  <2> QED BY <2>2, <2>3, <2>4, <2>5, Zenon
<1>9. CASE ~(c.state = "half_open" /\ c.succs >= SuccessThreshold)
  BY <1>4, <1>5, <1>7, <1>9
<1> QED BY <1>8, <1>9

(* A failure opens a closed breaker, once it ends a long enough run, and    *)
(* a half-open one; and the timeout starts again.                           *)
LEMMA RecordFailureOK ==
    ASSUME NEW b, BreakerOK(b)
    PROVE  LET c == RecordFailure(b)
           IN  /\ BreakerOK(c)
               /\ c.age = 0
               /\ \/ c.state = b.state /\ b.state # "half_open"
                  \/ /\ b.state = "closed" /\ c.state = "open"
                     /\ LastAre(c.log, FailureThreshold, FALSE)
                  \/ /\ b.state = "half_open" /\ c.state = "open"
                     /\ LastAre(c.log, 1, FALSE)
<1> DEFINE log == Remember(b.log, FALSE, LogLength)
           fails == AtMost(b.fails + 1, FailureThreshold)
           c == [b EXCEPT !.succs = 0,
                          !.fails = AtMost(@ + 1, FailureThreshold),
                          !.age = 0,
                          !.log = Remember(@, FALSE, LogLength)]
<1>1. b \in BreakerType /\ b.log \in Seq(BOOLEAN) /\ b.fails \in Nat /\ b.succs \in Nat
      /\ b.state \in {"closed", "open", "half_open"}
      /\ b.fails \in 0..FailureThreshold
  BY BreakerFields, Thresholds DEF BreakerOK
<1>2. log \in Seq(BOOLEAN) /\ Runs(log, fails, 0)
  BY <1>1, RunsAfterFailure DEF BreakerOK
<1>3. fails \in 0..FailureThreshold /\ fails >= 1
  BY <1>1, Thresholds DEF AtMost
<1>4. RecordFailure(b) = IF \/ c.state = "closed" /\ c.fails >= FailureThreshold
                            \/ c.state = "half_open"
                         THEN Opened(c) ELSE c
  BY DEF RecordFailure
<1>5. /\ c.state = b.state /\ c.probes = b.probes /\ c.granted = b.granted
      /\ c.fails = fails /\ c.succs = 0 /\ c.log = log /\ c.age = 0
  BY <1>1 DEF BreakerType
<1> HIDE DEF log, fails
<1>6. c \in BreakerType
  BY <1>1, <1>2, <1>3, Zeros DEF BreakerType, log, fails
<1> HIDE DEF c
<1>7. LastAre(log, fails, FALSE) /\ LastAre(log, 1, FALSE)
  <2>1. LastAre(log, fails, FALSE)
    BY <1>2 DEF Runs
  <2>2. Len(log) \in Nat
    BY <1>2, LenProperties
  <2> QED BY <1>3, <2>1, <2>2 DEF LastAre
<1>8. CASE c.state = "closed" /\ c.fails >= FailureThreshold
  <2>1. c.fails = FailureThreshold
    BY <1>3, <1>5, <1>8, Thresholds
  <2>2. LastAre(c.log, FailureThreshold, FALSE)
    BY <1>5, <1>7, <2>1
  <2>3. RecordFailure(b) = Opened(c)
    BY <1>4, <1>8
  <2>4. /\ Opened(c) \in BreakerType
        /\ Opened(c).state = "open" /\ Opened(c).granted = 0
        /\ Opened(c).fails = c.fails /\ Opened(c).succs = c.succs
        /\ Opened(c).age = c.age /\ Opened(c).log = c.log
    BY <1>6, OpenedFields
  <2>5. BreakerOK(Opened(c))
    BY <1>2, <1>5, <2>4 DEF BreakerOK
  <2>6. b.state = "closed" /\ c.age = 0
    BY <1>5, <1>8
  <2>7. Opened(c).age = 0 /\ LastAre(Opened(c).log, FailureThreshold, FALSE)
    BY <2>2, <2>4, <2>6, Zenon
  <2> QED BY <2>3, <2>4, <2>5, <2>6, <2>7, Zenon
<1>9. CASE c.state = "half_open"
  <2>1. LastAre(c.log, 1, FALSE)
    BY <1>5, <1>7
  <2>2. RecordFailure(b) = Opened(c)
    BY <1>4, <1>9
  <2>3. /\ Opened(c) \in BreakerType
        /\ Opened(c).state = "open" /\ Opened(c).granted = 0
        /\ Opened(c).fails = c.fails /\ Opened(c).succs = c.succs
        /\ Opened(c).age = c.age /\ Opened(c).log = c.log
    BY <1>6, OpenedFields
  <2>4. BreakerOK(Opened(c))
    BY <1>2, <1>5, <2>3 DEF BreakerOK
  <2>5. b.state = "half_open" /\ c.age = 0
    BY <1>5, <1>9
  <2>6. Opened(c).age = 0 /\ LastAre(Opened(c).log, 1, FALSE)
    BY <2>1, <2>3, <2>5, Zenon
  <2> QED BY <2>2, <2>3, <2>4, <2>5, <2>6, Zenon
<1>10. CASE /\ ~(c.state = "closed" /\ c.fails >= FailureThreshold)
            /\ c.state # "half_open"
  <2>1. RecordFailure(b) = c
    BY <1>4, <1>10
  <2>2. BreakerOK(c)
    <3>1. c.state = "closed" => c.fails < FailureThreshold
      BY <1>3, <1>5, <1>10, Thresholds
    <3> QED BY <1>2, <1>5, <1>6, <1>10, <3>1 DEF BreakerOK
  <2> QED BY <1>5, <1>10, <2>1, <2>2
<1> QED BY <1>8, <1>9, <1>10
-----------------------------------------------------------------------------
AllOK(bs) == DOMAIN bs = Instances /\ \A i \in Instances : BreakerOK(bs[i])

(* What asking a breaker, however often, does to it. *)
AskStep(b, c) ==
    \/ c = b
    \/ /\ b.state # "closed" /\ c.state = "half_open"
       /\ b.state = "open" => b.age = Timeout

Step(b, c) == c.state = b.state \/ BreakerMoves(b, c)

LEMMA AskStepIsStep ==
    ASSUME NEW b, NEW c, BreakerOK(b), AskStep(b, c)
    PROVE  Step(b, c)
<1>1. b.state \in {"closed", "open", "half_open"}
  BY BreakerFields DEF BreakerOK
<1>2. CASE b.state = "open" /\ c.state = "half_open" /\ b.age = Timeout
  BY <1>2 DEF Step, BreakerMoves
<1>3. CASE c.state = b.state
  BY <1>3 DEF Step
<1> QED BY <1>1, <1>2, <1>3 DEF AskStep

LEMMA RecordSuccessStep ==
    ASSUME NEW b, BreakerOK(b)
    PROVE  Step(b, RecordSuccess(b))
<1> DEFINE c == RecordSuccess(b)
<1>1. \/ c.state = b.state
      \/ /\ b.state = "half_open" /\ c.state = "closed"
         /\ LastAre(c.log, SuccessThreshold, TRUE)
  BY RecordSuccessOK
<1> HIDE DEF c
<1>2. CASE /\ b.state = "half_open" /\ c.state = "closed"
           /\ LastAre(c.log, SuccessThreshold, TRUE)
  <2>1. BreakerMoves(b, c)
    BY <1>2 DEF BreakerMoves
  <2> QED BY <2>1 DEF Step, c
<1>3. CASE c.state = b.state
  BY <1>3 DEF Step, c
<1> QED BY <1>1, <1>2, <1>3

LEMMA RecordFailureStep ==
    ASSUME NEW b, BreakerOK(b)
    PROVE  Step(b, RecordFailure(b))
<1> DEFINE c == RecordFailure(b)
<1>1. \/ c.state = b.state
      \/ /\ b.state = "closed" /\ c.state = "open"
         /\ LastAre(c.log, FailureThreshold, FALSE)
      \/ /\ b.state = "half_open" /\ c.state = "open"
         /\ LastAre(c.log, 1, FALSE)
  BY RecordFailureOK
<1> HIDE DEF c
<1>2. CASE /\ b.state = "closed" /\ c.state = "open"
           /\ LastAre(c.log, FailureThreshold, FALSE)
  <2>1. BreakerMoves(b, c)
    BY <1>2 DEF BreakerMoves
  <2> QED BY <2>1 DEF Step, c
<1>3. CASE /\ b.state = "half_open" /\ c.state = "open"
           /\ LastAre(c.log, 1, FALSE)
  <2>1. BreakerMoves(b, c)
    BY <1>3 DEF BreakerMoves
  <2> QED BY <2>1 DEF Step, c
<1>4. CASE c.state = b.state
  BY <1>4 DEF Step, c
<1> QED BY <1>1, <1>2, <1>3, <1>4

(* Asking once, asking twice, and asking after a failure was recorded. *)
LEMMA AskedOK ==
    ASSUME NEW bs, AllOK(bs), NEW j
    PROVE  AllOK(Asked(bs, j)) /\ \A i \in Instances : AskStep(bs[i], Asked(bs, j)[i])
<1>1. CASE Available(bs, j)
  <2>1. Asked(bs, j) = [bs EXCEPT ![j] = Granted(bs[j])]
    BY <1>1 DEF Asked
  <2>2. CanExecute(bs[j])
    BY <1>1 DEF Available
  <2>3. DOMAIN Asked(bs, j) = Instances
    BY <2>1 DEF AllOK
  <2>4. ASSUME NEW i \in Instances
        PROVE  BreakerOK(Asked(bs, j)[i]) /\ AskStep(bs[i], Asked(bs, j)[i])
    <3>1. CASE i = j
      <4>1. Asked(bs, j)[i] = Granted(bs[i]) /\ CanExecute(bs[i]) /\ BreakerOK(bs[i])
        BY <2>1, <2>2, <3>1 DEF AllOK
      <4>2. bs[i].state \in {"closed", "open", "half_open"}
        BY <4>1, BreakerFields DEF BreakerOK
      <4> QED BY <4>1, <4>2, GrantedOK DEF AskStep
    <3>2. CASE i # j
      <4>1. Asked(bs, j)[i] = bs[i]
        BY <2>1, <3>2 DEF AllOK
      <4> QED BY <4>1 DEF AskStep, AllOK
    <3> QED BY <3>1, <3>2
  <2> QED BY <2>3, <2>4 DEF AllOK
<1>2. CASE ~Available(bs, j)
  BY <1>2 DEF Asked, AskStep
<1> QED BY <1>1, <1>2

LEMMA AskTwice ==
    ASSUME NEW b, NEW c, NEW d, AskStep(b, c), AskStep(c, d)
    PROVE  AskStep(b, d)
  BY DEF AskStep

LEMMA AskAfterFailure ==
    ASSUME NEW b, NEW c, Timeout # 0, BreakerOK(b), AskStep(RecordFailure(b), c)
    PROVE  c = RecordFailure(b)
<1> DEFINE f == RecordFailure(b)
<1>1. f.age = 0 /\ (f.state = "open" \/ (f.state = b.state /\ b.state # "half_open"))
  BY RecordFailureOK
<1>2. b.state \in {"closed", "open", "half_open"}
  BY BreakerFields DEF BreakerOK
<1> HIDE DEF f
<1>3. ~(f.state # "closed" /\ (f.state = "open" => f.age = Timeout))
  BY <1>1, <1>2
<1> QED BY <1>3 DEF AskStep, f

LEMMA TryNextOK ==
    ASSUME NEW c, NEW bs, NEW todo, AllOK(bs), TryNext(c, bs, todo)
    PROVE  AllOK(breaker') /\ \A i \in Instances : AskStep(bs[i], breaker'[i])
<1>1. PICK j : breaker' = bs \/ breaker' = Asked(bs, j)
  BY DEF TryNext
<1>2. CASE breaker' = bs
  BY <1>2 DEF AskStep
<1>3. CASE breaker' = Asked(bs, j)
  BY <1>3, AskedOK
<1> QED BY <1>1, <1>2, <1>3
-----------------------------------------------------------------------------
(* Recording a result with the breaker of one instance. *)
LEMMA SuccessRecorded ==
    ASSUME BreakersOK, NEW j
    PROVE  LET bs == Recorded(j, RecordSuccess(breaker[j]))
           IN  AllOK(bs) /\ \A i \in Instances : Step(breaker[i], bs[i])
<1> DEFINE bs == Recorded(j, RecordSuccess(breaker[j]))
<1>1. bs = IF j \in Registered THEN [breaker EXCEPT ![j] = RecordSuccess(breaker[j])]
           ELSE breaker
  BY DEF Recorded
<1> HIDE DEF bs
<1>2. DOMAIN bs = Instances
  BY <1>1 DEF BreakersOK
<1>3. ASSUME NEW i \in Instances
      PROVE  BreakerOK(bs[i]) /\ Step(breaker[i], bs[i])
  <2>1. BreakerOK(breaker[i])
    BY DEF BreakersOK
  <2>2. CASE bs[i] = breaker[i]
    BY <2>1, <2>2 DEF Step
  <2>3. CASE bs[i] = RecordSuccess(breaker[i])
    BY <2>1, <2>3, RecordSuccessOK, RecordSuccessStep
  <2>4. bs[i] = breaker[i] \/ bs[i] = RecordSuccess(breaker[i])
    BY <1>1 DEF BreakersOK
  <2> QED BY <2>2, <2>3, <2>4
<1> QED BY <1>2, <1>3 DEF AllOK, bs

LEMMA FailureRecorded ==
    ASSUME BreakersOK, NEW j
    PROVE  LET bs == Recorded(j, RecordFailure(breaker[j]))
           IN  /\ AllOK(bs)
               /\ \A i \in Instances :
                    bs[i] = breaker[i] \/ bs[i] = RecordFailure(breaker[i])
<1> DEFINE bs == Recorded(j, RecordFailure(breaker[j]))
<1>1. bs = IF j \in Registered THEN [breaker EXCEPT ![j] = RecordFailure(breaker[j])]
           ELSE breaker
  BY DEF Recorded
<1> HIDE DEF bs
<1>2. DOMAIN bs = Instances
  BY <1>1 DEF BreakersOK
<1>3. ASSUME NEW i \in Instances
      PROVE  BreakerOK(bs[i]) /\ (bs[i] = breaker[i] \/ bs[i] = RecordFailure(breaker[i]))
  <2>1. bs[i] = breaker[i] \/ bs[i] = RecordFailure(breaker[i])
    BY <1>1 DEF BreakersOK
  <2>2. BreakerOK(breaker[i])
    BY DEF BreakersOK
  <2> QED BY <2>1, <2>2, RecordFailureOK
<1> QED BY <1>2, <1>3 DEF AllOK, bs

(* Every step keeps the breakers in order and, unless it is an operator's,  *)
(* moves them as their results say.                                         *)
Obedient == Timeout # 0 /\ admin' = admin =>
                \A i \in Instances : Step(breaker[i], breaker'[i])

LEMMA CallSteps ==
    ASSUME BreakersOK, NEW c \in Callers, Calls(c)
    PROVE  BreakersOK' /\ Obedient
<1> USE DEF AllOK
<1>1. ASSUME NEW i \in Instances, StartCall(c, i) PROVE BreakersOK' /\ Obedient
  <2> DEFINE fallback == GetFallback(i)
             bs == IF fallback = <<>> THEN breaker ELSE Asked(breaker, Head(fallback))
  <2>1. TryNext(c, bs, <<i>> \o fallback)
    BY <1>1 DEF StartCall
  <2>2. AllOK(bs) /\ \A k \in Instances : AskStep(breaker[k], bs[k])
    <3>1. CASE fallback = <<>>
      BY <3>1 DEF BreakersOK, AskStep
    <3>2. CASE fallback # <<>>
      BY <3>2, AskedOK DEF BreakersOK
    <3> QED BY <3>1, <3>2
  <2> HIDE DEF bs, fallback
  <2>3. AllOK(breaker') /\ \A k \in Instances : AskStep(bs[k], breaker'[k])
    BY <2>1, <2>2, TryNextOK
  <2>4. \A k \in Instances : AskStep(breaker[k], breaker'[k])
    BY <2>2, <2>3, AskTwice
  <2> QED BY <2>3, <2>4, AskStepIsStep DEF BreakersOK, Obedient
<1>2. CASE OpSucceeds(c)
  <2> DEFINE i == Head(call[c].at)
  <2>1. breaker' = Recorded(i, RecordSuccess(breaker[i]))
    BY <1>2 DEF OpSucceeds
  <2> HIDE DEF i
  <2> QED BY <2>1, SuccessRecorded DEF BreakersOK, Obedient
<1>3. CASE OpFails(c)
  <2> DEFINE j == Head(call[c].at)
             failed == Recorded(j, RecordFailure(breaker[j]))
  <2>1. breaker' = failed \/ TryNext(c, failed, call[c].todo)
    BY <1>3 DEF OpFails
  <2>2. /\ AllOK(failed)
        /\ \A i \in Instances :
                failed[i] = breaker[i] \/ failed[i] = RecordFailure(breaker[i])
    BY FailureRecorded
  <2> HIDE DEF failed
  <2>3. AllOK(breaker') /\ \A i \in Instances : AskStep(failed[i], breaker'[i])
    BY <2>1, <2>2, TryNextOK DEF AskStep
  <2>4. ASSUME Timeout # 0, NEW i \in Instances PROVE Step(breaker[i], breaker'[i])
    <3>1. BreakerOK(breaker[i]) /\ AskStep(failed[i], breaker'[i])
      BY <2>3 DEF BreakersOK
    <3>2. CASE failed[i] = breaker[i]
      BY <3>1, <3>2, AskStepIsStep
    <3>3. CASE failed[i] = RecordFailure(breaker[i])
      BY <2>4, <3>1, <3>3, AskAfterFailure, RecordFailureStep
    <3> QED BY <2>2, <3>2, <3>3
  <2> QED BY <2>3, <2>4 DEF BreakersOK, Obedient
<1>4. CASE DelayOver(c)
  BY <1>4 DEF DelayOver, BreakersOK, Obedient, Step
<1>5. CASE Cancelled(c)
  BY <1>5 DEF Cancelled, BreakersOK, Obedient, Step
<1> QED BY <1>1, <1>2, <1>3, <1>4, <1>5 DEF Calls

LEMMA OtherSteps ==
    ASSUME BreakersOK, Checks \/ AskAll \/ Tick
    PROVE  BreakersOK' /\ Obedient
<1>1. CASE Checks
  BY <1>1 DEF Checks, BeginPass, CheckEnds, BreakersOK, Obedient, Step
<1>2. CASE AskAll
  <2>1. AllOK(breaker)
    BY DEF BreakersOK, AllOK
  <2>2. ASSUME NEW i \in Instances
        PROVE  breaker'[i] = breaker[i] \/ breaker'[i] = Asked(breaker, i)[i]
    BY <1>2 DEF AskAll
  <2>3. ASSUME NEW i \in Instances
        PROVE  BreakerOK(breaker'[i]) /\ Step(breaker[i], breaker'[i])
    <3>1. BreakerOK(breaker[i])
      BY DEF BreakersOK
    <3>2. BreakerOK(Asked(breaker, i)[i]) /\ AskStep(breaker[i], Asked(breaker, i)[i])
      BY <2>1, AskedOK DEF AllOK
    <3> QED BY <2>2, <3>1, <3>2, AskStepIsStep DEF Step
  <2>4. DOMAIN breaker' = Instances
    BY <1>2 DEF AskAll
  <2> QED BY <2>3, <2>4 DEF BreakersOK, Obedient
<1>3. CASE Tick
  <2>1. ASSUME NEW i \in Instances
        PROVE  BreakerOK(breaker'[i]) /\ Step(breaker[i], breaker'[i])
    <3>1. breaker'[i] = Older(breaker[i]) /\ BreakerOK(breaker[i])
      BY <1>3 DEF Tick, BreakersOK
    <3>2. Older(breaker[i]).state = breaker[i].state
      BY <3>1, OlderFields DEF BreakerOK
    <3> QED BY <3>1, <3>2, OlderOK DEF Step
  <2>2. DOMAIN breaker' = Instances
    BY <1>3 DEF Tick
  <2> QED BY <2>1, <2>2 DEF BreakersOK, Obedient
<1> QED BY <1>1, <1>2, <1>3

LEMMA OperatorSteps ==
    ASSUME BreakersOK, Operator, admin \in Nat
    PROVE  BreakersOK' /\ admin' # admin
<1>1. admin' = admin + 1
  BY DEF Operator, RegisterInstance, UnregisterInstance, ForceOpen, ForceClose, Reset,
         Forced, StartChecker, StopChecker, OperatorStep
<1>2. ASSUME NEW j \in Instances,
             \/ breaker' = [breaker EXCEPT ![j] = NewBreaker]
             \/ breaker' = [breaker EXCEPT ![j] = Opened(breaker[j])]
             \/ breaker' = [breaker EXCEPT ![j] = Closed(breaker[j])]
      PROVE  BreakersOK'
  <2>1. DOMAIN breaker' = Instances
    BY <1>2 DEF BreakersOK
  <2>2. ASSUME NEW i \in Instances PROVE BreakerOK(breaker'[i])
    <3>1. BreakerOK(breaker[i])
      BY DEF BreakersOK
    <3>2. breaker'[i] \in {breaker[i], NewBreaker, Opened(breaker[i]), Closed(breaker[i])}
      BY <1>2 DEF BreakersOK
    <3> QED BY <3>1, <3>2, NewBreakerOK, OpenedOK, ClosedOK
  <2> QED BY <2>1, <2>2 DEF BreakersOK
<1>3. ASSUME NEW i \in Instances, RegisterInstance(i) \/ UnregisterInstance(i)
      PROVE  BreakersOK'
  <2>1. breaker' = [breaker EXCEPT ![i] = NewBreaker]
    BY <1>3 DEF RegisterInstance, UnregisterInstance
  <2> QED BY <1>2, <2>1
<1>4. ASSUME NEW i \in Instances, ForceOpen(i) \/ ForceClose(i) \/ Reset(i)
      PROVE  BreakersOK'
  <2>1. \/ breaker' = [breaker EXCEPT ![i] = NewBreaker]
        \/ breaker' = [breaker EXCEPT ![i] = Opened(breaker[i])]
        \/ breaker' = [breaker EXCEPT ![i] = Closed(breaker[i])]
    BY <1>4 DEF ForceOpen, ForceClose, Reset, Forced
  <2> QED BY <1>2, <2>1
<1>5. ASSUME StartChecker \/ StopChecker PROVE BreakersOK'
  BY <1>5 DEF StartChecker, StopChecker, BreakersOK
<1>6. BreakersOK'
  BY <1>3, <1>4, <1>5 DEF Operator
<1> QED BY <1>1, <1>6

(* The breakers are in order in every state and obey their results in every *)
(* step.                                                                    *)
Inv == BreakersOK /\ admin \in Nat

LEMMA InvHolds == Init => Inv
  BY NewBreakerOK DEF Init, Inv, BreakersOK

LEMMA InvSteps ==
    ASSUME Inv, [Next]_vars
    PROVE  Inv' /\ Obedient
<1> USE DEF Inv
<1>1. CASE \E c \in Callers : Calls(c)
  <2>1. admin' = admin
    BY <1>1 DEF Calls, StartCall, OpSucceeds, OpFails, DelayOver, Cancelled
  <2> QED BY <1>1, <2>1, CallSteps
<1>2. CASE Checks \/ AskAll \/ Tick
  <2>1. admin' = admin
    BY <1>2 DEF Checks, BeginPass, CheckEnds, AskAll, Tick
  <2> QED BY <1>2, <2>1, OtherSteps
<1>3. CASE Operator
  <2>1. admin' = admin + 1
    BY <1>3 DEF Operator, RegisterInstance, UnregisterInstance, ForceOpen, ForceClose,
       Reset, Forced, StartChecker, StopChecker, OperatorStep
  <2>2. BreakersOK' /\ admin' # admin
    BY <1>3, OperatorSteps
  <2> QED BY <2>1, <2>2 DEF Obedient
<1>4. CASE UNCHANGED vars
  BY <1>4 DEF vars, BreakersOK, Obedient, Step
<1> QED BY <1>1, <1>2, <1>3, <1>4 DEF Next

LEMMA Invariance == Spec => []Inv
<1>1. Inv /\ [Next]_vars => Inv'
  BY InvSteps
<1> QED BY InvHolds, <1>1, PTL DEF Spec

(* A half-open breaker lets at most half_open_max_calls calls through after *)
(* the one that half-opened it, for any callers, queries and operators.     *)
THEOREM ProbesStayBounded == Spec => []ProbesBounded
<1>1. Inv => ProbesBounded
  <2> SUFFICES ASSUME Inv, NEW i \in Instances
               PROVE  breaker[i].granted <= HalfOpenMax + 1
    BY DEF ProbesBounded
  <2>1. BreakerOK(breaker[i])
    BY DEF Inv, BreakersOK
  <2>2. breaker[i].probes \in 0..HalfOpenMax /\ breaker[i].granted \in Nat
    BY <2>1, BreakerFields DEF BreakerOK
  <2> QED BY <2>1, <2>2, Thresholds DEF BreakerOK
<1> QED BY Invariance, <1>1, PTL

(* Between two steps of an operator a breaker moves only as the results     *)
(* recorded with it say, whichever callers recorded them.  With a timeout   *)
(* of 0 a call that fails may find its own breaker half open at once.       *)
THEOREM BreakersFollowResults ==
    ASSUME Timeout # 0
    PROVE  Spec => BreakerFollowsResults
<1>1. Inv /\ [Next]_vars =>
        [admin' = admin => \A i \in Instances :
            \/ breaker'[i].state = breaker[i].state
            \/ BreakerMoves(breaker[i], breaker'[i])]_vars
  BY InvSteps DEF Obedient, Step
<1> QED BY Invariance, <1>1, PTL DEF Spec, BreakerFollowsResults

(* A closed breaker has recorded fewer failures in a row than open it.      *)
THEOREM ClosedBelowThreshold ==
    Spec => [](\A i \in Instances :
                breaker[i].state = "closed" => breaker[i].fails < FailureThreshold)
<1>1. Inv => \A i \in Instances :
                breaker[i].state = "closed" => breaker[i].fails < FailureThreshold
  BY DEF Inv, BreakersOK, BreakerOK
<1> QED BY Invariance, <1>1, PTL
-----------------------------------------------------------------------------
(* Health: the counters of an instance are runs at the end of the log of    *)
(* the checks of its present registration.                                  *)
Flag == BOOLEAN
HealthRuns(s) ==
    /\ s.healthy \in Flag
    /\ s.log \in Seq(BOOLEAN) /\ Len(s.log) <= HealthLog
    /\ s.fails \in Nat /\ LastAre(s.log, s.fails, FALSE)
    /\ s.succs \in Nat /\ LastAre(s.log, s.succs, TRUE)

HealthKept ==
    /\ DOMAIN status = Instances
    /\ \A i \in Instances : HealthRuns(status[i])

(* An instance turns sick or well on a run of results only. *)
Deserved(s, t) ==
    \/ t.healthy = s.healthy
    \/ ~ t.healthy /\ LastAre(t.log, SickAfter, FALSE)
    \/ t.healthy /\ LastAre(t.log, WellAfter, TRUE)

LEMMA HealthThresholds ==
    /\ SickAfter \in Nat \ {0} /\ WellAfter \in Nat \ {0}
    /\ HealthLog \in Nat \ {0} /\ SickAfter <= HealthLog /\ WellAfter <= HealthLog
  BY FailoverAssumption DEF HealthLog

LEMMA Flags == TRUE \in Flag /\ FALSE \in Flag
  BY DEF Flag

LEMMA FlagsEqual ==
    ASSUME NEW x \in Flag, NEW y \in Flag, x <=> y
    PROVE  x = y
  BY Zenon DEF Flag

LEMMA NewStatusRuns == HealthRuns(NewStatus)
<1> DEFINE log == <<>>
<1>1. log \in Seq(BOOLEAN) /\ Len(log) = 0
  BY EmptySeq
<1>2. LastAre(log, 0, FALSE) /\ LastAre(log, 0, TRUE)
  BY <1>1, NoRun
<1>3. NewStatus.fails = 0 /\ NewStatus.succs = 0 /\ NewStatus.log = log
  BY DEF NewStatus
<1>5. NewStatus.healthy \in Flag
  BY Flags DEF NewStatus
<1> HIDE DEF log
<1>4. Len(log) <= HealthLog
  BY <1>1, HealthThresholds
<1>6. 0 \in Nat
  OBVIOUS
<1> QED BY <1>1, <1>2, <1>3, <1>4, <1>5, <1>6, Zenon DEF HealthRuns

(* A failed check lengthens the run of failures and ends that of successes. *)
LEMMA FailureCounts ==
    ASSUME NEW s, HealthRuns(s)
    PROVE  HealthRuns(UpdateStatus(s, FALSE)) /\ Deserved(s, UpdateStatus(s, FALSE))
<1> DEFINE log == Remember(s.log, FALSE, HealthLog)
           fails == AtMost(s.fails + 1, SickAfter)
           t == UpdateStatus(s, FALSE)
<1>1. t.log = log /\ t.fails = fails /\ t.succs = 0
  BY DEF UpdateStatus
<1>12. t.healthy = IF s.healthy THEN fails < SickAfter ELSE 0 >= WellAfter
  BY DEF UpdateStatus
<1>13. (fails < SickAfter) \in BOOLEAN /\ (0 >= WellAfter) \in BOOLEAN
  OBVIOUS
<1>2. LastAre(log, fails, FALSE)
  BY HealthThresholds, RememberRun DEF HealthRuns
<1>3. log \in Seq(BOOLEAN)
  BY HealthThresholds, RememberShape DEF HealthRuns
<1>4. Len(log) <= HealthLog
  BY HealthThresholds, RememberLength DEF HealthRuns
<1>5. LastAre(log, 0, TRUE)
  BY <1>3, NoRun
<1>6. fails \in Nat /\ fails <= SickAfter
  BY HealthThresholds DEF AtMost, HealthRuns
<1> HIDE DEF log, fails, t
<1>7. t.healthy \in Flag
  BY <1>12, <1>13, Zenon DEF Flag
<1>8. HealthRuns(t)
  <2>1. t.fails \in Nat /\ t.succs \in Nat
    BY <1>1, <1>6
  <2>2. LastAre(t.log, t.fails, FALSE) /\ LastAre(t.log, t.succs, TRUE)
    BY <1>1, <1>2, <1>5, Zenon
  <2>3. t.log \in Seq(BOOLEAN) /\ Len(t.log) <= HealthLog
    BY <1>1, <1>3, <1>4, Zenon
  <2> QED BY <1>7, <2>1, <2>2, <2>3, Zenon DEF HealthRuns
<1>9. CASE s.healthy /\ ~ t.healthy
  <2>1. ~ (fails < SickAfter)
    BY <1>12, <1>9
  <2>2. fails = SickAfter
    BY <2>1, <1>6, HealthThresholds
  <2> QED BY <1>1, <1>2, <1>8, <1>9, <2>2 DEF Deserved, t
<1>10. CASE ~ s.healthy
  <2>1. ~ (0 >= WellAfter)
    BY HealthThresholds
  <2>2. ~ t.healthy
    BY <1>12, <1>10, <2>1
  <2>3. t.healthy = s.healthy
    BY <1>7, <1>10, <2>2, FlagsEqual DEF HealthRuns
  <2> QED BY <1>8, <2>3 DEF Deserved, t
<1>11. CASE s.healthy /\ t.healthy
  <2>1. t.healthy = s.healthy
    BY <1>7, <1>11, FlagsEqual DEF HealthRuns
  <2> QED BY <1>8, <2>1 DEF Deserved, t
<1> QED BY <1>9, <1>10, <1>11

(* One that succeeds ends the run of failures and lengthens the other. *)
LEMMA SuccessCounts ==
    ASSUME NEW s, HealthRuns(s)
    PROVE  HealthRuns(UpdateStatus(s, TRUE)) /\ Deserved(s, UpdateStatus(s, TRUE))
<1> DEFINE log == Remember(s.log, TRUE, HealthLog)
           succs == AtMost(s.succs + 1, WellAfter)
           t == UpdateStatus(s, TRUE)
<1>1. t.log = log /\ t.fails = 0 /\ t.succs = succs
  BY DEF UpdateStatus
<1>12. t.healthy = IF s.healthy THEN 0 < SickAfter ELSE succs >= WellAfter
  BY DEF UpdateStatus
<1>13. (0 < SickAfter) \in BOOLEAN /\ (succs >= WellAfter) \in BOOLEAN
  OBVIOUS
<1>2. LastAre(log, succs, TRUE)
  BY HealthThresholds, RememberRun DEF HealthRuns
<1>3. log \in Seq(BOOLEAN)
  BY HealthThresholds, RememberShape DEF HealthRuns
<1>4. Len(log) <= HealthLog
  BY HealthThresholds, RememberLength DEF HealthRuns
<1>5. LastAre(log, 0, FALSE)
  BY <1>3, NoRun
<1>6. succs \in Nat /\ succs <= WellAfter
  BY HealthThresholds DEF AtMost, HealthRuns
<1> HIDE DEF log, succs, t
<1>7. t.healthy \in Flag
  BY <1>12, <1>13, Zenon DEF Flag
<1>8. HealthRuns(t)
  <2>1. t.fails \in Nat /\ t.succs \in Nat
    BY <1>1, <1>6
  <2>2. LastAre(t.log, t.fails, FALSE) /\ LastAre(t.log, t.succs, TRUE)
    BY <1>1, <1>2, <1>5, Zenon
  <2>3. t.log \in Seq(BOOLEAN) /\ Len(t.log) <= HealthLog
    BY <1>1, <1>3, <1>4, Zenon
  <2> QED BY <1>7, <2>1, <2>2, <2>3, Zenon DEF HealthRuns
<1>9. CASE s.healthy
  <2>1. 0 < SickAfter
    BY HealthThresholds
  <2>2. t.healthy = s.healthy
    BY <1>12, <1>7, <1>9, <2>1, FlagsEqual DEF HealthRuns
  <2> QED BY <1>8, <2>2 DEF Deserved, t
<1>10. CASE ~ s.healthy /\ ~ t.healthy
  <2>1. t.healthy = s.healthy
    BY <1>7, <1>10, FlagsEqual DEF HealthRuns
  <2> QED BY <1>8, <2>1 DEF Deserved, t
<1>11. CASE ~ s.healthy /\ t.healthy
  <2>1. succs >= WellAfter
    BY <1>12, <1>11
  <2>2. succs = WellAfter
    BY <2>1, <1>6, HealthThresholds
  <2> QED BY <1>1, <1>2, <1>8, <1>11, <2>2 DEF Deserved, t
<1> QED BY <1>9, <1>10, <1>11

LEMMA CheckStep ==
    ASSUME HealthKept, NEW success \in BOOLEAN, CheckEnds(success)
    PROVE  HealthKept' /\ \A i \in Instances : Deserved(status[i], status'[i])
<1> DEFINE at == Head(checker.at)
<1>1. \/ status' = status
      \/ status' = [status EXCEPT ![at] = UpdateStatus(status[at], success)]
  BY DEF CheckEnds, StatusAfter
<1> HIDE DEF at
<1>2. ASSUME NEW i \in Instances
      PROVE  HealthRuns(UpdateStatus(status[i], success))
             /\ Deserved(status[i], UpdateStatus(status[i], success))
  <2>1. HealthRuns(status[i])
    BY DEF HealthKept
  <2> QED BY <2>1, FailureCounts, SuccessCounts
<1>3. DOMAIN status' = Instances
  BY <1>1 DEF HealthKept
<1>4. ASSUME NEW i \in Instances
      PROVE  HealthRuns(status'[i]) /\ Deserved(status[i], status'[i])
  <2>1. status'[i] = status[i] \/ status'[i] = UpdateStatus(status[i], success)
    BY <1>1 DEF HealthKept
  <2>2. HealthRuns(status[i]) /\ Deserved(status[i], status[i])
    BY DEF HealthKept, Deserved
  <2> QED BY <1>2, <2>1, <2>2
<1> QED BY <1>3, <1>4 DEF HealthKept

LEMMA SameHealth ==
    ASSUME HealthKept, status' = status
    PROVE  HealthKept' /\ \A i \in Instances : Deserved(status[i], status'[i])
  BY DEF HealthKept, Deserved

LEMMA HealthStep ==
    ASSUME HealthKept, admin \in Nat, [Next]_vars
    PROVE  /\ HealthKept'
           /\ admin' = admin => \A i \in Instances : Deserved(status[i], status'[i])
<1>1. CASE \E success \in BOOLEAN : CheckEnds(success)
  BY <1>1, CheckStep
<1>2. CASE (\E c \in Callers : Calls(c)) \/ BeginPass \/ AskAll \/ Tick \/ UNCHANGED vars
  <2>1. status' = status
    BY <1>2 DEF Calls, StartCall, OpSucceeds, OpFails, DelayOver, Cancelled, BeginPass,
       AskAll, Tick, vars
  <2> QED BY <2>1, SameHealth
<1>3. CASE Operator
  <2>1. admin' = admin + 1
    BY <1>3 DEF Operator, RegisterInstance, UnregisterInstance, ForceOpen, ForceClose,
       Reset, Forced, StartChecker, StopChecker, OperatorStep
  <2>2. admin' # admin
    BY <2>1
  <2>3. CASE status' = status
    BY <2>2, <2>3, SameHealth
  <2>4. ASSUME NEW j \in Instances, status' = [status EXCEPT ![j] = NewStatus]
        PROVE  HealthKept'
    <3>1. \A i \in Instances : status'[i] = status[i] \/ status'[i] = NewStatus
      BY <2>4 DEF HealthKept
    <3>2. DOMAIN status' = Instances
      BY <2>4 DEF HealthKept
    <3> QED BY <3>1, <3>2, NewStatusRuns DEF HealthKept
  <2>5. status' = status \/ \E j \in Instances : status' = [status EXCEPT ![j] = NewStatus]
    BY <1>3 DEF Operator, RegisterInstance, UnregisterInstance, ForceOpen, ForceClose,
       Reset, Forced, StartChecker, StopChecker
  <2> QED BY <2>2, <2>3, <2>4, <2>5
<1> QED BY <1>1, <1>2, <1>3 DEF Next, Checks

(* Between two steps of an operator the health of an instance changes only  *)
(* after a run of checks of its present registration, whatever answers came *)
(* late, for any instances and thresholds (check, _update_status).          *)
THEOREM HealthIsChecked == Spec => HealthFollowsChecks
<1>1. Init => HealthKept
  BY NewStatusRuns DEF Init, HealthKept
<1>2. HealthKept /\ Inv /\ [Next]_vars => HealthKept'
  BY HealthStep DEF Inv
<1>3. HealthKept /\ Inv /\ [Next]_vars =>
        [admin' = admin => \A i \in Instances :
            \/ status'[i].healthy = status[i].healthy
            \/ ~status'[i].healthy /\ LastAre(status'[i].log, SickAfter, FALSE)
            \/ status'[i].healthy /\ LastAre(status'[i].log, WellAfter, TRUE)]_vars
  BY HealthStep DEF Inv, Deserved
<1> QED BY Invariance, <1>1, <1>2, <1>3, PTL DEF Spec, HealthFollowsChecks
=============================================================================
