---------------------------- MODULE MqRateProofs ----------------------------
(***************************************************************************)
(* The rate of a queue holds for any rates, claimers and clock: windows    *)
(* follow one another, each with the count of what was claimed in it, so   *)
(* what the row has left is what the window has left, although claims get  *)
(* the lock with times out of order.                                       *)
(***************************************************************************)
EXTENDS MqRate, TLAPS

Times == 0..MaxClock

\* The columns of the row, and the statements under way.
Columns ==
    /\ clock \in Times /\ rate \in Rates
    /\ window \in Times \cup {None}
    /\ count \in Nat /\ limitedUntil \in Nat
    /\ began \in [Claimer -> Times \cup {None}]
    /\ taken \in [Times -> Nat]

\* The count is that of the window, and no later window has begun.
Windowed ==
    /\ window = None => \A t \in Times : taken[t] = 0
    /\ window # None => taken[window] = count /\ \A t \in Times : t > window => taken[t] = 0

Window == Columns /\ Windowed

LEMMA RateIs ==
    ASSUME Columns, rate # None
    PROVE  rate.max \in Nat \ {0} /\ rate.ms \in Nat \ {0}
  BY RateAssumption DEF Columns

LEMMA NoneIsNoTime == None \notin Times
  BY RateAssumption DEF Times

\* What a claim finds used is what was claimed in the window it claims in.
LEMMA UsedIsTaken ==
    ASSUME Window, NEW now \in Times
    PROVE  /\ Used(now) \in Nat
           /\ Fresh(now) => Used(now) = 0 /\ taken[now] = 0
           /\ ~Fresh(now) => /\ window \in Times /\ Used(now) = taken[window]
                             /\ rate # None => window + rate.ms > now
           /\ Fresh(now) => \A t \in Times : t > now => taken[t] = 0
<1>1. Columns /\ Windowed /\ now \in Int /\ MaxClock \in Nat
  BY RateAssumption DEF Window, Times
<1>2. CASE window = None
  BY <1>1, <1>2 DEF Fresh, Used, Windowed
<1>3. CASE window # None
  <2>1. window \in Times /\ window \in Int /\ count \in Nat
    BY <1>1, <1>3 DEF Columns, Times
  <2>2. rate # None => rate.ms \in Nat \ {0}
    BY <1>1, RateIs
  <2>3. taken[window] = count /\ \A t \in Times : t > window => taken[t] = 0
    BY <1>1, <1>3 DEF Windowed
  <2>4. Fresh(now) <=> rate # None /\ window + rate.ms <= now
    BY <1>3 DEF Fresh
  <2>5. Used(now) = IF Fresh(now) THEN 0 ELSE count
    BY DEF Used
  <2>6. ASSUME Fresh(now) PROVE now > window
    BY <1>1, <2>1, <2>2, <2>4, <2>6
  <2>7. ASSUME Fresh(now) PROVE \A t \in Times : t > now => taken[t] = 0
    BY <1>1, <2>1, <2>3, <2>6, <2>7 DEF Times
  <2>8. ASSUME ~Fresh(now), rate # None PROVE window + rate.ms > now
    BY <1>1, <2>1, <2>2, <2>4, <2>8
  <2> QED  BY <2>1, <2>3, <2>5, <2>6, <2>7, <2>8
<1> QED  BY <1>2, <1>3

\* What a claim may take is left.
LEMMA FreeIsLeft ==
    ASSUME Window, NEW now \in Times, NEW n \in 1..Free(now)
    PROVE  /\ n \in Nat \ {0} /\ limitedUntil <= now
           /\ rate # None => Used(now) + n <= rate.max
<1>1. Columns /\ Used(now) \in Nat /\ now \in Int /\ Batch \in Nat
  BY UsedIsTaken, RateAssumption DEF Window, Times
<1>2. limitedUntil \in Nat
  BY <1>1 DEF Columns
<1> DEFINE left == IF rate = None THEN Batch ELSE rate.max - Used(now)
<1>3. left \in Int
  BY <1>1, RateIs
<1>4. Free(now) = IF limitedUntil > now \/ left < 0 THEN 0
                  ELSE IF left < Batch THEN left ELSE Batch
  BY DEF Free
<1>5. rate # None => left = rate.max - Used(now) /\ rate.max \in Nat
  BY <1>1, RateIs
<1> HIDE DEF left
<1>6. ~(limitedUntil > now) /\ n \in Nat \ {0} /\ n <= left
  BY <1>1, <1>2, <1>3, <1>4
<1> QED  BY <1>1, <1>2, <1>5, <1>6

\* A claim takes n in the window of now or in the one that is open.
LEMMA ClaimTakes ==
    ASSUME Window, NEW c \in Claimer, NEW n, Claim(c, n)
    PROVE  LET now == began[c]
               w == IF Fresh(now) THEN now ELSE window
           IN  /\ now \in Times /\ w \in Times /\ n \in Nat \ {0} /\ limitedUntil <= now
               /\ window' = w /\ count' = Used(now) + n /\ taken[w] = Used(now)
               /\ taken' = [taken EXCEPT ![w] = Used(now) + n]
               /\ rate # None => Used(now) + n <= rate.max /\ w + rate.ms > now
               /\ rate' = rate /\ Used(now) \in Nat
               /\ \A t \in Times : t > w => taken[t] = 0
<1> DEFINE now == began[c]
           w == IF Fresh(now) THEN now ELSE window
<1>1. /\ now # None /\ n \in 1..Free(now) /\ Bump(now, n) /\ rate' = rate
      /\ taken' = [taken EXCEPT ![window'] = @ + n]
  BY DEF Claim
<1>2. Columns /\ Windowed
  BY DEF Window
<1>3. now \in Times
  BY <1>1, <1>2 DEF Columns
<1> HIDE DEF now
<1>4. n \in Nat \ {0} /\ limitedUntil <= now /\ (rate # None => Used(now) + n <= rate.max)
  BY <1>1, <1>3, FreeIsLeft
<1>5. window' = w /\ count' = Used(now) + n
  BY <1>1 DEF Bump
<1>6. /\ w \in Times /\ taken[w] = Used(now) /\ Used(now) \in Nat
      /\ \A t \in Times : t > w => taken[t] = 0
  <2>1. CASE Fresh(now)
    BY <1>3, <2>1, UsedIsTaken
  <2>2. CASE ~Fresh(now)
    <3>1. window \in Times /\ Used(now) = taken[window] /\ Used(now) \in Nat
      BY <1>3, <2>2, UsedIsTaken
    <3>2. window # None
      BY <3>1, NoneIsNoTime
    <3> QED  BY <1>2, <2>2, <3>1, <3>2 DEF Windowed
  <2> QED  BY <2>1, <2>2
<1>7. rate # None => w + rate.ms > now
  <2> SUFFICES ASSUME rate # None PROVE w + rate.ms > now
    OBVIOUS
  <2>1. rate.ms \in Nat \ {0} /\ now \in Int
    BY <1>2, <1>3, RateIs DEF Times
  <2>2. CASE Fresh(now)
    BY <2>1, <2>2
  <2>3. CASE ~Fresh(now)
    BY <1>3, <2>3, UsedIsTaken
  <2> QED  BY <2>2, <2>3
<1> HIDE DEF w
<1>8. taken' = [taken EXCEPT ![w] = Used(now) + n]
  BY <1>1, <1>2, <1>5, <1>6 DEF Columns
<1> QED  BY <1>1, <1>3, <1>4, <1>5, <1>6, <1>7, <1>8 DEF now, w

LEMMA ClaimKeepsWindow ==
    ASSUME Window, NEW c \in Claimer, NEW n, Claim(c, n)
    PROVE  Window'
<1> DEFINE now == began[c]
           w == IF Fresh(now) THEN now ELSE window
<1>1. /\ now \in Times /\ w \in Times /\ n \in Nat \ {0} /\ limitedUntil <= now
      /\ window' = w /\ count' = Used(now) + n /\ taken[w] = Used(now)
      /\ taken' = [taken EXCEPT ![w] = Used(now) + n]
      /\ rate' = rate /\ Used(now) \in Nat
      /\ \A t \in Times : t > w => taken[t] = 0
  BY ClaimTakes
<1>2. Columns
  BY DEF Window
<1>3. clock' = clock /\ began' = [began EXCEPT ![c] = None] /\ Bump(now, n)
  BY DEF Claim
<1>4. limitedUntil' \in Nat
  <2>1. limitedUntil' = IF rate # None /\ rate.max <= Used(now) + n THEN w + rate.ms
                        ELSE limitedUntil
    BY <1>3 DEF Bump
  <2>2. rate # None => rate.ms \in Nat
    BY <1>2, RateIs
  <2> HIDE DEF now, w
  <2> QED  BY <1>1, <1>2, <2>1, <2>2 DEF Columns, Times
<1> HIDE DEF now, w
<1>5. Used(now) + n \in Nat
  BY <1>1
<1>6. taken' \in [Times -> Nat] /\ taken'[w] = Used(now) + n
  BY <1>1, <1>2, <1>5 DEF Columns
<1>7. Columns'
  BY <1>1, <1>2, <1>3, <1>4, <1>5, <1>6 DEF Columns, Times
<1>8. Windowed'
  <2>1. w # None /\ w \in Int
    BY <1>1, NoneIsNoTime DEF Times
  <2>2. \A t \in Times : t > w => taken'[t] = 0
    <3> SUFFICES ASSUME NEW t \in Times, t > w PROVE taken'[t] = 0
      OBVIOUS
    <3>1. t # w
      BY <2>1 DEF Times
    <3>2. taken'[t] = taken[t]
      BY <1>1, <1>2, <3>1 DEF Columns
    <3> QED  BY <1>1, <3>2
  <2> QED  BY <1>1, <1>6, <2>1, <2>2 DEF Windowed, Times
<1> QED  BY <1>7, <1>8 DEF Window

\* The others leave the window alone.
LEMMA OthersKeepWindow ==
    ASSUME Window, UNCHANGED <<window, count, taken>>, clock' \in Times, rate' \in Rates,
           limitedUntil' \in Nat, began' \in [Claimer -> Times \cup {None}]
    PROVE  Window'
  BY DEF Window, Columns, Windowed, Times

LEMMA WindowInit == Init => Window
<1> SUFFICES ASSUME Init PROVE Window
  OBVIOUS
<1>1. 0 \in Times
  BY RateAssumption DEF Times
<1> QED  BY <1>1 DEF Init, Window, Columns, Windowed, Times

LEMMA WindowStep == Window /\ [Next]_vars => Window'
<1> SUFFICES ASSUME Window, [Next]_vars PROVE Window'
  OBVIOUS
<1>1. Columns
  BY DEF Window
<1>2. CASE Tick
  <2>1. clock + 1 \in Times
    BY <1>1, <1>2, RateAssumption DEF Tick, Columns, Times
  <2> QED  BY <1>1, <1>2, <2>1, OthersKeepWindow DEF Tick, Columns
<1>3. ASSUME NEW c \in Claimer, Begin(c) \/ ClaimNothing(c) \/ ClaimRaises(c) PROVE Window'
  BY <1>1, <1>3, OthersKeepWindow DEF Begin, ClaimNothing, ClaimRaises, Columns
<1>4. ASSUME NEW c \in Claimer, NEW n \in 1..Batch, Claim(c, n) PROVE Window'
  BY <1>4, ClaimKeepsWindow
<1>5. ASSUME NEW ms \in Pauses, RateLimit(ms) PROVE Window'
  <2>1. clock + ms \in Nat
    BY <1>1, RateAssumption DEF Columns, Times
  <2> QED  BY <1>1, <1>5, <2>1, OthersKeepWindow DEF RateLimit, Columns
<1>6. ASSUME NEW r \in Rates, UpsertQueue(r) PROVE Window'
  BY <1>1, <1>6, OthersKeepWindow DEF UpsertQueue, Columns
<1>7. CASE UNCHANGED vars
  BY <1>1, <1>7, OthersKeepWindow DEF vars, Columns
<1> QED  BY <1>2, <1>3, <1>4, <1>5, <1>6, <1>7 DEF Next

\* The count of the row is what was claimed in its window, and windows follow
\* one another, whatever order claims get the row in.
THEOREM WindowInvariant == Spec => []Window
  BY WindowInit, WindowStep, PTL DEF Spec

\* No claim takes its window past the rate in force, whatever rates were in
\* force before and at whatever times the claims began.
THEOREM RatePerWindowHolds == Spec => RatePerWindow
<1>1. Window /\ [Next]_vars =>
        \/ \A t \in DOMAIN taken :
              rate # None /\ taken'[t] > taken[t] => taken'[t] <= rate.max
        \/ UNCHANGED vars
  <2> SUFFICES ASSUME Window, Next, NEW t \in Times, rate # None, taken'[t] > taken[t]
               PROVE  taken'[t] <= rate.max
    BY DEF Window, Columns
  <2>1. taken \in [Times -> Nat]
    BY DEF Window, Columns
  <2>2. taken' # taken
    BY <2>1
  <2>3. PICK c \in Claimer, n \in 1..Batch : Claim(c, n)
    BY <2>2 DEF Next, Tick, Begin, ClaimNothing, ClaimRaises, RateLimit, UpsertQueue
  <2> DEFINE now == began[c]
             w == IF Fresh(now) THEN now ELSE window
  <2>4. /\ w \in Times /\ taken' = [taken EXCEPT ![w] = Used(now) + n]
        /\ Used(now) + n <= rate.max
    BY <2>3, ClaimTakes
  <2> HIDE DEF now, w
  <2>5. t = w
    BY <2>1, <2>4
  <2> QED  BY <2>1, <2>4, <2>5
<1> QED  BY <1>1, WindowInvariant, PTL DEF Spec, RatePerWindow

\* A limit of the queue ends when it was said to, or later, unless a process
\* declares that there is no rate.
THEOREM LimitNotShortenedHolds == Spec => LimitNotShortened
<1>1. Window /\ [Next]_vars => (rate' # None => limitedUntil' >= limitedUntil)
  <2> SUFFICES ASSUME Window, [Next]_vars, rate' # None PROVE limitedUntil' >= limitedUntil
    OBVIOUS
  <2>1. Columns /\ limitedUntil \in Nat
    BY DEF Window, Columns
  <2>2. ASSUME NEW c \in Claimer, NEW n \in 1..Batch, Claim(c, n)
        PROVE  limitedUntil' >= limitedUntil
    <3> DEFINE now == began[c]
               w == IF Fresh(now) THEN now ELSE window
    <3>1. /\ now \in Times /\ w \in Times /\ limitedUntil <= now /\ rate' = rate
          /\ rate # None => w + rate.ms > now
      BY <2>2, ClaimTakes
    <3>2. limitedUntil' = IF rate # None /\ rate.max <= Used(now) + n THEN w + rate.ms
                          ELSE limitedUntil
      BY <2>2 DEF Claim, Bump
    <3>3. rate # None => rate.ms \in Nat
      BY <2>1, RateIs
    <3> HIDE DEF now, w
    <3> QED  BY <2>1, <3>1, <3>2, <3>3 DEF Times
  <2>3. ASSUME NEW ms \in Pauses, RateLimit(ms) PROVE limitedUntil' >= limitedUntil
    <3>1. clock + ms \in Nat
      BY <2>1, RateAssumption DEF Columns, Times
    <3> QED  BY <2>1, <2>3, <3>1 DEF RateLimit
  <2>4. ASSUME NEW r \in Rates, UpsertQueue(r) PROVE limitedUntil' >= limitedUntil
    BY <2>1, <2>4 DEF UpsertQueue
  <2>5. ASSUME limitedUntil' = limitedUntil PROVE limitedUntil' >= limitedUntil
    BY <2>1, <2>5
  <2> QED  BY <2>2, <2>3, <2>4, <2>5 DEF Next, Tick, Begin, ClaimNothing, ClaimRaises, vars
<1> QED  BY <1>1, WindowInvariant, PTL DEF Spec, LimitNotShortened
=============================================================================
