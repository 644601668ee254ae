-------------------------- MODULE RateLimitProofs ---------------------------
(***************************************************************************)
(* RateBound for every number of gateways and buckets, every capacity and  *)
(* refill rate: the account RateInv keeps is inductive.                    *)
(***************************************************************************)
EXTENDS RateLimit, TLAPS

RateIInv == RateTypeOK /\ RateInv

\* The refill gives no more than the capacity, and no more than the time that
\* has passed since ts.
LEMMA FilledBound ==
    ASSUME RateTypeOK, NEW b \in Buckets, NEW t \in Nat
    PROVE  /\ Filled(b, t) \in Nat
           /\ b \in exists /\ tokens[b] <= Cap[b] =>
                /\ Filled(b, t) <= Cap[b]
                /\ t <= ts[b] => Filled(b, t) <= tokens[b]
                /\ t >= ts[b] => Filled(b, t) <= tokens[b] + (t - ts[b])
           /\ b \notin exists => Filled(b, t) = Cap[b]
  BY RateAssumption DEF Filled, RateTypeOK

\* The account of the bucket a script runs on.
LEMMA EvalAccount ==
    ASSUME RateIInv, NEW c \in Callers, NEW allowed \in BOOLEAN, Eval(c, allowed)
    PROVE  LET b == asked[c]
           IN /\ tokens'[b] \in Nat /\ granted'[b] \in Nat /\ delay'[b] \in Nat
              /\ tokens'[b] <= Cap[b]
              /\ granted'[b] + tokens'[b] <= Cap[b] + (at[c] - start) + delay'[b]
  <1> DEFINE b == asked[c]
             f == Filled(b, at[c])
  <1>1. b \in Buckets /\ at[c] \in Nat /\ at[c] <= now /\ now \in Nat /\ start \in Nat
    BY DEF RateIInv, RateTypeOK, RateInv, Eval
  <1>2. /\ tokens[b] \in Nat /\ granted[b] \in Nat /\ delay[b] \in Nat /\ ts[b] \in Nat
        /\ touched[b] \in Nat /\ Cap[b] \in Nat /\ Cost[b] \in Nat
    BY <1>1, RateAssumption DEF RateIInv, RateTypeOK
  <1>3. /\ tokens'[b] = IF allowed THEN f - Cost[b] ELSE f
        /\ allowed = (f >= Cost[b])
        /\ granted'[b] = IF allowed THEN granted[b] + Cost[b] ELSE granted[b]
        /\ delay'[b] = delay[b] + now - at[c]
    BY <1>1 DEF Eval, RateIInv, RateTypeOK
  <1>4. f \in Nat
    BY <1>1, FilledBound DEF RateIInv
  <1>5. /\ ts[b] <= now /\ start <= now
        /\ b \in fresh => granted[b] = 0 /\ delay[b] = 0
        /\ b \in exists => tokens[b] <= Cap[b]
        /\ b \in exists \ fresh => granted[b] + tokens[b] <= Cap[b] + (ts[b] - start) + delay[b]
        /\ b \notin exists \cup fresh => granted[b] <= (now - start) + delay[b]
    BY <1>1, <1>2 DEF RateIInv, RateInv
  <1>6. f <= Cap[b]
    BY <1>1, <1>5, FilledBound DEF RateIInv
  <1>7. granted[b] + f <= Cap[b] + (at[c] - start) + (delay[b] + now - at[c])
    <2>1. CASE b \in fresh
      BY <2>1, <1>1, <1>2, <1>4, <1>5, <1>6
    <2>2. CASE b \notin fresh /\ b \in exists
      <3>1. granted[b] + tokens[b] <= Cap[b] + (ts[b] - start) + delay[b]
        BY <2>2, <1>5
      <3>2. f <= tokens[b] \/ f <= tokens[b] + (at[c] - ts[b])
        <4>1. \/ at[c] <= ts[b] /\ f <= tokens[b]
              \/ at[c] >= ts[b] /\ f <= tokens[b] + (at[c] - ts[b])
          BY <2>2, <1>1, <1>2, <1>5, FilledBound DEF RateIInv
        <4> QED BY <4>1
      <3> QED BY <3>1, <3>2, <1>1, <1>2, <1>4, <1>5
    <2>3. CASE b \notin fresh /\ b \notin exists
      BY <2>3, <1>1, <1>2, <1>4, <1>5, <1>6
    <2> QED BY <2>1, <2>2, <2>3
  <1>8. delay'[b] \in Nat
    BY <1>1, <1>2, <1>3
  <1> HIDE DEF f
  <1>9. CASE allowed
    <2>1. /\ tokens'[b] = f - Cost[b] /\ f >= Cost[b]
          /\ granted'[b] = granted[b] + Cost[b]
      BY <1>9, <1>3
    <2>2. tokens'[b] \in Nat /\ granted'[b] \in Nat /\ tokens'[b] <= Cap[b]
      BY <2>1, <1>2, <1>4, <1>6
    <2>3. granted'[b] + tokens'[b] = granted[b] + f
      BY <2>1, <1>2, <1>4
    <2> QED BY <2>2, <2>3, <1>3, <1>7, <1>8
  <1>10. CASE ~allowed
    <2>1. tokens'[b] = f /\ granted'[b] = granted[b]
      BY <1>10, <1>3
    <2> QED BY <2>1, <1>2, <1>3, <1>4, <1>6, <1>7, <1>8
  <1> QED BY <1>9, <1>10

\* A script leaves every account in order.
LEMMA EvalStep ==
    ASSUME RateIInv, NEW c \in Callers, NEW allowed \in BOOLEAN, Eval(c, allowed)
    PROVE  RateIInv'
  <1> DEFINE b == asked[c]
  <1>1. b \in Buckets /\ at[c] \in Nat /\ at[c] <= now
    BY DEF RateIInv, RateTypeOK, RateInv, Eval
  <1>2. /\ tokens'[b] \in Nat /\ granted'[b] \in Nat /\ delay'[b] \in Nat
        /\ tokens'[b] <= Cap[b]
        /\ granted'[b] + tokens'[b] <= Cap[b] + (at[c] - start) + delay'[b]
    BY EvalAccount
  <1>3. /\ ts' = [ts EXCEPT ![b] = at[c]] /\ touched' = [touched EXCEPT ![b] = now]
        /\ exists' = exists \cup {b} /\ fresh' = fresh \ {b}
        /\ asked' = [asked EXCEPT ![c] = NoBucket]
        /\ now' = now /\ at' = [at EXCEPT ![c] = 0] /\ start' = start
    BY DEF Eval
  <1>4. \A x \in Buckets : x # b => /\ tokens'[x] = tokens[x] /\ granted'[x] = granted[x]
                                    /\ delay'[x] = delay[x]
    BY DEF Eval, RateIInv, RateTypeOK
  <1>5. /\ DOMAIN tokens' = Buckets /\ DOMAIN granted' = Buckets /\ DOMAIN delay' = Buckets
        /\ tokens' = [x \in Buckets |-> tokens'[x]]
        /\ granted' = [x \in Buckets |-> granted'[x]]
        /\ delay' = [x \in Buckets |-> delay'[x]]
    BY DEF Eval, RateIInv, RateTypeOK
  <1>6. RateTypeOK'
    <2>1. \A x \in Buckets : tokens'[x] \in Nat /\ granted'[x] \in Nat /\ delay'[x] \in Nat
      BY <1>2, <1>4 DEF RateIInv, RateTypeOK
    <2>2. tokens' \in [Buckets -> Nat] /\ granted' \in [Buckets -> Nat] /\ delay' \in [Buckets -> Nat]
      BY <2>1, <1>5
    <2> QED BY <2>2, <1>1, <1>3 DEF RateIInv, RateTypeOK
  <1>7. RateInv'
    <2>1. start' <= now' /\ \A x \in Callers : at'[x] <= now'
      BY <1>3 DEF RateIInv, RateTypeOK, RateInv
    <2>2. ASSUME NEW x \in Buckets, x # b
          PROVE  /\ ts'[x] = ts[x] /\ touched'[x] = touched[x]
                 /\ x \in fresh' <=> x \in fresh
                 /\ x \in exists' <=> x \in exists
      BY <2>2, <1>3 DEF RateIInv, RateTypeOK
    <2>3. ASSUME NEW x \in Buckets, x # b
          PROVE  /\ ts'[x] <= touched'[x] /\ touched'[x] <= now'
                 /\ x \in fresh' => granted'[x] = 0 /\ delay'[x] = 0
                 /\ x \in exists' => tokens'[x] <= Cap[x]
                 /\ x \in exists' \ fresh' =>
                       granted'[x] + tokens'[x] <= Cap[x] + (ts'[x] - start') + delay'[x]
                 /\ x \notin exists' \cup fresh' => granted'[x] <= (now' - start') + delay'[x]
      BY <2>3, <2>2, <1>3, <1>4 DEF RateIInv, RateInv
    <2>4. ts'[b] = at[c] /\ touched'[b] = now /\ b \in exists' /\ b \notin fresh'
      BY <1>1, <1>3 DEF RateIInv, RateTypeOK
    <2>5. /\ ts'[b] <= touched'[b] /\ touched'[b] <= now'
          /\ b \in fresh' => granted'[b] = 0 /\ delay'[b] = 0
          /\ b \in exists' => tokens'[b] <= Cap[b]
          /\ b \in exists' \ fresh' =>
                granted'[b] + tokens'[b] <= Cap[b] + (ts'[b] - start') + delay'[b]
          /\ b \notin exists' \cup fresh' => granted'[b] <= (now' - start') + delay'[b]
      BY <2>4, <1>1, <1>2, <1>3 DEF RateIInv, RateTypeOK
    <2> QED BY <2>1, <2>3, <2>5 DEF RateInv
  <1> QED BY <1>6, <1>7 DEF RateIInv

\* A key that expires had time to fill its bucket.
LEMMA ExpireStep ==
    ASSUME RateIInv, NEW b \in Buckets, ExpireBucket(b)
    PROVE  RateIInv'
  <1>1. RateTypeOK'
    BY DEF RateIInv, RateTypeOK, ExpireBucket, bucketVars, callVars, windowVars
  <1>2. /\ exists' = exists \ {b} /\ b \in exists /\ now >= touched[b] + Ttl
        /\ tokens' = [tokens EXCEPT ![b] = 0] /\ ts' = [ts EXCEPT ![b] = 0]
        /\ touched' = [touched EXCEPT ![b] = 0]
        /\ UNCHANGED <<now, at, start, fresh, granted, delay>>
    BY DEF ExpireBucket, callVars, windowVars
  <1>3. b \notin fresh => granted[b] <= (now - start) + delay[b]
    <2>1. /\ granted[b] \in Nat /\ tokens[b] \in Nat /\ ts[b] \in Nat /\ delay[b] \in Nat
          /\ touched[b] \in Nat /\ now \in Nat /\ start \in Nat /\ Cap[b] \in Nat
          /\ Ttl \in Nat /\ Cap[b] <= Ttl
      BY RateAssumption DEF RateIInv, RateTypeOK
    <2>2. ts[b] <= touched[b]
      BY DEF RateIInv, RateInv
    <2>3. b \notin fresh => granted[b] + tokens[b] <= Cap[b] + (ts[b] - start) + delay[b]
      BY <1>2 DEF RateIInv, RateInv
    <2> QED BY <2>1, <2>2, <2>3, <1>2
  <1>4. ts'[b] = 0 /\ touched'[b] = 0 /\ 0 <= now /\ b \notin exists'
    BY <1>2 DEF RateIInv, RateTypeOK
  <1>5. \A x \in Buckets : x # b =>
            /\ tokens'[x] = tokens[x] /\ ts'[x] = ts[x] /\ touched'[x] = touched[x]
            /\ x \in exists' <=> x \in exists
    BY <1>2 DEF RateIInv, RateTypeOK
  <1>6. RateInv'
    BY <1>2, <1>3, <1>4, <1>5 DEF RateIInv, RateInv
  <1> QED BY <1>1, <1>6 DEF RateIInv

LEMMA RateInitInv == RateInit => RateIInv
  BY RateAssumption DEF RateInit, RateIInv, RateTypeOK, RateInv

LEMMA RateStep == RateIInv /\ [RateNext]_rateVars => RateIInv'
  <1> SUFFICES ASSUME RateIInv, [RateNext]_rateVars PROVE RateIInv'
    OBVIOUS
  <1>1. ASSUME NEW c \in Callers, NEW b \in Buckets, Ask(c, b) PROVE RateIInv'
    <2>1. RateTypeOK'
      BY <1>1 DEF RateIInv, RateTypeOK, Ask, bucketVars, windowVars
    <2>2. RateInv'
      BY <1>1 DEF RateIInv, RateTypeOK, RateInv, Ask, bucketVars, windowVars
    <2> QED BY <2>1, <2>2 DEF RateIInv
  <1>2. ASSUME NEW c \in Callers, EvalFails(c) PROVE RateIInv'
    <2>1. RateTypeOK'
      BY <1>2 DEF RateIInv, RateTypeOK, EvalFails, bucketVars, windowVars
    <2>2. RateInv'
      BY <1>2 DEF RateIInv, RateTypeOK, RateInv, EvalFails, bucketVars, windowVars
    <2> QED BY <2>1, <2>2 DEF RateIInv
  <1>3. ASSUME Advance PROVE RateIInv'
    <2>1. /\ now' = now + 1 /\ now \in Nat /\ start \in Nat
          /\ UNCHANGED <<exists, tokens, ts, touched, asked, at, start, fresh, granted, delay>>
      BY <1>3 DEF Advance, bucketVars, callVars, windowVars, RateIInv, RateTypeOK
    <2>2. RateTypeOK'
      BY <2>1 DEF RateIInv, RateTypeOK
    <2>3. start' <= now' /\ \A c \in Callers : at'[c] <= now'
      BY <2>1 DEF RateIInv, RateTypeOK, RateInv
    <2>4. ASSUME NEW b \in Buckets
          PROVE  /\ touched[b] <= now'
                 /\ b \notin exists \cup fresh => granted[b] <= (now' - start) + delay[b]
      <3>1. touched[b] \in Nat /\ granted[b] \in Nat /\ delay[b] \in Nat
        BY DEF RateIInv, RateTypeOK
      <3> QED BY <3>1, <2>1 DEF RateIInv, RateInv
    <2>5. RateInv'
      BY <2>1, <2>3, <2>4 DEF RateIInv, RateInv
    <2> QED BY <2>2, <2>5 DEF RateIInv
  <1>4. ASSUME StartWindow PROVE RateIInv'
    <2>1. RateTypeOK'
      BY <1>4 DEF RateIInv, RateTypeOK, StartWindow, bucketVars, callVars
    <2>2. RateInv'
      BY <1>4 DEF RateIInv, RateTypeOK, RateInv, StartWindow, bucketVars, callVars
    <2> QED BY <2>1, <2>2 DEF RateIInv
  <1>5. CASE UNCHANGED rateVars
    BY <1>5 DEF RateIInv, RateTypeOK, RateInv, rateVars, bucketVars, callVars, windowVars
  <1> QED BY <1>1, <1>2, <1>3, <1>4, <1>5, EvalStep, ExpireStep DEF RateNext

\* The account bounds what was granted.
LEMMA AccountBound == RateIInv => RateBound
  <1> SUFFICES ASSUME RateIInv, NEW b \in Buckets
               PROVE  granted[b] <= Cap[b] + (now - start) + delay[b]
    BY DEF RateBound
  <1>1. /\ granted[b] \in Nat /\ tokens[b] \in Nat /\ ts[b] \in Nat /\ delay[b] \in Nat
        /\ touched[b] \in Nat /\ now \in Nat /\ start \in Nat /\ Cap[b] \in Nat
    BY RateAssumption DEF RateIInv, RateTypeOK
  <1>2. start <= now /\ ts[b] <= touched[b] /\ touched[b] <= now
    BY DEF RateIInv, RateInv
  <1>3. CASE b \in fresh
    BY <1>1, <1>2, <1>3 DEF RateIInv, RateInv
  <1>4. CASE b \in exists \ fresh
    <2>1. granted[b] + tokens[b] <= Cap[b] + (ts[b] - start) + delay[b]
      BY <1>4 DEF RateIInv, RateInv
    <2> QED BY <2>1, <1>1, <1>2
  <1>5. CASE b \notin exists \cup fresh
    <2>1. granted[b] <= (now - start) + delay[b]
      BY <1>5 DEF RateIInv, RateInv
    <2> QED BY <2>1, <1>1, <1>2
  <1> QED BY <1>3, <1>4, <1>5

LEMMA AccountHolds == RateSpec => []RateIInv
  BY RateInitInv, RateStep, PTL DEF RateSpec

LEMMA RateTypes == RateSpec => []RateTypeOK
  <1>1. RateIInv => RateTypeOK
    BY DEF RateIInv
  <1> QED BY <1>1, AccountHolds, PTL

\* For all gateways, buckets and windows: no bucket of RateAllow grants more
\* than its burst, its refill over the window and the delay of its scripts.
THEOREM RateBounded == RateSpec => []RateBound
  BY AccountHolds, AccountBound, PTL
=============================================================================
