----------------------------- MODULE RateLimit ------------------------------
(***************************************************************************)
(* The distributed token buckets: tokenBucketScript (scripts.go) and       *)
(* RateAllow (store.go).  RateAllow reads the clock and then sends the     *)
(* script, so scripts run later than their clock reading says, and not in  *)
(* the order of the readings.                                              *)
(*                                                                         *)
(* Tokens are counted in the milliseconds it takes to refill them: a       *)
(* request costs 1000/refill of them, a bucket gains one per millisecond.  *)
(***************************************************************************)
EXTENDS Integers

CONSTANTS Callers,  \* goroutines that call RateAllow
          Buckets,  \* ratelimit:{scope}:{id}
          Cap,      \* capacity of a bucket, in refill milliseconds
          Cost,     \* one token, in refill milliseconds
          Ttl,      \* PEXPIRE
          NoBucket  \* the caller has not sent a script

\* With the defaults a bucket refills within 60 s and its key lives for 120 s.
ASSUME RateAssumption ==
    /\ NoBucket \notin Buckets
    /\ Cap \in [Buckets -> Nat] /\ Cost \in [Buckets -> Nat] /\ Ttl \in Nat
    /\ \A b \in Buckets : Cap[b] <= Ttl

VARIABLES now,      \* the clock of the gateways
          exists,   \* buckets that have a key
          tokens,   \* HGET tokens, 0 without a key
          ts,       \* HGET ts, 0 without a key
          touched,  \* when the last PEXPIRE ran
          asked,    \* the bucket a caller has sent a script for
          at,       \* the clock reading it sent along
          start,    \* history: beginning of the window that is looked at
          fresh,    \* history: buckets no script has run on in the window
          granted,  \* history: cost of what was allowed in the window
          delay     \* history: total time its scripts were late

bucketVars == <<exists, tokens, ts, touched>>
callVars == <<asked, at>>
windowVars == <<start, fresh, granted, delay>>
rateVars == <<now, bucketVars, callVars, windowVars>>

RateTypeOK ==
    /\ now \in Nat /\ exists \subseteq Buckets
    /\ tokens \in [Buckets -> Nat] /\ ts \in [Buckets -> Nat] /\ touched \in [Buckets -> Nat]
    /\ asked \in [Callers -> Buckets \cup {NoBucket}] /\ at \in [Callers -> Nat]
    /\ start \in Nat /\ fresh \subseteq Buckets
    /\ granted \in [Buckets -> Nat] /\ delay \in [Buckets -> Nat]

RateInit ==
    /\ now = 0 /\ exists = {}
    /\ tokens = [b \in Buckets |-> 0] /\ ts = [b \in Buckets |-> 0]
    /\ touched = [b \in Buckets |-> 0]
    /\ asked = [c \in Callers |-> NoBucket] /\ at = [c \in Callers |-> 0]
    /\ start = 0 /\ fresh = Buckets
    /\ granted = [b \in Buckets |-> 0] /\ delay = [b \in Buckets |-> 0]

\* RateAllow: time.Now, and the script is on its way.
Ask(c, b) ==
    /\ asked' = [asked EXCEPT ![c] = b]
    /\ at' = [at EXCEPT ![c] = now]
    /\ UNCHANGED <<now, bucketVars, windowVars>>

\* The tokens the script finds at clock reading t.
Filled(b, t) ==
    IF b \notin exists THEN Cap[b]
    ELSE LET elapsed == IF t > ts[b] THEN t - ts[b] ELSE 0
         IN IF tokens[b] + elapsed < Cap[b] THEN tokens[b] + elapsed ELSE Cap[b]

\* tokenBucketScript, run for caller c, answers allowed.
Eval(c, allowed) ==
    LET b == asked[c]
        f == Filled(b, at[c])
    IN /\ b # NoBucket
       /\ allowed = (f >= Cost[b])
       /\ tokens' = [tokens EXCEPT ![b] = IF allowed THEN f - Cost[b] ELSE f]
       /\ ts' = [ts EXCEPT ![b] = at[c]]
       /\ touched' = [touched EXCEPT ![b] = now]
       /\ exists' = exists \cup {b}
       /\ asked' = [asked EXCEPT ![c] = NoBucket] /\ at' = [at EXCEPT ![c] = 0]
       /\ granted' = [granted EXCEPT ![b] = IF allowed THEN @ + Cost[b] ELSE @]
       /\ delay' = [delay EXCEPT ![b] = @ + now - at[c]]
       /\ fresh' = fresh \ {b}
       /\ UNCHANGED <<now, start>>

\* The script does not get through to Redis.
EvalFails(c) ==
    /\ asked[c] # NoBucket
    /\ asked' = [asked EXCEPT ![c] = NoBucket] /\ at' = [at EXCEPT ![c] = 0]
    /\ UNCHANGED <<now, bucketVars, windowVars>>

\* A defective variant: the key may vanish at any time.
ExpireEarly(b) ==
    /\ b \in exists
    /\ exists' = exists \ {b}
    /\ tokens' = [tokens EXCEPT ![b] = 0] /\ ts' = [ts EXCEPT ![b] = 0]
    /\ touched' = [touched EXCEPT ![b] = 0]
    /\ UNCHANGED <<now, callVars, windowVars>>

\* PEXPIRE runs out.
ExpireBucket(b) ==
    /\ b \in exists /\ now >= touched[b] + Ttl
    /\ exists' = exists \ {b}
    /\ tokens' = [tokens EXCEPT ![b] = 0] /\ ts' = [ts EXCEPT ![b] = 0]
    /\ touched' = [touched EXCEPT ![b] = 0]
    /\ UNCHANGED <<now, callVars, windowVars>>

Advance ==
    /\ now' = now + 1
    /\ UNCHANGED <<bucketVars, callVars, windowVars>>

\* An observer begins to count at this moment.
StartWindow ==
    /\ start' = now /\ fresh' = Buckets
    /\ granted' = [b \in Buckets |-> 0] /\ delay' = [b \in Buckets |-> 0]
    /\ UNCHANGED <<now, bucketVars, callVars>>

RateNext ==
    \/ \E c \in Callers, b \in Buckets : asked[c] = NoBucket /\ Ask(c, b)
    \/ \E c \in Callers : EvalFails(c) \/ \E allowed \in BOOLEAN : Eval(c, allowed)
    \/ \E b \in Buckets : ExpireBucket(b)
    \/ Advance \/ StartWindow

RateSpec == RateInit /\ [][RateNext]_rateVars

-----------------------------------------------------------------------------

\* In every window a bucket allows at most its burst, what it refills in that
\* time, and the total time its scripts were late.  Scripts of several gateways
\* overtaking each other set `ts' back and so let time be counted twice, but
\* never more than they were late; expiry of the key gives nothing away.
RateBound ==
    \A b \in Buckets : granted[b] <= Cap[b] + (now - start) + delay[b]

\* What makes it inductive: the tokens still in the bucket are part of the
\* account, and time is counted up to ts; a key that is gone was left alone for
\* as long as it takes to fill the bucket.
RateInv ==
    /\ start <= now
    /\ \A c \in Callers : at[c] <= now
    /\ \A b \in Buckets :
        /\ ts[b] <= touched[b] /\ touched[b] <= now
        /\ b \in fresh => granted[b] = 0 /\ delay[b] = 0
        /\ b \in exists => tokens[b] <= Cap[b]
        /\ b \in exists \ fresh => granted[b] + tokens[b] <= Cap[b] + (ts[b] - start) + delay[b]
        /\ b \notin exists \cup fresh => granted[b] <= (now - start) + delay[b]
=============================================================================
