------------------------------- MODULE AiRuntime -------------------------------
(***************************************************************************)
(* The AI runtime (lf_ai_runtime: service.py, runtime.py, budget.py,       *)
(* pricing.py) and the document of limits the gateway edits for it         *)
(* (lf_gateway: ai_limits.py).                                             *)
(*                                                                         *)
(* Calls are core NATS requests: they are handed to one instance, wait     *)
(* there for a place among LF_AI_CONCURRENCY, are checked against what has *)
(* been spent so far, and are paid for after the provider has answered.    *)
(* The counters are shared and atomic, each by itself.  Money is counted   *)
(* in whole units; prompts, outputs and token counts are left out.         *)
(***************************************************************************)
EXTENDS WorldLog

CONSTANTS
  Instances,           \* instances of the runtime
  Concurrency,         \* LF_AI_CONCURRENCY, of each
  Price,               \* tier: what one completion may cost
  Routed,              \* tiers the routing table knows
  Scale,               \* 1.0 of degrade_ratio
  BaseLimits,          \* what both services assume of a field nobody set
  MaxCalls             \* bound: calls of a behaviour

\* The fields of the document.
Amounts == {"rpm", "daily", "monthly", "actorUsd", "actorCalls"}

Fields == Amounts \cup {"ratio", "enabled"}

\* A document, the environment or a body may leave fields out.
Partial(d) ==
  /\ DOMAIN d \subseteq Fields
  /\ \A f \in DOMAIN d : d[f] \in IF f = "enabled" THEN BOOLEAN ELSE Int

Prices == UNION {Price[t] : t \in Routed}

ASSUME AiAssumption ==
  /\ Instances # {} /\ IsFiniteSet(Instances) /\ Concurrency \in Nat \ {0}
  /\ Scale \in Nat /\ MaxCalls \in Nat
  /\ Prices \subseteq Nat /\ \E p \in Prices : \A q \in Prices : q <= p
  /\ Partial(BaseLimits) /\ DOMAIN BaseLimits = Fields
  /\ BaseLimits.ratio \in 1..Scale
  /\ \A s \in DOMAIN Scenes :
       LET bodies == {Scenes[s].edits[i] : i \in DOMAIN Scenes[s].edits}
       IN  /\ Scenes[s].running \subseteq Instances
           /\ Partial(Scenes[s].limits)
           /\ Scenes[s].edits \in Seq(bodies) /\ \A d \in bodies : Partial(d)

VARIABLES
  calls,               \* every request, in the order they were made
  purse,               \* the counters in Redis
  doc,                 \* the saved limits, or Nothing
  edits,               \* documents the desk has still to save
  cached,              \* instance: [limits, fresh]
  strict               \* history: [peak, bill, loose] of the running day

aiVars == <<calls, purse, doc, edits, cached, strict>>

---------------------------------------------------------------------------
(* The limits: whoever reads them, a document or the environment may leave   *)
(* fields out.  The two services share no code and have to agree.            *)

\* What d leaves out is as in base.
Filled(d, base) ==
  [f \in DOMAIN d \cup DOMAIN base |-> IF f \in DOMAIN d THEN d[f] ELSE base[f]]

\* AiLimits.from_json, in the runtime: what is out of range is bent into it.
FromJson(raw, base) ==
  [f \in DOMAIN BaseLimits |->
     LET value == Filled(raw, base)[f]
     IN  CASE f \in Amounts -> IF value < 0 THEN 0 ELSE value
           [] f = "ratio" -> IF value * 10 < Scale THEN Scale \div 10
                             ELSE IF value > Scale THEN Scale ELSE value
           [] OTHER -> value]

\* limits_from_env
EnvLimits == FromJson(Scene.limits, BaseLimits)

\* AiLimitsDoc, in the gateway: what is out of range is refused.
Valid(d) ==
  /\ \A f \in Amounts : d[f] >= 0
  /\ d.ratio * 10 >= Scale /\ d.ratio <= Scale

\* defaults_from_env
ShownByDefault ==
  LET d == Filled(Scene.limits, BaseLimits) IN IF Valid(d) THEN d ELSE BaseLimits

\* BudgetGuard.limits, when the document can be read.
Enforced == IF doc = Nothing THEN EnvLimits ELSE FromJson(doc, EnvLimits)

\* read_limits, get_ai_limits: what the editor is shown.
Shown ==
  LET d == IF doc = Nothing THEN ShownByDefault ELSE Filled(doc, ShownByDefault)
  IN  IF Valid(d) THEN d ELSE ShownByDefault

---------------------------------------------------------------------------

NobodyYet == [p \in People |-> 0]

NoSpend ==
  [month |-> 0, minute |-> 0, day |-> 0, count |-> 0, mine |-> NobodyYet,
   times |-> NobodyYet]

AiInit ==
  /\ calls = <<>>
  /\ purse = NoSpend
  /\ doc = Nothing /\ edits = Scene.edits
  /\ cached = [n \in Instances |-> [limits |-> EnvLimits, fresh |-> FALSE]]
  /\ strict = [peak |-> 0, bill |-> 0, loose |-> FALSE, most |-> 0, admitted |-> 0]

\* nc.request: handed to one instance of the queue group.
Request(who, tier) ==
  /\ Len(calls) < MaxCalls
  /\ \E n \in Scene.running :
       calls' = Append(calls, [at |-> "sent", by |-> n, who |-> who, tier |-> tier,
                               limits |-> Nothing, again |-> FALSE, cost |-> 0,
                               spent |-> [day |-> 0, month |-> 0]])

Call(c, at) == c \in DOMAIN calls /\ calls[c].at = at

InPlace(n) == {c \in DOMAIN calls : calls[c].by = n /\ calls[c].at \notin {"sent", "ok", "failed"}}

Answered(c) == calls[c].at \in {"ok", "failed"}

Becomes(c, at) == calls' = [calls EXCEPT ![c].at = at]

Greater(m, n) == IF m > n THEN m ELSE n

Dearest == CHOOSE p \in Prices : \A q \in Prices : q <= p

\* process: a place under the semaphore.  BudgetGuard.limits: three seconds'
\* memory, and the defaults of the environment when the document cannot be read.
Begin(c) ==
  /\ Call(c, "sent")
  /\ LET n == calls[c].by IN
       /\ Cardinality(InPlace(n)) < Concurrency
       /\ \/ cached[n].fresh /\ UNCHANGED <<cached, faults>>
          \/ /\ ~cached[n].fresh /\ UNCHANGED faults
             /\ cached' = [cached EXCEPT ![n] =
                  [limits |-> Enforced, fresh |-> TRUE]]
          \/ /\ ~cached[n].fresh /\ doc # Nothing /\ Fault
             /\ cached' = [cached EXCEPT ![n] = [limits |-> EnvLimits, fresh |-> TRUE]]
       /\ LET limits == cached'[n].limits IN
            /\ calls' = [calls EXCEPT ![c].limits = limits,
                                      ![c].at = IF limits.enabled THEN "spend" ELSE "admitted"]
            /\ strict' = [strict EXCEPT
                 !.loose = @ \/ ~limits.enabled,
                 !.peak = Greater(@, IF limits.daily = 0 THEN MaxCalls * 2 * Dearest
                                     ELSE limits.daily),
                 !.most = Greater(@, IF limits.rpm = 0 THEN MaxCalls ELSE limits.rpm)]
  /\ UNCHANGED <<scene, log, script, purse, doc, edits>>

\* _actor_exhausted: everyone's share, when there is somebody.
ShareExhausted(limits, who) ==
  /\ who # Nothing
  /\ \/ limits.actorUsd > 0 /\ purse.mine[who] >= limits.actorUsd
     \/ limits.actorCalls > 0 /\ purse.times[who] >= limits.actorCalls

\* Mutant: the limit itself may still be spent.
ExhaustedLate(limits, who) ==
  \/ limits.daily > 0 /\ purse.day > limits.daily
  \/ limits.monthly > 0 /\ purse.month > limits.monthly
  \/ ShareExhausted(limits, who)

\* _exhausted, before anybody's share; a limit of 0 is none.
Exhausted(limits, who) ==
  \/ limits.daily > 0 /\ purse.day >= limits.daily
  \/ limits.monthly > 0 /\ purse.month >= limits.monthly
  \/ ShareExhausted(limits, who)

\* _check, as far as what has been spent is read.
ReadSpend(c) ==
  /\ Call(c, "spend")
  /\ LET limits == calls[c].limits IN
       IF Exhausted(limits, calls[c].who) THEN Becomes(c, "failed")
       ELSE calls' = [calls EXCEPT ![c].at = "slot",
                                   ![c].spent = [day |-> purse.day, month |-> purse.month]]
  /\ UNCHANGED <<logVars, purse, doc, edits, cached, strict>>

\* _degraded
Tiered(call) ==
  LET over(limit, spent) == limit > 0 /\ spent * Scale >= limit * call.limits.ratio
  IN  IF /\ call.tier = "hot"
         /\ \/ over(call.limits.daily, call.spent.day)
            \/ over(call.limits.monthly, call.spent.month)
      THEN "warm" ELSE call.tier

\* _check: the slot of this minute is taken before it is compared.
TakeSlot(c) ==
  /\ Call(c, "slot")
  /\ LET limits == calls[c].limits
         count == purse.minute + 1
         admit == limits.rpm = 0 \/ count <= limits.rpm
     IN  /\ purse' = IF limits.rpm > 0 THEN [purse EXCEPT !.minute = count] ELSE purse
         /\ calls' = [calls EXCEPT ![c].at = IF admit THEN "admitted" ELSE "failed",
                                   ![c].tier = Tiered(calls[c])]
         /\ strict' = [strict EXCEPT !.admitted = @ + IF admit THEN 1 ELSE 0]
  /\ UNCHANGED <<logVars, doc, edits, cached>>

\* check: when the counters cannot be read nobody is stopped.
PassesUnchecked(c) ==
  /\ c \in DOMAIN calls /\ calls[c].at \in {"spend", "slot"} /\ Fault
  /\ Becomes(c, "admitted")
  /\ strict' = [strict EXCEPT !.loose = TRUE]
  /\ UNCHANGED <<scene, log, script, purse, doc, edits, cached>>

\* infer: no route, or no provider of the route.
NoRoute(c) ==
  /\ Call(c, "admitted") /\ calls[c].tier \notin Routed
  /\ Becomes(c, "failed")
  /\ UNCHANGED <<logVars, purse, doc, edits, cached, strict>>

\* _call: the provider answers, and has its price, whatever it answers.
Complete(c) ==
  /\ Call(c, "admitted") /\ calls[c].tier \in Routed
  /\ \E cost \in Price[calls[c].tier] :
       /\ calls' = [calls EXCEPT ![c].at = "paid", ![c].cost = cost]
       /\ strict' = [strict EXCEPT !.bill = @ + cost]
  /\ UNCHANGED <<logVars, purse, doc, edits, cached>>

\* ProviderError: what it may have cost is not known and not recorded.
ProviderFails(c) ==
  /\ Call(c, "admitted") /\ calls[c].tier \in Routed /\ Fault
  /\ Becomes(c, "failed")
  /\ UNCHANGED <<scene, log, script, purse, doc, edits, cached, strict>>

\* The counters record moves, in its order; a failure leaves the rest as it was.
Recorded_(who, cost, upto) ==
  [purse EXCEPT
     !.day = IF upto >= 1 THEN @ + cost ELSE @,
     !.month = IF upto >= 2 THEN @ + cost ELSE @,
     !.count = IF upto >= 3 THEN @ + 1 ELSE @,
     !.mine = IF upto >= 4 /\ who # Nothing
              THEN [purse.mine EXCEPT ![who] = purse.mine[who] + cost] ELSE @,
     !.times = IF upto >= 5 /\ who # Nothing
               THEN [purse.times EXCEPT ![who] = purse.times[who] + 1] ELSE @]

\* record, then the answer: good, or against the schema.  One repair is asked
\* for, and is not checked against the budget again.
Record(c) ==
  /\ Call(c, "paid")
  /\ \E upto \in 0..5 :
       /\ IF upto = 5 THEN UNCHANGED faults ELSE Fault
       /\ purse' = Recorded_(calls[c].who, calls[c].cost, upto)
       /\ strict' = [strict EXCEPT !.loose = @ \/ upto < 5]
  /\ \E good \in BOOLEAN :
       calls' = [calls EXCEPT ![c].again = TRUE,
                   ![c].at = CASE good -> "ok"
                               [] ~good /\ calls[c].again -> "failed"
                               [] OTHER -> "admitted"]
  /\ UNCHANGED <<scene, log, script, doc, edits, cached>>

\* What the limits were three seconds ago is forgotten.
CacheExpires(n) ==
  /\ Scene.clock /\ cached[n].fresh
  /\ cached' = [cached EXCEPT ![n].fresh = FALSE]
  /\ UNCHANGED <<logVars, calls, purse, doc, edits, strict>>

\* put_ai_limits: refused, saved, or the editor is told it was not.  A field
\* the body leaves out becomes the base value, whatever the environment says.
SaveLimits ==
  /\ edits # <<>>
  /\ edits' = Tail(edits)
  /\ LET body == Filled(Head(edits), BaseLimits) IN
       \/ Valid(body) /\ doc' = body /\ UNCHANGED faults
       \/ ~Valid(body) /\ doc' = doc /\ UNCHANGED faults
       \/ Valid(body) /\ doc' = doc /\ Fault
  /\ UNCHANGED <<scene, log, script, calls, purse, cached, strict>>

\* The keys carry the minute, the day and the month.
NextMinute ==
  /\ Scene.clock /\ purse.minute > 0
  /\ purse' = [purse EXCEPT !.minute = 0]
  /\ strict' = [strict EXCEPT !.admitted = 0]
  /\ UNCHANGED <<logVars, calls, doc, edits, cached>>

\* Calls under way are recorded on the day they end; one that is being recorded
\* falls between the days.
NextDay ==
  /\ Scene.clock /\ purse.count > 0
  /\ purse' = [NoSpend EXCEPT !.month = purse.month, !.minute = purse.minute]
  /\ strict' = [strict EXCEPT !.bill = 0, !.loose = @ \/ \E c \in DOMAIN calls : calls[c].at = "paid"]
  /\ UNCHANGED <<logVars, calls, doc, edits, cached>>

\* A process that ends takes its calls and its cache along; nobody answers.
RuntimeCrash(n) ==
  /\ Fault
  /\ calls' = [c \in DOMAIN calls |->
                 IF calls[c].by = n /\ ~Answered(c)
                 THEN [calls[c] EXCEPT !.at = "failed"] ELSE calls[c]]
  /\ cached' = [cached EXCEPT ![n] = [limits |-> EnvLimits, fresh |-> FALSE]]
  /\ strict' = [strict EXCEPT !.loose = @ \/ \E c \in InPlace(n) : calls[c].at = "paid"]
  /\ UNCHANGED <<scene, log, script, purse, doc, edits>>

AiStep ==
  \/ \E c \in DOMAIN calls :
       \/ Begin(c) \/ ReadSpend(c) \/ TakeSlot(c) \/ PassesUnchecked(c) \/ NoRoute(c)
       \/ Complete(c) \/ ProviderFails(c) \/ Record(c)
  \/ \E n \in Scene.running : CacheExpires(n) \/ RuntimeCrash(n)
  \/ SaveLimits \/ NextMinute \/ NextDay

---------------------------------------------------------------------------

AtOnce == Concurrency * Cardinality(Scene.running)

\* The real bill of a day passes the largest limit of that day only by what was
\* already under way when it was reached: every place taken, each call with its
\* one repair, at the dearest price (budget.py _check, runtime.py infer).
BillBounded ==
  ~strict.loose => strict.bill <= Greater(strict.peak - 1, 0) + AtOnce * 2 * Dearest

\* Paid for, and not recorded.
Owed(call) == IF call.at = "paid" THEN call.cost ELSE 0

\* amount[1] + ... + amount[n]
Total(amount, n) ==
  LET sum[k \in 0..n] == IF k = 0 THEN 0 ELSE sum[k - 1] + amount[k] IN sum[n]

\* What the counters say is what the providers billed, when nothing failed.
BillIsKnown ==
  ~strict.loose /\ faults = 0 =>
    /\ strict.bill = purse.day + Total([c \in DOMAIN calls |-> Owed(calls[c])], Len(calls))
    /\ \A p \in People : purse.mine[p] <= purse.day

\* No minute admits more calls than its limit, from however many instances.
RateKept == ~strict.loose => strict.admitted <= strict.most

\* Nobody's share is exceeded by more than what was under way.
ShareKept ==
  \A p \in People :
    EnvLimits.actorCalls > 0 /\ ~strict.loose /\ Scene.edits = <<>>
      => purse.times[p] <= EnvLimits.actorCalls - 1 + AtOnce * 2

\* The limits the editor sees are the limits that are enforced, whatever of
\* them was saved, left out or refused (ai_limits.py read_limits, budget.py
\* from_json), as long as the environment itself is in range.
ShownIsEnforced == Valid(Filled(Scene.limits, BaseLimits)) => Shown = Enforced

\* What the runtime may cost is bounded by what the editor was shown.
SpendBounded == BillBounded /\ BillIsKnown /\ RateKept /\ ShareKept /\ ShownIsEnforced
=================================================================================
