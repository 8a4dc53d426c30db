---------------------------- MODULE UptoSettlement ----------------------------
(***************************************************************************)
(* One x402 `upto` authorization (x402/server/upto.rs and the upto route   *)
(* of gate.rs): a request opens the payer's channel, runs the metered      *)
(* handler, settles what was metered and only then decides whether the     *)
(* response leaves the server.  Nothing is stored: a server remembers the  *)
(* channels in flight, the chain remembers the rest.  Sends are lost,      *)
(* refused or expire, account reads may come from a lagging node, clients  *)
(* disconnect, servers stop, and the payer may seal the channel or break   *)
(* the account its refund goes to.  A transaction is built anew for every  *)
(* attempt, and two attempts never yield the same bytes.                   *)
(***************************************************************************)
EXTENDS Integers, FiniteSets

CONSTANTS
    UptoRequests,   \* requests presenting the authorization
    Servers,        \* servers sharing the fee payer's key
    Deposit,        \* the authorized maximum, escrowed by the open
    InlineTries,    \* inline_attempts of UptoSettlementRetry
    LaterTries,     \* background_attempts
    MaxFaults       \* bound on transactions lost, refused or expired, on acts of
                    \* the payer and on servers that stop

ASSUME UptoAssumption ==
    /\ {Deposit, MaxFaults} \subseteq Nat
    /\ {InlineTries, LaterTries} \subseteq Nat \ {0}

VARIABLES
    channel,     \* the channel account: status, settled, and who sealed it
    openTx,      \* the signed open: "unsent", "flying", "landed" or "dead"
    host,        \* the server each request reached
    lagged,      \* history: an account read was out of date
    stage,       \* where each request is
    busy,        \* servers whose in_flight set holds the channel
    actual,      \* what each request metered
    fate,        \* what became of each of its settlement transactions
    unknown,     \* submitted: those whose outcome the server does not know
    round,       \* rounds of resolve_pending before the decision
    verdict,     \* what settle_served_upto returned
    usable,      \* the payer's token account can take the refund
    late,        \* withdraw_delay has passed since the open
    payout,      \* a transaction of distribute_sealed is in flight
    stopped,     \* history: a server stopped with the request it served
    faults       \* faults left

requestVars == <<stage, busy, actual, unknown, round, verdict>>
payerVars == <<usable, late>>
uptoVars == <<channel, openTx, host, lagged, requestVars, fate, payerVars, payout,
              faults, stopped>>

Tries == 1 .. InlineTries + LaterTries

Statuses == <<"absent", "open", "sealed", "distributed">>

UptoTypeOK ==
    /\ channel \in [status : {"absent", "open", "sealed", "distributed"},
                    settled : 0..Deposit, by : UptoRequests \cup {"nobody", "payer"}]
    /\ openTx \in {"unsent", "flying", "landed", "dead"}
    /\ host \in [UptoRequests -> Servers]
    /\ stage \in [UptoRequests -> {"idle", "open", "confirm", "handler", "settle",
                                   "poll", "resolve", "over"}]
    /\ busy = {host[r] : r \in {q \in UptoRequests : stage[q] \notin {"idle", "over"}}}
    /\ actual \in [UptoRequests -> 0..Deposit]
    /\ fate \in [UptoRequests -> [Tries -> {"unsent", "refused", "flying", "sealing",
                                            "ok", "failed", "gone"}]]
    /\ unknown \in [UptoRequests -> SUBSET Tries]
    /\ round \in [UptoRequests -> 0..InlineTries]
    /\ verdict \in [UptoRequests -> {"none", "receipt", "pending", "withheld"}]
    /\ {lagged, usable, late, payout, stopped} \subseteq BOOLEAN
    /\ faults \in 0..MaxFaults

UptoInit ==
    /\ channel = [status |-> "absent", settled |-> 0, by |-> "nobody"]
    /\ openTx = "unsent"
    /\ host \in [UptoRequests -> Servers] /\ lagged = FALSE
    /\ stage = [r \in UptoRequests |-> "idle"] /\ busy = {}
    /\ actual = [r \in UptoRequests |-> 0]
    /\ fate = [r \in UptoRequests |-> [i \in Tries |-> "unsent"]]
    /\ unknown = [r \in UptoRequests |-> {}] /\ round = [r \in UptoRequests |-> 0]
    /\ verdict = [r \in UptoRequests |-> "none"]
    /\ usable \in BOOLEAN /\ late = FALSE /\ payout = FALSE
    /\ stopped = FALSE /\ faults \in 0..MaxFaults

-----------------------------------------------------------------------------
Stage(r, s) == stage' = [stage EXCEPT ![r] = s]

Fault == faults > 0 /\ faults' = faults - 1

(***************************************************************************)
(* What an account read answers: the status, or an older one from a node   *)
(* that lags.                                                              *)
(***************************************************************************)
Older(status) ==
    \E i, j \in DOMAIN Statuses :
        i < j /\ Statuses[i] = status /\ Statuses[j] = channel.status

Shows(status) ==
    \/ status = channel.status /\ UNCHANGED <<lagged, faults>>
    \/ Older(status) /\ Fault /\ lagged' = TRUE

(***************************************************************************)
(* The guard of the in-flight set is dropped with the open it belongs to.  *)
(***************************************************************************)
Ends(r) == Stage(r, "over") /\ busy' = busy \ {host[r]}

opening == <<channel, host, actual, unknown, round, verdict, fate,
             payerVars, payout, stopped>>

(***************************************************************************)
(* prepare_open: one request per server at a time, and only while no       *)
(* account is seen at the channel's address.                               *)
(***************************************************************************)
PrepareUnguarded(r) ==
    /\ stage[r] = "idle" /\ Shows("absent")
    /\ Stage(r, "open") /\ busy' = busy \cup {host[r]}
    /\ UNCHANGED <<opening, openTx>>

PrepareOpen(r) ==
    /\ stage[r] = "idle" /\ host[r] \notin busy /\ Shows("absent")
    /\ Stage(r, "open") /\ busy' = busy \cup {host[r]}
    /\ UNCHANGED <<opening, openTx>>

(***************************************************************************)
(* verify_open_for_route: send the co-signed open and wait for it.  A      *)
(* refused send of a transaction that landed before counts as confirmed; a *)
(* request that fails forgets the open, forwarded or not.                  *)
(***************************************************************************)
ForwardOpen == openTx' = IF openTx = "unsent" THEN "flying" ELSE openTx

SendOpen(r) ==
    /\ stage[r] = "open"
    /\ \/ Stage(r, "confirm") /\ ForwardOpen /\ UNCHANGED <<busy, faults>>
       \/ Ends(r) /\ Fault /\ (ForwardOpen \/ UNCHANGED openTx)
       \/ openTx = "dead" /\ Ends(r) /\ UNCHANGED <<openTx, faults>>
    /\ UNCHANGED <<opening, lagged>>

ConfirmOpen(r) ==
    /\ stage[r] = "confirm"
    /\ \/ openTx = "landed" /\ Shows("open") /\ Stage(r, "handler") /\ UNCHANGED busy
       \/ /\ openTx = "landed" /\ \E s \in {"absent", "sealed", "distributed"} : Shows(s)
          /\ Ends(r)
       \/ openTx = "dead" /\ Ends(r) /\ UNCHANGED <<lagged, faults>>
       \/ Ends(r) /\ Fault /\ UNCHANGED lagged
    /\ UNCHANGED <<opening, openTx>>

-----------------------------------------------------------------------------
serving == <<channel, openTx, host, lagged, payerVars, payout, stopped>>

(***************************************************************************)
(* The handler and its body are over: complete, failed, or dropped with    *)
(* the request.  What was metered is settled in each case (OpenedUpto).    *)
(***************************************************************************)
RunForgetful(r, metered) ==
    /\ stage[r] = "handler"
    /\ (Stage(r, "settle") /\ UNCHANGED busy) \/ Ends(r)
    /\ actual' = [actual EXCEPT ![r] = metered]
    /\ UNCHANGED <<serving, unknown, round, verdict, fate, faults>>

Run(r, metered) ==
    /\ stage[r] = "handler" /\ Stage(r, "settle")
    /\ actual' = [actual EXCEPT ![r] = metered]
    /\ UNCHANGED <<serving, busy, unknown, round, verdict, fate, faults>>

(***************************************************************************)
(* settle_served_upto_with.  The inline attempts settle what was metered.  *)
(* A success releases the response; otherwise the attempts whose outcome   *)
(* is unknown are resolved first, and the response is withheld only if     *)
(* none of them may have charged the payer.  The background goes on: with  *)
(* the metered amount for a released response, with zero for a withheld    *)
(* one.                                                                    *)
(***************************************************************************)
Sent(r) == Cardinality({i \in Tries : fate[r][i] # "unsent"})

AmountAlwaysZeroLater(r, i) == IF i <= InlineTries THEN actual[r] ELSE 0

Amount(r, i) == IF i > InlineTries /\ verdict[r] = "withheld" THEN 0 ELSE actual[r]

Decide(r, v) == verdict' = [verdict EXCEPT ![r] = v]

Settled(r) ==
    /\ Ends(r)
    /\ IF verdict[r] = "none" THEN Decide(r, "receipt") ELSE UNCHANGED verdict
    /\ UNCHANGED <<unknown, round>>

(***************************************************************************)
(* After attempt n failed, with `open` the attempts that may have landed.  *)
(***************************************************************************)
Failed(r, n, open) ==
    /\ unknown' = [unknown EXCEPT ![r] = open]
    /\ \/ /\ n < InlineTries /\ Stage(r, "settle") /\ UNCHANGED <<busy, verdict>>
       \/ /\ n = InlineTries
          /\ IF open = {} THEN Decide(r, "withheld") /\ Stage(r, "settle")
             ELSE Stage(r, "resolve") /\ UNCHANGED verdict
          /\ UNCHANGED busy
       \/ /\ n > InlineTries /\ UNCHANGED verdict
          /\ IF n = InlineTries + LaterTries THEN Ends(r)
             ELSE /\ Stage(r, IF verdict[r] = "withheld" THEN "settle" ELSE "resolve")
                  /\ UNCHANGED busy
    /\ UNCHANGED round

Fate(r, n, f) == fate' = [fate EXCEPT ![r][n] = f]

(***************************************************************************)
(* payer_refund: no refund is due, or the payer's account can take it.     *)
(* build_settlement_instructions bundles the payout only then.             *)
(***************************************************************************)
Clear(amount) == amount = Deposit \/ usable

Bundle(r, n) == IF Clear(Amount(r, n)) THEN "flying" ELSE "sealing"

SettleUnrecorded(r) ==
    /\ stage[r] = "settle"
    /\ LET n == Sent(r) + 1 IN
         \/ /\ Fate(r, n, Bundle(r, n)) /\ Stage(r, "poll")
            /\ UNCHANGED <<busy, unknown, round, verdict, faults>>
         \/ Fault /\ Fate(r, n, Bundle(r, n)) /\ Failed(r, n, unknown[r])
    /\ UNCHANGED <<serving, actual>>

SettleActual(r) ==
    /\ stage[r] = "settle"
    /\ LET n == Sent(r) + 1 IN
         \/ /\ Fate(r, n, Bundle(r, n)) /\ Stage(r, "poll")
            /\ UNCHANGED <<busy, unknown, round, verdict, faults>>
         \/ /\ Fault \/ (channel.status # "open" /\ UNCHANGED faults)
            /\ Fate(r, n, "refused") /\ Failed(r, n, unknown[r])
         \/ /\ Fault /\ \E f \in {"refused", Bundle(r, n)} : Fate(r, n, f)
            /\ Failed(r, n, unknown[r] \cup {n})
    /\ UNCHANGED <<serving, actual>>

PollSettlement(r) ==
    /\ stage[r] = "poll"
    /\ LET n == Sent(r) IN
         \/ fate[r][n] = "ok" /\ Settled(r) /\ UNCHANGED faults
         \/ fate[r][n] = "failed" /\ Failed(r, n, unknown[r]) /\ UNCHANGED faults
         \/ fate[r][n] = "gone" /\ Failed(r, n, unknown[r] \cup {n}) /\ UNCHANGED faults
         \/ Fault /\ Failed(r, n, unknown[r] \cup {n})
    /\ UNCHANGED <<serving, actual, fate>>

(***************************************************************************)
(* resolve_pending: a status read finds a landed attempt, drops a failed   *)
(* one, or misses it.                                                      *)
(***************************************************************************)
Undecided(r, missed) ==
    /\ unknown' = [unknown EXCEPT ![r] = missed]
    /\ IF verdict[r] = "pending" THEN Stage(r, "settle") /\ UNCHANGED <<round, verdict>>
       ELSE /\ round' = [round EXCEPT ![r] = @ + 1]
            /\ \/ missed = {} /\ Decide(r, "withheld") /\ Stage(r, "settle")
               \/ /\ missed # {} /\ round[r] + 1 < InlineTries
                  /\ UNCHANGED <<stage, verdict>>
               \/ /\ missed # {} /\ round[r] + 1 = InlineTries
                  /\ Decide(r, "pending") /\ UNCHANGED stage
    /\ UNCHANGED busy

ResolvePending(r) ==
    /\ stage[r] = "resolve"
    /\ \/ \E i \in unknown[r] : fate[r][i] = "ok" /\ Settled(r)
       \/ \E missed \in SUBSET unknown[r] :
            /\ \A i \in unknown[r] \ missed : fate[r][i] = "failed"
            /\ Undecided(r, missed)
    /\ UNCHANGED <<serving, actual, fate, faults>>

-----------------------------------------------------------------------------
(***************************************************************************)
(* distribute_sealed: the payout a settlement deferred, once the payer's   *)
(* account can take its refund or the deadline has passed.                 *)
(***************************************************************************)
DistributeSealed ==
    /\ channel.status = "sealed" /\ ~payout /\ payout' = TRUE
    /\ Clear(channel.settled) \/ late
    /\ UNCHANGED <<channel, openTx, host, lagged, requestVars, fate, payerVars,
                   faults, stopped>>

-----------------------------------------------------------------------------
(***************************************************************************)
(* The cluster, the payment-channel program, the payer and the servers.    *)
(***************************************************************************)
SettlementLands(r, i) ==
    /\ fate[r][i] \in {"flying", "sealing"}
    /\ \/ /\ channel.status = "open" /\ Fate(r, i, "ok")
          /\ channel' = [status |-> IF fate[r][i] = "flying" THEN "distributed" ELSE "sealed",
                         settled |-> Amount(r, i), by |-> r]
       \/ channel.status # "open" /\ Fate(r, i, "failed") /\ UNCHANGED channel
    /\ UNCHANGED <<openTx, host, lagged, requestVars, payerVars, payout, faults, stopped>>

SettlementExpires(r, i) ==
    /\ fate[r][i] \in {"flying", "sealing"} /\ Fate(r, i, "gone") /\ Fault
    /\ UNCHANGED <<channel, openTx, host, lagged, requestVars, payerVars, payout, stopped>>

OpenMoves ==
    /\ \/ openTx = "flying" /\ openTx' = "landed" /\ channel' = [channel EXCEPT !.status = "open"]
       \/ openTx \in {"unsent", "flying"} /\ openTx' = "dead" /\ UNCHANGED channel
    /\ UNCHANGED <<host, lagged, requestVars, fate, payerVars, payout, faults, stopped>>

PayoutLands ==
    /\ payout /\ payout' = FALSE
    /\ \/ /\ channel.status = "sealed" /\ channel' = [channel EXCEPT !.status = "distributed"]
          /\ UNCHANGED faults
       \/ Fault /\ UNCHANGED channel
    /\ UNCHANGED <<openTx, host, lagged, requestVars, fate, payerVars, stopped>>

PayerSeals ==
    /\ channel.status = "open" /\ Fault
    /\ channel' = [channel EXCEPT !.status = "sealed", !.by = "payer"]
    /\ UNCHANGED <<openTx, host, lagged, requestVars, fate, payerVars, payout, stopped>>

AccountChanges ==
    /\ channel.status # "distributed" /\ Fault
    /\ usable' = ~usable
    /\ UNCHANGED <<channel, openTx, host, lagged, requestVars, fate, late, payout, stopped>>

DelayPasses ==
    /\ channel.status = "sealed" /\ ~late /\ late' = TRUE
    /\ UNCHANGED <<channel, openTx, host, lagged, requestVars, fate, usable, payout,
                   faults, stopped>>

Stop(s) ==
    /\ s \in busy /\ Fault /\ stopped' = TRUE /\ busy' = busy \ {s}
    /\ stage' = [r \in UptoRequests |->
                   IF host[r] = s /\ stage[r] # "idle" THEN "over" ELSE stage[r]]
    /\ UNCHANGED <<channel, openTx, host, lagged, actual, unknown, round, verdict, fate,
                   payerVars, payout>>

Opens(r) == PrepareOpen(r) \/ SendOpen(r) \/ ConfirmOpen(r)

Settles(r) ==
    \/ \E a \in 0..Deposit : Run(r, a)
    \/ SettleActual(r) \/ PollSettlement(r) \/ ResolvePending(r)

UptoNext ==
    \/ \E r \in UptoRequests : Opens(r) \/ Settles(r)
    \/ \E r \in UptoRequests, i \in Tries : SettlementLands(r, i) \/ SettlementExpires(r, i)
    \/ DistributeSealed \/ PayoutLands \/ OpenMoves
    \/ PayerSeals \/ AccountChanges \/ DelayPasses
    \/ \E s \in Servers : Stop(s)

UptoSpec == UptoInit /\ [][UptoNext]_uptoVars

-----------------------------------------------------------------------------
(***************************************************************************)
(* A payer who may be charged gets the response: what was settled was      *)
(* metered by the request that settled it, and that request's response is  *)
(* not withheld, whatever sends were lost and whichever attempt landed.  A *)
(* receipt names a settlement that landed for the metered amount.          *)
(***************************************************************************)
ChargedIsOwed ==
    /\ channel.settled > 0 =>
         \E r \in UptoRequests : /\ channel.by = r /\ channel.settled = actual[r]
                                 /\ verdict[r] # "withheld"
    /\ \A r \in UptoRequests :
         verdict[r] = "receipt" => channel.by = r /\ channel.settled = actual[r]

(***************************************************************************)
(* One authorization releases one response, when its requests reach the    *)
(* same server and account reads are current: the in-flight guard covers   *)
(* the time until the channel account shows on chain.                      *)
(***************************************************************************)
Released == {r \in UptoRequests : verdict[r] \in {"receipt", "pending"}}

OneRelease ==
    ~lagged /\ (\A q, r \in UptoRequests : host[q] = host[r]) => Cardinality(Released) <= 1

-----------------------------------------------------------------------------
(***************************************************************************)
(* Fairness: a handler that runs ends, a settlement task keeps going, a    *)
(* transaction a node has lands unless it is lost, distribute_sealed is    *)
(* run periodically, and time passes.                                      *)
(***************************************************************************)
UptoFairness ==
    /\ \A r \in UptoRequests : WF_uptoVars(Settles(r))
    /\ \A r \in UptoRequests, i \in Tries : WF_uptoVars(SettlementLands(r, i))
    /\ WF_uptoVars(DistributeSealed) /\ WF_uptoVars(PayoutLands) /\ WF_uptoVars(DelayPasses)

UptoFairSpec == UptoSpec /\ UptoFairness

(***************************************************************************)
(* A channel opened for a request that reached its handler is sealed in    *)
(* the end, although the client disconnects and although settlements are   *)
(* lost, as long as fewer are than the server tries and it keeps running;  *)
(* and a sealed channel is paid out in the end, although its payer keeps   *)
(* the account for its refund unusable.                                    *)
(***************************************************************************)
OpenedIsPaidOut ==
    /\ (\E r \in UptoRequests : stage[r] = "handler")
         ~> channel.status \in {"sealed", "distributed"} \/ stopped
    /\ channel.status = "sealed" ~> channel.status = "distributed"

(***************************************************************************)
(* A response released before its settlement was known is charged in full  *)
(* in the end, unless somebody else sealed the channel.                    *)
(***************************************************************************)
Charged(r) ==
    \/ channel.by = r /\ channel.settled = actual[r]
    \/ channel.by \notin {r, "nobody"}

PendingIsCharged ==
    (\E r \in UptoRequests : verdict[r] = "pending")
        ~> stopped \/ \A r \in UptoRequests : verdict[r] = "pending" => Charged(r)

=============================================================================
