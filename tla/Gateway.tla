------------------------------- MODULE Gateway ------------------------------
(***************************************************************************)
(* The model gateway, a library nothing in cmd/ calls yet: the judge that  *)
(* classifies a task (router.go), the completer that walks a tier's chain  *)
(* of models until one answers (fallback.go) over LiteLLM clients          *)
(* (litellm.go), and the cost tracker with its reports (cost.go).          *)
(***************************************************************************)
EXTENDS Integers, SequencesExt

CONSTANTS
    Models,
    Providers,      \* what completers call themselves: LiteLLMClient.Provider
    Tiers,          \* the valid tiers
    Calls,          \* completion calls, each under a context of its own
    MaxFallbacks,   \* bound on the length of a fallback chain
    MaxTime,        \* bound on the clock of the cost records,
    MaxRecords,     \* on their number
    MaxTokens       \* and on what each of them counts

ASSUME GatewayAssumption ==
    /\ Tiers # {} /\ IsFiniteSet(Tiers)
    /\ MaxFallbacks \in Nat /\ MaxTime \in Nat
    /\ MaxRecords \in Nat /\ MaxTokens \in Nat

VARIABLES
    config,     \* GatewayConfig.Tiers, and the completers: of some models, the
                \* provider's name, which two models may share
    req,        \* the completion calls
    clock,      \* the time, as far as cost records tell it apart
    records     \* InMemoryCostTracker.records

gatewayVars == <<config, req, clock, records>>

Chains == UNION {[1..n -> Models] : n \in 0..MaxFallbacks}
ErrKind == {"ctx", "no_provider", "provider"}
Completers == UNION {[s -> Providers] : s \in SUBSET Models}

NewReq == [pc |-> "new", chain |-> <<>>, i |-> 1, errs |-> <<>>,
           fallback |-> FALSE, gone |-> FALSE, late |-> FALSE]

\* "late": the context ended when the last attempt was under way or over.
GatewayTypeOK ==
    /\ config \in [primary : [Tiers -> Models], fallbacks : [Tiers -> Chains],
                   completers : Completers]
    /\ \A c \in Calls :
          /\ req[c].pc \in {"new", "try", "call", "ok", "failed", "refused"}
          /\ req[c].i \in 1..(MaxFallbacks + 2)
          /\ \A e \in 1..Len(req[c].errs) :
                req[c].errs[e] \in [who : Models \cup Providers, kind : ErrKind]
    /\ clock \in 0..MaxTime
    /\ \A r \in 1..Len(records) : records[r] \in [tier : Tiers, at : 0..MaxTime,
                                                  tokens : Nat]

\* ValidateConfig: tiers are valid, models are not empty; a tier may be missing
\* in the file, which refuses its calls and is left out.
GatewayInit ==
    /\ \E p \in [Tiers -> Models], f \in [Tiers -> Chains], cs \in Completers :
          config = [primary |-> p, fallbacks |-> f, completers |-> cs]
    /\ req = [c \in Calls |-> NewReq]
    /\ clock = 0 /\ records = <<>>

-----------------------------------------------------------------------------
(* Classify *)

\* A valid override wins; without a judge, or when its call fails or its answer
\* (trimmed and lowered by parseTier) is no tier, the default tier is taken.
Classify(override, judged, answer, default) ==
    IF override \in Tiers THEN override
    ELSE IF judged /\ answer \in Tiers THEN answer
    ELSE default

-----------------------------------------------------------------------------
(* Complete, CompleteWithTier *)

Set(c, rec) == req' = [req EXCEPT ![c] = rec] /\ UNCHANGED <<config, clock, records>>

TierChain(t) == <<config.primary[t]>> \o config.fallbacks[t]

\* Tiers are a Go map: of two with one primary model either may be met first.
ChainsForModel(m) ==
    LET owners == {t \in Tiers : config.primary[t] = m}
    IN IF owners # {} THEN {TierChain(t) : t \in owners}
       ELSE IF m \in DOMAIN config.completers THEN {<<m>>} ELSE {}

Complete(c) ==
    /\ req[c].pc = "new"
    /\ \E m \in Models :
          \/ \E chain \in ChainsForModel(m) :
                Set(c, [req[c] EXCEPT !.pc = "try", !.chain = chain])
          \/ ChainsForModel(m) = {} /\ Set(c, [req[c] EXCEPT !.pc = "refused"])

CompleteWithTier(c) ==
    /\ req[c].pc = "new"
    /\ \E t \in Tiers, judged \in BOOLEAN, answer \in Tiers \cup {"?"} :
          Set(c, [req[c] EXCEPT !.pc = "try",
                     !.chain = TierChain(Classify("?", judged, answer, t))])

\* A call that failed is put down to the provider, by the name its completer
\* or the completer's own error gives; a model never called to its own name.
Blamed(m, kind) == IF kind = "provider" THEN config.completers[m] ELSE m

Failed(r, kind) ==
    Append(r.errs, [who |-> Blamed(r.chain[r.i], kind), kind |-> kind])

\* Mutant: the context is not looked at between two models.
TryModelBlind(c) ==
    LET r == req[c] IN
    /\ r.pc = "try" /\ r.i <= Len(r.chain)
    /\ IF r.chain[r.i] \in DOMAIN config.completers
       THEN Set(c, [r EXCEPT !.pc = "call"])
       ELSE Set(c, [r EXCEPT !.i = @ + 1, !.errs = Failed(r, "no_provider")])

\* One round of tryChain up to the call of the completer.
TryModel(c) ==
    LET r == req[c] IN
    /\ r.pc = "try" /\ r.i <= Len(r.chain)
    /\ \/ /\ r.gone
          /\ Set(c, [r EXCEPT !.pc = "failed", !.errs = Failed(r, "ctx")])
       \/ /\ ~r.gone /\ r.chain[r.i] \notin DOMAIN config.completers
          /\ Set(c, [r EXCEPT !.i = @ + 1, !.errs = Failed(r, "no_provider")])
       \/ /\ ~r.gone /\ r.chain[r.i] \in DOMAIN config.completers
          /\ Set(c, [r EXCEPT !.pc = "call"])

Exhausted(c) ==
    /\ req[c].pc = "try" /\ req[c].i > Len(req[c].chain)
    /\ Set(c, [req[c] EXCEPT !.pc = "failed"])

\* A LiteLLM client reports whatever ends its HTTP request, a context that is
\* done included, as ErrProviderUnavailable with the text of the cause.
Answers(c) ==
    LET r == req[c] IN
    /\ r.pc = "call"
    /\ \/ Set(c, [r EXCEPT !.pc = "ok", !.fallback = r.i > 1])
       \/ Set(c, [r EXCEPT !.pc = "try", !.i = @ + 1,
                           !.errs = Failed(r, "provider")])

\* The caller's context ends.
CallerGone(c) ==
    LET r == req[c] IN
    /\ r.pc \in {"new", "try", "call"} /\ ~r.gone
    /\ Set(c, [r EXCEPT !.gone = TRUE,
                 !.late = \/ r.pc = "call" /\ r.i = Len(r.chain)
                          \/ r.pc = "try" /\ r.i > Len(r.chain)])

-----------------------------------------------------------------------------
(* The cost tracker *)

Record(t, n) ==
    /\ Len(records) < MaxRecords
    /\ records' = Append(records, [tier |-> t, at |-> clock, tokens |-> n])
    /\ UNCHANGED <<config, req, clock>>

Tick ==
    /\ clock < MaxTime /\ clock' = clock + 1
    /\ UNCHANGED <<config, req, records>>

\* Mutant: neither end of a period belongs to it.
InPeriodOpen(r, from, to) == from < r.at /\ r.at < to

\* Report: a period is half-open.
InPeriod(r, from, to) == ~(r.at < from) /\ r.at < to

Spent(t, from, to) ==
    SumFunction([n \in DOMAIN records |->
        IF records[n].tier = t /\ InPeriod(records[n], from, to)
        THEN records[n].tokens ELSE 0])

Total(from, to) ==
    SumFunction([n \in DOMAIN records |->
        IF InPeriod(records[n], from, to) THEN records[n].tokens ELSE 0])

GatewayNext ==
    \/ \E c \in Calls :
          \/ Complete(c) \/ CompleteWithTier(c) \/ TryModel(c) \/ Exhausted(c)
          \/ Answers(c) \/ CallerGone(c)
    \/ \E t \in Tiers, n \in 1..MaxTokens : Record(t, n)
    \/ Tick

GatewaySpec == GatewayInit /\ [][GatewayNext]_gatewayVars

-----------------------------------------------------------------------------
(* Properties *)

\* Whatever fails on the way, the answer is that of the first model of the
\* chain that gives one, marked as a fallback unless it is the primary, and there
\* is one error per model before it, in their order: the model's, where it has
\* no completer, otherwise its provider's, from which two models of one provider
\* cannot be told apart.  When none answers there is one for every model of the
\* chain, or of its part up to a cancellation.  FallbackError "allows
\* errors.Is(err, context.Canceled) ... to work": a call whose context ends
\* before its last attempt has begun is told so.
Explains(r, e) ==
    LET m == r.chain[e]
    IN \/ m \notin DOMAIN config.completers /\ r.errs[e] = [who |-> m, kind |-> "no_provider"]
       \/ /\ m \in DOMAIN config.completers
          /\ r.errs[e] = [who |-> config.completers[m], kind |-> "provider"]
       \/ /\ r.pc = "failed" /\ r.gone /\ e = Len(r.errs)
          /\ r.errs[e] = [who |-> m, kind |-> "ctx"]

ErrorsTellAll ==
    \A c \in Calls :
        LET r == req[c]
            n == Len(r.errs)
            told == \E e \in 1..n : r.errs[e].kind = "ctx"
        IN /\ n <= Len(r.chain) /\ \A e \in 1..n : Explains(r, e)
           /\ r.pc = "ok" => n = r.i - 1 /\ r.fallback = (n > 0)
           /\ r.pc = "failed" => /\ n = Len(r.chain) \/ told
                                 /\ r.gone /\ ~r.late => told

\* Consecutive periods lose no record: a call made just when one report ends and
\* the next begins is in one of them at least, and one that is made at another
\* time in exactly one.  (Whether the end belongs to a period the repository says
\* both ways, and this leaves open.)  The tiers add up to the total.
SumOverTiers(from, to) ==
    SumFunction([t \in Tiers |-> Spent(t, from, to)])

ReportAdds ==
    \A a, b, d \in 0..(MaxTime + 1) : a <= b /\ b <= d =>
        /\ Total(a, b) + Total(b, d) >= Total(a, d)
        /\ (\A n \in DOMAIN records : records[n].at # b) =>
              Total(a, b) + Total(b, d) = Total(a, d)
        /\ SumOverTiers(a, d) = Total(a, d)
=============================================================================
