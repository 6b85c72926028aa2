----------------------------- MODULE TokenUsage -----------------------------
(***************************************************************************)
(* What an answer says about tokens, and what the tokens cost: Usage,      *)
(* TokenPricing and cost_usd_nanos of proxy.rs.  All of it is pure.        *)
(*                                                                         *)
(* An i64 is an integer that saturates at I64_MAX; the threshold of long   *)
(* contexts is a constant, so that both sides of it fit a small instance.  *)
(* The price table is the one of the code.                                 *)
(***************************************************************************)
EXTENDS Integers, Sequences

CONSTANTS
    LONG_CONTEXT_THRESHOLD_TOKENS,  \* 272000 in the code
    I64_MAX,                        \* 2^63 - 1 in the code
    None,                           \* Option::None
    Panic                           \* no value: the thread panics

ASSUME UsageAssumption ==
    /\ LONG_CONTEXT_THRESHOLD_TOKENS \in Nat
    /\ I64_MAX \in Nat
    /\ None \notin Int
    /\ Panic \notin Int \cup {None}

Counts == {"input_tokens", "output_tokens", "cached_tokens", "cache_write_tokens"}

I64 == (-I64_MAX - 1) .. I64_MAX

Usage == [Counts -> I64]

Larger(x, y) == IF x >= y THEN x ELSE y

Smaller(x, y) == IF x <= y THEN x ELSE y

\* Usage::default
NoUsage == [c \in Counts |-> 0]

merge_Replaces(u, v) == v

\* Usage::merge: the larger of each pair of counts.
merge(u, v) == [c \in Counts |-> Larger(u[c], v[c])]

\* A JSON value is reduced to the counts it reports; one that is missing, or
\* no i64, is None.
Reports == [Counts -> I64 \cup {None}]

\* unwrap_or_default
usage_from_value(report) ==
    [c \in Counts |-> IF report[c] = None THEN 0 ELSE report[c]]

-----------------------------------------------------------------------------
(***************************************************************************)
(* Prices in 10^-9 USD per token: input, cached input, cache write and     *)
(* output, for short and (or None) long contexts.                          *)
(***************************************************************************)
Gpt54To56Pricing == <<
    <<"gpt-5.6-sol",            <<5000, 500, 6250, 30000>>,  <<10000, 1000, 12500, 45000>>>>,
    <<"gpt-5.6-terra",          <<2000, 200, 2500, 12000>>,  <<4000, 400, 5000, 18000>>>>,
    <<"gpt-5.6-luna",           <<200, 20, 250, 1200>>,      <<400, 40, 500, 1800>>>>,
    <<"gpt-5.5",                <<5000, 500, 0, 30000>>,     <<10000, 1000, 0, 45000>>>>,
    <<"gpt-5.5-pro",            <<30000, 0, 0, 180000>>,     <<60000, 0, 0, 270000>>>>,
    <<"gpt-5.4",                <<2500, 250, 0, 15000>>,     <<5000, 500, 0, 22500>>>>,
    <<"gpt-5.4-mini",           <<750, 75, 0, 4500>>,        None>>,
    <<"gpt-5.4-nano",           <<200, 20, 0, 1250>>,        None>>,
    <<"gpt-5.4-pro",            <<30000, 0, 0, 180000>>,     <<60000, 0, 0, 270000>>>> >>

Gpt5To53Pricing == <<
    <<"gpt-5.3-codex",          <<1750, 175, 0, 14000>>,     None>>,
    <<"gpt-5.2",                <<1750, 175, 0, 14000>>,     None>>,
    <<"gpt-5.2-pro",            <<21000, 0, 0, 168000>>,     None>>,
    <<"gpt-5.1",                <<1250, 125, 0, 10000>>,     None>>,
    <<"gpt-5",                  <<1250, 125, 0, 10000>>,     None>>,
    <<"gpt-5-mini",             <<250, 25, 0, 2000>>,        None>>,
    <<"gpt-5-nano",             <<50, 5, 0, 400>>,           None>>,
    <<"gpt-5-pro",              <<15000, 0, 0, 120000>>,     None>> >>

OlderPricing == <<
    <<"gpt-4.1",                <<2000, 500, 0, 8000>>,      None>>,
    <<"gpt-4.1-mini",           <<400, 100, 0, 1600>>,       None>>,
    <<"gpt-4.1-nano",           <<100, 25, 0, 400>>,         None>>,
    <<"gpt-4o",                 <<2500, 1250, 0, 10000>>,    None>>,
    <<"gpt-4o-mini",            <<150, 75, 0, 600>>,         None>>,
    <<"o1",                     <<15000, 7500, 0, 60000>>,   None>>,
    <<"o1-pro",                 <<150000, 0, 0, 600000>>,    None>>,
    <<"o3",                     <<2000, 500, 0, 8000>>,      None>>,
    <<"o3-pro",                 <<20000, 0, 0, 80000>>,      None>>,
    <<"o4-mini",                <<1100, 275, 0, 4400>>,      None>>,
    <<"o3-mini",                <<1100, 550, 0, 4400>>,      None>>,
    <<"gpt-4o-transcribe",      <<2500, 0, 0, 10000>>,       None>>,
    <<"gpt-4o-mini-transcribe", <<1250, 0, 0, 5000>>,        None>> >>

TOKEN_PRICING == Gpt54To56Pricing \o Gpt5To53Pricing \o OlderPricing

PricedModels == {TOKEN_PRICING[i][1] : i \in DOMAIN TOKEN_PRICING}

PricingOf(model) ==
    TOKEN_PRICING[CHOOSE i \in DOMAIN TOKEN_PRICING : TOKEN_PRICING[i][1] = model]

\* TokenPricing::rates
rates(pricing, input_tokens) ==
    IF input_tokens >= LONG_CONTEXT_THRESHOLD_TOKENS /\ pricing[3] # None
    THEN pricing[3]
    ELSE pricing[2]

-----------------------------------------------------------------------------
Saturating_Exact(x) == x

\* saturating_add, saturating_sub and saturating_mul, of the exact result.
Saturating(x) == Larger(-I64_MAX - 1, Smaller(I64_MAX, x))

\* Ord::clamp for low <= high; it panics otherwise.
Clamp(x, low, high) == Larger(low, Smaller(x, high))

CachedTokens(u) == Clamp(u.cached_tokens, 0, Larger(u.input_tokens, 0))

UncachedTokens(u) == Saturating(u.input_tokens - CachedTokens(u))

CacheWriteTokens_OfInput(u, rate) ==
    IF rate = 0 THEN 0 ELSE Clamp(u.cache_write_tokens, 0, u.input_tokens)

\* Cache writes are a part of the uncached input, where they have a price.
CacheWriteTokens(u, rate) ==
    IF rate = 0 THEN 0 ELSE Clamp(u.cache_write_tokens, 0, UncachedTokens(u))

\* The sum is taken from left to right, each step saturating.
CostAt(r, u) ==
    LET cached == CachedTokens(u)
        writes == CacheWriteTokens(u, r[3])
        plain == Saturating(UncachedTokens(u) - writes)
        input == Saturating(plain * r[1])
        read == Saturating(input + Saturating(cached * r[2]))
        written == Saturating(read + Saturating(writes * r[3]))
    IN  Saturating(written + Saturating(Larger(u.output_tokens, 0) * r[4]))

\* The cost of a call, None for a model without a price.  The second clamp
\* panics when the uncached tokens are negative.
cost_usd_nanos(model, u) ==
    IF model \notin PricedModels THEN None
    ELSE LET r == rates(PricingOf(model), u.input_tokens)
         IN  IF r[3] # 0 /\ UncachedTokens(u) < 0 THEN Panic ELSE CostAt(r, u)
=============================================================================
