--------------------------- MODULE RevenueReports ---------------------------
(***************************************************************************)
(* The revenue reports of one offering and what is kept beside them.  The  *)
(* issuer reports the revenue of numbered periods, may correct a report    *)
(* until the period is closed, and may report in another asset at the rate *)
(* of an oracle.  A report is turned away by a freeze, a pause, a window   *)
(* of time, or the concentration of the offering's holders.                *)
(*                                                                         *)
(* Four records describe the same reports: the map of reports, an index of *)
(* their amounts, the cursor of the last period and the audit summary; a   *)
(* fifth, the accrual index, adds up what was ever accepted.               *)
(*                                                                         *)
(* An action is one contract call.  All records are keyed by the offering, *)
(* so one offering stands for all.  The signatures a call requires are     *)
(* taken as given, except where the code counts the signers.  The times    *)
(* stored with a report and with a seal are left out: nothing reads them.  *)
(*                                                                         *)
(* Bounds: MaxTime on the clock, MaxPeriods on the period ids used and     *)
(* MaxSettings on how often the configuration is changed.                  *)
(***************************************************************************)
EXTENDS Integers, FiniteSets, Functions

CONSTANTS
  Issuers,              \* the primary issuer and the co-issuers
  Amounts,              \* inputs: amounts reported
  Thresholds,           \* inputs: minimum revenue thresholds
  Windows,              \* inputs: report windows
  ConcentrationLimits,  \* inputs: limit configurations, see Limit
  Concentrations,       \* inputs: reported concentrations in basis points
  QuoteAges,            \* inputs: max_oracle_age_secs, 0 accepts any quote
  Rates,                \* rates the oracle quotes, of either sign
  None,                 \* nothing stored under an optional key
  BPS_DENOMINATOR,      \* 10000 in the code
  E18,                  \* 10^18 in the code
  I128_MAX, U64_MAX,    \* the largest amount and the largest period id
  MAX_CHUNK_PERIODS,    \* 200 in the code
  MaxTime, MaxPeriods, MaxSettings   \* bounds

FULL_BPS == 10000
I128_MIN == -I128_MAX - 1
I128 == I128_MIN .. I128_MAX
Limit == [max_bps : Nat, enforce : BOOLEAN, max_staleness_secs : Nat]
Window == [start : Nat, end : Nat]

ASSUME Sizes ==
  /\ BPS_DENOMINATOR \in Nat \ {0} /\ E18 \in Nat \ {0}
  /\ I128_MAX \in Nat \ {0} /\ U64_MAX \in Nat \ {0}
  /\ MAX_CHUNK_PERIODS \in Nat \ {0}
  /\ MaxTime \in Nat /\ MaxPeriods \in 0 .. U64_MAX - 1 /\ MaxSettings \in Nat

ASSUME InputRanges ==
  /\ Amounts \subseteq I128 /\ Rates \subseteq I128
  /\ Thresholds \subseteq Nat /\ QuoteAges \subseteq Nat
  /\ Concentrations \subseteq Nat
  /\ Windows \subseteq Window /\ ConcentrationLimits \subseteq Limit
  /\ None \notin Window /\ None \notin Limit /\ None \notin Nat

VARIABLES
  now,                \* ledger timestamp
  halted,             \* require_not_frozen fails: frozen, or a version ahead
  paused,             \* SoftPaused or HardPaused
  eventOnly,          \* ContractFlags.1, fixed by initialize
  testnetMode,        \* TestnetMode
  frozenOffering,     \* FrozenOffering(offering)
  reportWindow,       \* Report window of the offering, None when open
  threshold,          \* MinRevenueThreshold(offering)
  limit,              \* ConcentrationLimit(offering)
  concentration,      \* CurrentConcentration, ConcentrationReportedAt
  quoteAge,           \* FxOracleConfig(offering).max_oracle_age_secs
  oraclePubKey,       \* OraclePubKey(oracle) is stored
  dualSig,            \* DualSigEnabled(offering)
  reports,            \* RevenueReports(offering): period -> amount
  revenueIndex,       \* RevenueIndex(offering, period)
  lastReported,       \* LastReportedPeriodId(offering), 0 when absent
  summary,            \* AuditSummary(offering)
  accrualIndex,       \* AccrualIndex(offering)
  closed              \* the periods with a ClosedPeriod(offering, period)

\* History, read by properties only, and the counter of the bound.
VARIABLES
  capped,             \* a sum kept in the summary was cut off since the last repair
  indexCapped,        \* the accrual index was cut off
  replaced,           \* what reports replaced since had accrued, 0 once indexCapped
  settings            \* number of configuration changes made so far

gateVars == <<halted, paused, frozenOffering, reportWindow>>
configVars == <<eventOnly, testnetMode, threshold, limit, concentration,
                quoteAge, oraclePubKey, dualSig>>
bookVars == <<reports, revenueIndex, lastReported, summary, accrualIndex>>
historyVars == <<capped, indexCapped, replaced>>
vars == <<now, gateVars, configVars, bookVars, closed, historyVars, settings>>

Summary == [total_revenue : I128, report_count : Nat]
Concentration == [bps : 0..FULL_BPS, at : Nat]
Nothing == [p \in {} |-> 0]    \* an empty map

GateTypeOK ==
  /\ now \in Nat /\ halted \in BOOLEAN /\ paused \in BOOLEAN
  /\ frozenOffering \in BOOLEAN /\ reportWindow \in Window \cup {None}

ConfigTypeOK ==
  /\ eventOnly \in BOOLEAN /\ testnetMode \in BOOLEAN
  /\ threshold \in Nat
  /\ limit \in Limit \cup {None}
  /\ concentration \in Concentration \cup {None}
  /\ quoteAge \in Nat \cup {None} /\ oraclePubKey \in BOOLEAN /\ dualSig \in BOOLEAN

BookTypeOK ==
  /\ DOMAIN reports \subseteq Nat \ {0}
  /\ reports \in [DOMAIN reports -> I128]
  /\ revenueIndex \in [DOMAIN revenueIndex -> I128]
  /\ lastReported \in Nat
  /\ summary \in Summary
  /\ accrualIndex \in I128
  /\ closed \subseteq Nat

(***************************************************************************)
(* The type invariant.  Every amount, sum and index fits an i128, whatever *)
(* rate an amount was converted at.  None of them need be a natural        *)
(* number: the sign of a quoted rate is not looked at, so a report that    *)
(* was checked not to be negative is stored as a negative one.             *)
(***************************************************************************)
TypeOK ==
  /\ GateTypeOK /\ ConfigTypeOK /\ BookTypeOK
  /\ capped \in BOOLEAN /\ indexCapped \in BOOLEAN /\ replaced \in Int
  /\ settings \in Nat

Init ==
  /\ now = 0 /\ halted = FALSE /\ paused = FALSE
  /\ eventOnly \in BOOLEAN
  /\ testnetMode = FALSE /\ frozenOffering = FALSE /\ reportWindow = None
  /\ threshold = 0 /\ limit = None /\ concentration = None
  /\ quoteAge = None /\ oraclePubKey = FALSE /\ dualSig = FALSE
  /\ reports = Nothing /\ revenueIndex = Nothing /\ lastReported = 0
  /\ summary = [total_revenue |-> 0, report_count |-> 0]
  /\ accrualIndex = 0 /\ closed = {}
  /\ capped = FALSE /\ indexCapped = FALSE /\ replaced = 0 /\ settings = 0

\* Map m with x stored under key k.
Stored(m, k, x) == [i \in DOMAIN m \cup {k} |-> IF i = k THEN x ELSE m[i]]

Smaller(a, b) == IF a <= b THEN a ELSE b

-----------------------------------------------------------------------------
(***************************************************************************)
(* Arithmetic of i128.  saturating_add and saturating_mul stop at the      *)
(* nearer end of the range; s_add(..).unwrap_or(i128::MAX) becomes the     *)
(* largest value at either end; a quotient is cut off towards 0.           *)
(***************************************************************************)

Clamp(x) == IF x > I128_MAX THEN I128_MAX ELSE IF x < I128_MIN THEN I128_MIN ELSE x

TruncDiv(x, n) == IF x >= 0 THEN x \div n ELSE -((-x) \div n)

AddOrMax(a, b) == IF a + b \in I128 THEN a + b ELSE I128_MAX

\* What m holds under key p, 0 when nothing is stored there.
AmountAt(m, p) == IF p \in DOMAIN m THEN m[p] ELSE 0

\* The total after each of the periods first .. last of m, added up in order.
RunningTotal(m, first, last) ==
  LET total[p \in first - 1 .. last] ==
        IF p = first - 1 THEN 0 ELSE AddOrMax(total[p - 1], AmountAt(m, p))
  IN  total

AddedUp(m, first, last) ==
  IF first > last THEN 0 ELSE RunningTotal(m, first, last)[last]

\* What an accepted report adds to the accrual index; 0 adds nothing.
AccrualDelta(amount) == TruncDiv(Clamp(amount * E18), BPS_DENOMINATOR)

-----------------------------------------------------------------------------
(***************************************************************************)
(* Guards                                                                  *)
(***************************************************************************)

require_not_frozen == ~halted
require_not_paused == ~paused
require_not_offering_frozen == ~frozenOffering

is_window_open(window) == now >= window.start /\ now <= window.end

require_report_window_open == reportWindow # None => is_window_open(reportWindow)

\* Mutant: the age of the figure is taken the wrong way round.
FigureIsFresh_Reversed ==
  limit.max_staleness_secs > 0 =>
    /\ concentration # None
    /\ concentration.at - now <= limit.max_staleness_secs

\* The staleness guard: with a maximal age set there must be a figure, no older.
FigureIsFresh ==
  limit.max_staleness_secs > 0 =>
    /\ concentration # None
    /\ now - concentration.at <= limit.max_staleness_secs

\* A figure that was never reported counts as 0.
FigureIsWithinLimit == concentration # None => concentration.bps <= limit.max_bps

\* Testnet mode skips the check; so does a limit that is not enforced, or 0.
ConcentrationAllows ==
  ~testnetMode /\ limit # None =>
    (limit.enforce /\ limit.max_bps > 0 => FigureIsFresh /\ FigureIsWithinLimit)

\* Mutant: a period may be passed over.
require_next_period_id_Later(period_id) == period_id > lastReported

require_next_period_id(period_id) == period_id = lastReported + 1

BelowThreshold(amount) == threshold > 0 /\ amount < threshold

-----------------------------------------------------------------------------
(***************************************************************************)
(* Reporting                                                               *)
(***************************************************************************)

(***************************************************************************)
(* A report in the payout asset carries no quote (None).  One in another   *)
(* asset needs an oracle and a quote of it, either fetched by the call or  *)
(* signed earlier by an oracle whose key is registered.  A quote from the  *)
(* future counts as fresh.                                                 *)
(***************************************************************************)
Quotes == [rate : Rates, at : 0..MaxTime]

verify_oracle_signature == oraclePubKey

QuoteAccepted(quote, signed) ==
  quote # None =>
    /\ quoteAge # None
    /\ signed => verify_oracle_signature
    /\ quoteAge > 0 => now - quote.at <= quoteAge

\* Mutant: the product is not kept within an i128.
Converted_Unbounded(amount, quote) ==
  IF quote = None THEN amount
  ELSE TruncDiv(amount * quote.rate, BPS_DENOMINATOR)

\* The rate is any i128, so what comes out may be negative.
Converted(amount, quote) ==
  IF quote = None THEN amount
  ELSE TruncDiv(Clamp(amount * quote.rate), BPS_DENOMINATOR)

\* What is checked of a report before its mode is looked at.  The amount is
\* the one given by the caller; the converted one is not checked again.
CheckedReport(period_id, amount) ==
  /\ require_not_frozen
  /\ require_not_paused
  /\ period_id > 0
  /\ amount >= 0
  /\ require_not_offering_frozen
  /\ require_report_window_open

\* Mutant: the index is set where it should be advanced.
update_and_emit_accrual_index_Sets(amount) == accrualIndex' = AccrualDelta(amount)

\* Every accepted report adds its whole amount, a correction included.
update_and_emit_accrual_index(amount) ==
  accrualIndex' = Clamp(accrualIndex + AccrualDelta(amount))

\* How every accepted report ends; the platform fee it announces moves nothing.
\* replacedAmount is that of the report that is corrected, 0 if there is none.
AcceptReport(amount, replacedAmount) ==
  /\ update_and_emit_accrual_index(amount)
  /\ indexCapped' = (indexCapped \/ accrualIndex + AccrualDelta(amount) \notin I128)
  /\ replaced' = IF indexCapped' THEN 0 ELSE replaced + AccrualDelta(replacedAmount)

\* An accepted report of either kind stores the amount twice.
StoreReport(period_id, amount) ==
  /\ reports' = Stored(reports, period_id, amount)
  /\ revenueIndex' = Stored(revenueIndex, period_id, amount)
  /\ AcceptReport(amount, AmountAt(reports, period_id))

\* Mutant: the new amount is added on top of the old one.
SummaryDelta_Whole(period_id, amount) == amount

\* What a correction should change the total by.
SummaryDelta(period_id, amount) == amount - reports[period_id]

\* What it changes it by: nothing, when the difference does not fit.
AppliedDelta(period_id, amount) ==
  LET delta == SummaryDelta(period_id, amount)
  IN  IF delta \in I128 THEN delta ELSE 0

\* Mutant: a closed period can be corrected.
Overridable_Closed(period_id) == period_id \in DOMAIN reports

\* There is a report to override, and its period is not closed.
Overridable(period_id) == period_id \in DOMAIN reports /\ period_id \notin closed

OverrideReport(period_id, amount) ==
  LET delta == AppliedDelta(period_id, amount)
  IN  /\ Overridable(period_id)
      /\ StoreReport(period_id, amount)
      /\ summary' = [summary EXCEPT !.total_revenue = AddOrMax(@, delta)]
      /\ capped' = \/ capped
                   \/ SummaryDelta(period_id, amount) \notin I128
                   \/ summary.total_revenue + delta \notin I128
      /\ UNCHANGED lastReported

FirstReport(period_id, amount) ==
  /\ period_id \notin DOMAIN reports
  /\ require_next_period_id(period_id)
  /\ ~BelowThreshold(amount)
  /\ StoreReport(period_id, amount)
  /\ lastReported' = period_id
  /\ summary' = [total_revenue |-> AddOrMax(summary.total_revenue, amount),
                 report_count |-> summary.report_count + 1]
  /\ capped' = (capped \/ summary.total_revenue + amount \notin I128)

(***************************************************************************)
(* The calls that succeed and store nothing: a duplicate without the       *)
(* override flag and a first report below the threshold.  Both are told    *)
(* apart by the events they emit.                                          *)
(***************************************************************************)
DuplicateReport(period_id, override_existing) ==
  /\ period_id \in DOMAIN reports /\ ~override_existing
  /\ UNCHANGED <<bookVars, historyVars>>

ReportBelowThreshold(period_id, amount, override_existing) ==
  /\ period_id \notin DOMAIN reports /\ ~override_existing
  /\ require_next_period_id(period_id)
  /\ BelowThreshold(amount)
  /\ UNCHANGED <<bookVars, historyVars>>

\* In event-only mode a report is an event and nothing else.
StoresNothing == eventOnly

BookReport(period_id, amount, override_existing) ==
  \/ /\ override_existing
     /\ OverrideReport(period_id, amount)
  \/ /\ ~override_existing
     /\ FirstReport(period_id, amount)
  \/ DuplicateReport(period_id, override_existing)
  \/ ReportBelowThreshold(period_id, amount, override_existing)

report_revenue_internal(period_id, amount, quote, signed, override_existing) ==
  /\ CheckedReport(period_id, amount)
  /\ period_id <= MaxPeriods
  /\ IF StoresNothing
       THEN UNCHANGED <<bookVars, historyVars>>
       ELSE /\ QuoteAccepted(quote, signed)
            /\ ConcentrationAllows
            /\ BookReport(period_id, Converted(amount, quote), override_existing)
  /\ UNCHANGED <<now, gateVars, configVars, closed, settings>>

report_revenue(period_id, amount, quote, override_existing) ==
  report_revenue_internal(period_id, amount, quote, FALSE, override_existing)

report_revenue_with_attestation(period_id, amount, quote, override_existing) ==
  report_revenue_internal(period_id, amount, quote, TRUE, override_existing)

-----------------------------------------------------------------------------
(***************************************************************************)
(* Closing a period.  Nothing asks whether the period has a report.        *)
(***************************************************************************)

CloseNow(period_id) ==
  /\ require_not_frozen
  /\ require_not_paused
  /\ period_id \in 1..MaxPeriods
  /\ period_id \notin closed
  /\ closed' = closed \cup {period_id}
  /\ UNCHANGED <<now, gateVars, configVars, bookVars, historyVars, settings>>

close_period(period_id) ==
  /\ ~dualSig
  /\ CloseNow(period_id)

close_period_dual_sig(period_id, sig_a, sig_b) ==
  /\ sig_a # sig_b
  /\ {sig_a, sig_b} \subseteq Issuers
  /\ dualSig
  /\ CloseNow(period_id)

-----------------------------------------------------------------------------
(***************************************************************************)
(* The audit summary                                                       *)
(***************************************************************************)

\* The keys of the map come in order; lastReported is the last of them.
compute_audit_summary_from_reports ==
  [total_revenue |-> AddedUp(reports, 1, lastReported),
   report_count |-> Cardinality(DOMAIN reports)]

\* Some report did not fit on top of those before it.
IsSaturated ==
  \E p \in 1..lastReported :
    RunningTotal(reports, 1, lastReported)[p - 1] + AmountAt(reports, p)
      \notin I128

\* Not stopped by a pause.
repair_audit_summary ==
  /\ require_not_frozen
  /\ summary' = compute_audit_summary_from_reports
  /\ capped' = IsSaturated
  /\ UNCHANGED <<now, gateVars, configVars, reports, revenueIndex, lastReported,
                 accrualIndex, closed, indexCapped, replaced, settings>>

reconcile_audit_summary_is_consistent ==
  ~IsSaturated /\ summary = compute_audit_summary_from_reports

-----------------------------------------------------------------------------
(***************************************************************************)
(* Reading the reported revenue of a range of periods                      *)
(***************************************************************************)

get_revenue_by_period(p) == AmountAt(revenueIndex, p)

get_revenue_range(from_period, to_period) == AddedUp(revenueIndex, from_period, to_period)

\* Mutant: a page ends one period early and the cursor does not know.
PageEnd_Early(from_period, cap) == from_period + cap - 2

\* The last period of a page of cap periods.
PageEnd(from_period, cap) == from_period + cap - 1

PageCap(max_periods) ==
  IF max_periods \in 1..MAX_CHUNK_PERIODS THEN max_periods ELSE MAX_CHUNK_PERIODS

(***************************************************************************)
(* One page of a range: its sum and the period to go on with, None when    *)
(* the range is exhausted.  The loop variable sticks at U64_MAX, so a      *)
(* range that ends there is never exhausted and its last period is added   *)
(* until the page is full.                                                 *)
(***************************************************************************)
get_revenue_range_chunk(from_period, to_period, max_periods) ==
  LET cap == PageCap(max_periods)
      last == IF to_period = U64_MAX THEN PageEnd(from_period, cap)
              ELSE Smaller(PageEnd(from_period, cap), to_period)
      read == [p \in from_period..last |-> get_revenue_by_period(Smaller(p, U64_MAX))]
      next == Smaller(from_period + cap, U64_MAX)
  IN  IF from_period > to_period THEN [total |-> 0, next |-> None]
      ELSE [total |-> AddedUp(read, from_period, last),
            next |-> IF next <= to_period THEN next ELSE None]

-----------------------------------------------------------------------------
(***************************************************************************)
(* Configuration by the issuer and the admin                               *)
(***************************************************************************)

\* The bound on configuration changes.
Setting ==
  /\ settings < MaxSettings
  /\ settings' = settings + 1
  /\ UNCHANGED <<now, bookVars, closed, historyVars>>

set_testnet_mode(enabled) ==
  /\ require_not_frozen
  /\ testnetMode' = enabled
  /\ Setting
  /\ UNCHANGED <<gateVars, eventOnly, threshold, limit, concentration, quoteAge,
                 oraclePubKey, dualSig>>

set_min_revenue_threshold(min_amount) ==
  /\ require_not_frozen
  /\ min_amount >= 0
  /\ threshold' = min_amount
  /\ Setting
  /\ UNCHANGED <<gateVars, eventOnly, testnetMode, limit, concentration, quoteAge,
                 oraclePubKey, dualSig>>

set_report_window(window) ==
  /\ require_not_frozen
  /\ window.start <= window.end
  /\ reportWindow' = window
  /\ Setting
  /\ UNCHANGED <<halted, paused, frozenOffering, configVars>>

\* In event-only mode the limit and the figures below are not stored.
set_concentration_limit(config) ==
  /\ require_not_frozen
  /\ require_not_paused
  /\ config.max_bps <= FULL_BPS
  /\ limit' = IF eventOnly THEN limit ELSE config
  /\ Setting
  /\ UNCHANGED <<gateVars, eventOnly, testnetMode, threshold, concentration,
                 quoteAge, oraclePubKey, dualSig>>

report_concentration(concentration_bps) ==
  /\ require_not_frozen
  /\ require_not_paused
  /\ concentration_bps <= FULL_BPS
  /\ concentration' = IF eventOnly THEN concentration
                      ELSE [bps |-> concentration_bps, at |-> now]
  /\ Setting
  /\ UNCHANGED <<gateVars, eventOnly, testnetMode, threshold, limit, quoteAge,
                 oraclePubKey, dualSig>>

set_fx_oracle(max_oracle_age_secs) ==
  /\ require_not_frozen
  /\ require_not_paused
  /\ quoteAge' = max_oracle_age_secs
  /\ Setting
  /\ UNCHANGED <<gateVars, eventOnly, testnetMode, threshold, limit, concentration,
                 oraclePubKey, dualSig>>

\* Stopped by neither a freeze nor a pause.
register_oracle_pubkey ==
  /\ oraclePubKey' = TRUE
  /\ Setting
  /\ UNCHANGED <<gateVars, eventOnly, testnetMode, threshold, limit, concentration,
                 quoteAge, dualSig>>

set_dual_sig_config(enabled) ==
  /\ require_not_frozen
  /\ require_not_paused
  /\ dualSig' = enabled
  /\ Setting
  /\ UNCHANGED <<gateVars, eventOnly, testnetMode, threshold, limit, concentration,
                 quoteAge, oraclePubKey>>

\* freeze_offering and unfreeze_offering.
SetOfferingFreeze(frozen) ==
  /\ require_not_frozen
  /\ frozenOffering' = frozen
  /\ Setting
  /\ UNCHANGED <<halted, paused, reportWindow, configVars>>

-----------------------------------------------------------------------------
(***************************************************************************)
(* The gates of the whole contract and the clock                           *)
(***************************************************************************)

SetPause(on) ==
  /\ paused' = on
  /\ Setting
  /\ UNCHANGED <<halted, frozenOffering, reportWindow, configVars>>

Halt ==
  /\ halted' = TRUE
  /\ Setting
  /\ UNCHANGED <<paused, frozenOffering, reportWindow, configVars>>

Tick ==
  /\ now < MaxTime
  /\ now' = now + 1
  /\ UNCHANGED <<gateVars, configVars, bookVars, closed, historyVars, settings>>

Next ==
  \/ \E p \in 1..MaxPeriods, a \in Amounts, quote \in Quotes \cup {None},
        override \in BOOLEAN :
       \/ report_revenue(p, a, quote, override)
       \/ report_revenue_with_attestation(p, a, quote, override)
  \/ \E p \in 1..MaxPeriods : close_period(p)
  \/ \E p \in 1..MaxPeriods, a, b \in Issuers : close_period_dual_sig(p, a, b)
  \/ repair_audit_summary
  \/ \E on \in BOOLEAN :
       \/ set_testnet_mode(on)
       \/ set_dual_sig_config(on)
       \/ SetOfferingFreeze(on)
       \/ SetPause(on)
  \/ \E amount \in Thresholds : set_min_revenue_threshold(amount)
  \/ \E window \in Windows : set_report_window(window)
  \/ \E config \in ConcentrationLimits : set_concentration_limit(config)
  \/ \E bps \in Concentrations : report_concentration(bps)
  \/ \E age \in QuoteAges : set_fx_oracle(age)
  \/ register_oracle_pubkey
  \/ Halt
  \/ Tick

Spec == Init /\ [][Next]_vars

-----------------------------------------------------------------------------
(***************************************************************************)
(* Properties                                                              *)
(***************************************************************************)

(***************************************************************************)
(* report_revenue keeps the audit summary by differences; it agrees with   *)
(* the map of reports after any mix of first reports and corrections, and  *)
(* repair_audit_summary makes it agree again after a total was cut off at  *)
(* the largest i128.                                                       *)
(***************************************************************************)
AuditMatchesReports ==
  ~capped => summary = [total_revenue |-> SumFunctionOnSet(reports, DOMAIN reports),
                        report_count |-> Cardinality(DOMAIN reports)]

(***************************************************************************)
(* The map of reports, the index of their amounts and the cursor describe  *)
(* the same periods 1, 2, ..., without a gap, however first reports,       *)
(* corrections, duplicates and reports below the threshold are mixed; in   *)
(* event-only mode all three stay empty.                                   *)
(***************************************************************************)
BooksAgree ==
  /\ DOMAIN reports = 1..lastReported
  /\ revenueIndex = reports
  /\ eventOnly => lastReported = 0

(***************************************************************************)
(* The accrual index counts every report ever accepted, whatever its sign: *)
(* it is what the present reports accrue and, as a correction adds its     *)
(* amount without taking back the one it replaces, what the replaced ones  *)
(* had accrued.  It is exact until the index itself is cut off.            *)
(***************************************************************************)
Accrued == SumFunctionOnSet([p \in DOMAIN reports |-> AccrualDelta(reports[p])],
                            DOMAIN reports)

AccrualCountsEveryReport == ~indexCapped => accrualIndex = Accrued + replaced

(***************************************************************************)
(* Reading a range of periods page by page, whatever the size of the       *)
(* pages, gives the sum of get_revenue_range, and every page but the last  *)
(* moves on.  This needs amounts that are not negative, and then holds     *)
(* even where sums are cut off, or amounts of which every run fits an      *)
(* i128: a negative amount after a sum that was cut off in one way of      *)
(* reading and not in the other keeps the two apart.  Ranges that end in   *)
(* the largest period id are left out: their pages never end.              *)
(***************************************************************************)
RawRevenue(periods) ==
  SumFunctionOnSet([p \in periods |-> get_revenue_by_period(p)], periods)

ReadsAlike(from_period, to_period) ==
  \/ \A p \in from_period..to_period : get_revenue_by_period(p) >= 0
  \/ \A first, last \in from_period..to_period : RawRevenue(first..last) \in I128

RangePagesAddUp ==
  \A from_period, to_period \in 1 .. U64_MAX - 1, max_periods \in 0 .. MAX_CHUNK_PERIODS + 1 :
    LET page == get_revenue_range_chunk(from_period, to_period, max_periods)
        whole == get_revenue_range(from_period, to_period)
    IN  ReadsAlike(from_period, to_period) =>
          IF page.next = None THEN page.total = whole
          ELSE /\ page.next \in from_period + 1 .. to_period
               /\ AddOrMax(page.total, get_revenue_range(page.next, to_period)) = whole

(***************************************************************************)
(* The books change only within the report window, and while a             *)
(* concentration limit is enforced outside testnet mode not on a figure    *)
(* above the limit, on one older than the limit allows, or on none where   *)
(* an age is set, whatever was reported, reconfigured or waited for in     *)
(* between.                                                                *)
(***************************************************************************)
BookedOnFreshFigures ==
  [][ reports' # reports =>
        /\ reportWindow # None => now \in reportWindow.start .. reportWindow.end
        /\ ~testnetMode /\ limit # None /\ limit.enforce /\ limit.max_bps > 0
           => IF concentration = None THEN limit.max_staleness_secs = 0
              ELSE /\ concentration.bps <= limit.max_bps
                   /\ limit.max_staleness_secs > 0 =>
                        concentration.at \in now - limit.max_staleness_secs .. now ]_vars

(***************************************************************************)
(* The books implement the ledger of RevenueLedger: entries are appended,  *)
(* corrected until their period is closed, and closed for good.            *)
(***************************************************************************)
Ledger == INSTANCE RevenueLedger WITH
  ledger <- [p \in 1..lastReported |-> reports[p]],
  sealed <- closed

ImplementsLedger == Ledger!Spec
=============================================================================
