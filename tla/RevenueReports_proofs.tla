------------------------ MODULE RevenueReports_proofs ------------------------
(***************************************************************************)
(* Theorems about RevenueReports: the books agree with each other, they    *)
(* implement the ledger, sealed entries are final, nothing is booked on a  *)
(* stale figure, and the pages of a range add up.                          *)
(***************************************************************************)
EXTENDS RevenueReports, Sequences, FiniteSetTheorems, SumTheorems, TLAPS

(***************************************************************************)
(* BooksAgree strengthened by the types it rests on.                       *)
(***************************************************************************)
BooksSound ==
  /\ BooksAgree
  /\ lastReported \in Nat
  /\ \A p \in DOMAIN reports : reports[p] \in Int

\* The calls that touch neither the books nor the seals.
QuietStep ==
  \/ repair_audit_summary
  \/ \E on \in BOOLEAN :
       \/ set_testnet_mode(on)
       \/ set_dual_sig_config(on)
       \/ SetOfferingFreeze(on)
       \/ SetPause(on)
  \/ \E amount \in Thresholds : set_min_revenue_threshold(amount)
  \/ \E window \in Windows : set_report_window(window)
  \/ \E config \in ConcentrationLimits : set_concentration_limit(config)
  \/ \E bps \in Concentrations : report_concentration(bps)
  \/ \E age \in QuoteAges : set_fx_oracle(age)
  \/ register_oracle_pubkey
  \/ Halt
  \/ Tick
  \/ UNCHANGED vars

LEMMA QuietKeepsBooks ==
  ASSUME QuietStep
  PROVE  UNCHANGED <<reports, revenueIndex, lastReported, eventOnly, closed>>
BY Zenon DEF QuietStep, repair_audit_summary, set_testnet_mode, set_dual_sig_config,
  SetOfferingFreeze, SetPause, set_min_revenue_threshold, set_report_window,
  set_concentration_limit, report_concentration, set_fx_oracle,
  register_oracle_pubkey, Halt, Tick, Setting, vars, bookVars, configVars

LEMMA Bounds ==
  /\ I128_MAX \in Nat \ {0} /\ I128_MIN \in Int /\ I128_MIN = -I128_MAX - 1
  /\ I128 \subseteq Int /\ 0 \in I128 /\ I128_MAX \in I128
  /\ \A x \in Int : x \in I128 <=> I128_MIN <= x /\ x <= I128_MAX
BY Sizes DEF I128, I128_MIN

\* Saturating arithmetic stays within i128 and changes nothing that fits.
LEMMA ClampFits ==
  ASSUME NEW x \in Int
  PROVE  /\ Clamp(x) \in I128
         /\ x \in I128 => Clamp(x) = x
BY Bounds DEF Clamp

LEMMA QuotientIsSmaller ==
  ASSUME NEW r \in Nat, NEW n \in Nat \ {0}
  PROVE  r \div n \in 0..r
<1>1. r \div n \in Nat /\ n * (r \div n) <= r
  OBVIOUS
<1> DEFINE q == r \div n
<1>2. q \in Nat /\ n * q <= r
  BY <1>1
<1> HIDE DEF q
<1>3. q <= n * q
  BY <1>2
<1>4. n * q \in Nat
  BY <1>2
<1>5. q \in 0..r
  BY <1>2, <1>3, <1>4
<1> QED
  BY <1>5 DEF q

\* A quotient cut off towards 0 is no further from 0 than the dividend.
LEMMA QuotientFits ==
  ASSUME NEW x \in I128, NEW n \in Nat \ {0}
  PROVE  TruncDiv(x, n) \in I128
<1>1. x \in Int
  BY Bounds
<1>2. CASE x >= 0
  <2>1. x \in Nat
    BY <1>1, <1>2
  <2> DEFINE q == x \div n
  <2>2. q \in 0..x
    BY <2>1, QuotientIsSmaller
  <2>3. TruncDiv(x, n) = q
    BY <1>2 DEF TruncDiv
  <2> HIDE DEF q
  <2> QED
    BY <1>1, <1>2, <2>2, <2>3, Bounds
<1>3. CASE ~(x >= 0)
  <2>1. -x \in Nat
    BY <1>1, <1>3
  <2> DEFINE q == (-x) \div n
  <2>2. q \in 0..(-x)
    BY <2>1, QuotientIsSmaller
  <2>3. TruncDiv(x, n) = -q
    BY <1>3 DEF TruncDiv
  <2> HIDE DEF q
  <2> QED
    BY <1>1, <1>3, <2>2, <2>3, Bounds
<1> QED
  BY <1>2, <1>3

\* Whatever the rate, a conversion yields an i128.
LEMMA ConvertedFits ==
  ASSUME NEW a \in Amounts, NEW quote \in Quotes \cup {None}
  PROVE  Converted(a, quote) \in I128
<1>1. a \in I128 /\ a \in Int
  BY InputRanges, Bounds
<1>2. CASE quote = None
  BY <1>1, <1>2 DEF Converted
<1>3. CASE quote # None
  <2>1. quote.rate \in Int
    <3>1. quote \in [rate : Rates, at : 0..MaxTime]
      BY <1>3 DEF Quotes
    <3>2. quote.rate \in Rates
      BY <3>1
    <3> QED
      BY <3>2, InputRanges, Bounds
  <2>2. a * quote.rate \in Int
    BY <1>1, <2>1
  <2>3. TruncDiv(Clamp(a * quote.rate), BPS_DENOMINATOR) \in I128
    BY <2>2, ClampFits, QuotientFits, Sizes
  <2> QED
    BY <1>3, <2>3 DEF Converted
<1> QED
  BY <1>2, <1>3

\* Whatever is added to the accrual index is an i128, and 0 adds nothing.
LEMMA DeltaFits ==
  /\ \A a \in Int : AccrualDelta(a) \in I128 /\ AccrualDelta(a) \in Int
  /\ AccrualDelta(0) = 0
<1>1. ASSUME NEW a \in Int PROVE AccrualDelta(a) \in I128
  <2>1. a * E18 \in Int
    BY Sizes
  <2> QED
    BY <2>1, ClampFits, QuotientFits, Sizes DEF AccrualDelta
<1>2. AccrualDelta(0) = 0
  <2>1. 0 * E18 = 0 /\ Clamp(0) = 0
    BY Sizes, Bounds DEF Clamp
  <2>2. 0 \div BPS_DENOMINATOR = 0
    BY Sizes
  <2> QED
    BY <2>1, <2>2 DEF AccrualDelta, TruncDiv
<1> QED
  BY <1>1, <1>2, Bounds

\* Storing an integer under a period that is there, or the next one.
LEMMA StoreKeepsBooks ==
  ASSUME BooksSound, ~eventOnly, UNCHANGED eventOnly,
         NEW p, NEW a \in Int, StoreReport(p, a),
         \/ p \in DOMAIN reports /\ UNCHANGED lastReported
         \/ p = lastReported + 1 /\ lastReported' = p
  PROVE  BooksSound'
<1>1. /\ reports' = [i \in DOMAIN reports \cup {p} |-> IF i = p THEN a ELSE reports[i]]
      /\ revenueIndex' = [i \in DOMAIN revenueIndex \cup {p} |->
                            IF i = p THEN a ELSE revenueIndex[i]]
  BY Zenon DEF StoreReport, Stored
<1>2. /\ DOMAIN reports = 1..lastReported /\ lastReported \in Nat
      /\ revenueIndex = reports
      /\ \A i \in DOMAIN reports : reports[i] \in Int
  BY DEF BooksSound, BooksAgree
<1>3. lastReported' \in Nat /\ DOMAIN reports' = 1..lastReported'
  BY <1>1, <1>2
<1>4. \A i \in DOMAIN reports' : reports'[i] \in Int
  BY <1>1, <1>2
<1> QED
  BY <1>1, <1>2, <1>3, <1>4 DEF BooksSound, BooksAgree

\* A report that stores nothing, a correction, or the next report.
LEMMA ReportEffect ==
  ASSUME NEW p \in 1..MaxPeriods, NEW a \in Amounts, NEW quote \in Quotes \cup {None},
         NEW signed \in BOOLEAN, NEW override \in BOOLEAN,
         report_revenue_internal(p, a, quote, signed, override)
  PROVE  /\ UNCHANGED <<eventOnly, closed>>
         /\ \/ UNCHANGED <<reports, revenueIndex, lastReported>>
            \/ /\ ~eventOnly
               /\ \/ OverrideReport(p, Converted(a, quote))
                  \/ FirstReport(p, Converted(a, quote))
BY Zenon DEF report_revenue_internal, BookReport, DuplicateReport, ReportBelowThreshold,
  StoresNothing, bookVars, configVars

LEMMA ReportKeepsBooks ==
  ASSUME BooksSound,
         NEW p \in 1..MaxPeriods, NEW a \in Amounts, NEW quote \in Quotes \cup {None},
         NEW signed \in BOOLEAN, NEW override \in BOOLEAN,
         report_revenue_internal(p, a, quote, signed, override)
  PROVE  BooksSound'
<1>1. CASE UNCHANGED <<reports, revenueIndex, lastReported>>
  BY <1>1, ReportEffect DEF BooksSound, BooksAgree
<1>2. CASE ~eventOnly /\ OverrideReport(p, Converted(a, quote))
  BY <1>2, ReportEffect, ConvertedFits, Bounds, StoreKeepsBooks DEF OverrideReport, Overridable
<1>3. CASE ~eventOnly /\ FirstReport(p, Converted(a, quote))
  BY <1>3, ReportEffect, ConvertedFits, Bounds, StoreKeepsBooks
    DEF FirstReport, require_next_period_id
<1> QED
  BY <1>1, <1>2, <1>3, ReportEffect

\* Every step reports, closes a period, or is quiet.
LEMMA StepKinds ==
  ASSUME [Next]_vars
  PROVE  \/ \E p \in 1..MaxPeriods, a \in Amounts, quote \in Quotes \cup {None},
              signed, override \in BOOLEAN :
               report_revenue_internal(p, a, quote, signed, override)
         \/ \E p \in 1..MaxPeriods : CloseNow(p)
         \/ QuietStep
BY Zenon DEF Next, report_revenue, report_revenue_with_attestation, close_period,
  close_period_dual_sig, QuietStep

LEMMA BooksStep ==
  ASSUME BooksSound, [Next]_vars
  PROVE  BooksSound'
<1>1. CASE UNCHANGED <<reports, revenueIndex, lastReported, eventOnly>>
  BY <1>1 DEF BooksSound, BooksAgree
<1>2. ASSUME NEW p \in 1..MaxPeriods, CloseNow(p)
      PROVE  UNCHANGED <<reports, revenueIndex, lastReported, eventOnly>>
  BY <1>2 DEF CloseNow, bookVars, configVars
<1> QED
  BY <1>1, <1>2, StepKinds, QuietKeepsBooks, ReportKeepsBooks

LEMMA InitIsSound ==
  ASSUME Init
  PROVE  BooksSound
<1>1. reports = Nothing /\ revenueIndex = Nothing /\ lastReported = 0
  BY DEF Init
<1>2. DOMAIN reports = {} /\ 1..0 = {}
  BY <1>1 DEF Nothing
<1> QED
  BY <1>1, <1>2 DEF BooksSound, BooksAgree

(***************************************************************************)
(* For any inputs and any number of periods, the reports, the index of     *)
(* their amounts and the cursor describe the same gapless periods, and     *)
(* event-only mode leaves them empty.                                      *)
(***************************************************************************)
THEOREM BooksAlwaysAgree == Spec => []BooksAgree
<1>1. Init => BooksSound
  BY InitIsSound
<1>2. BooksSound /\ [Next]_vars => BooksSound'
  BY BooksStep
<1>3. BooksSound => BooksAgree
  BY DEF BooksSound
<1> QED
  BY <1>1, <1>2, <1>3, PTL DEF Spec

-----------------------------------------------------------------------------

\* The ledger the books stand for is a sequence of integers.
LEMMA LedgerIsSeq ==
  ASSUME BooksSound
  PROVE  /\ [p \in 1..lastReported |-> reports[p]] \in Seq(Int)
         /\ Len([p \in 1..lastReported |-> reports[p]]) = lastReported
BY DEF BooksSound, BooksAgree

\* A correction amends one entry whose period is not closed.
LEMMA OverrideAmends ==
  ASSUME BooksSound, NEW p \in 1..MaxPeriods, NEW a \in Int, OverrideReport(p, a),
         UNCHANGED closed
  PROVE  Ledger!Next
<1> DEFINE old == [i \in 1..lastReported |-> reports[i]]
           new == [i \in 1..lastReported' |-> reports'[i]]
<1>1. /\ p \in 1..lastReported /\ p \notin closed
      /\ lastReported' = lastReported
      /\ reports' = [i \in DOMAIN reports \cup {p} |->
                       IF i = p THEN a ELSE reports[i]]
  BY DEF OverrideReport, Overridable, StoreReport, Stored, BooksSound, BooksAgree
<1>2. \A i \in 1..lastReported : i # p => new[i] = old[i]
  BY <1>1 DEF BooksSound, BooksAgree
<1>3. new = [old EXCEPT ![p] = new[p]]
  BY <1>1, <1>2
<1>4. p \in DOMAIN old
  BY <1>1
<1>5. Ledger!Amend(p)
  BY <1>1, <1>3 DEF Ledger!Amend
<1> QED
  BY <1>4, <1>5 DEF Ledger!Next

\* A first report is one new entry at the end.
LEMMA FirstReportEnters ==
  ASSUME BooksSound, BooksSound', NEW p \in 1..MaxPeriods, NEW a \in Int,
         FirstReport(p, a), UNCHANGED closed
  PROVE  Ledger!Next
<1> DEFINE old == [i \in 1..lastReported |-> reports[i]]
           new == [i \in 1..lastReported' |-> reports'[i]]
<1>1. /\ lastReported \in Nat
      /\ lastReported' = lastReported + 1 /\ p = lastReported'
      /\ DOMAIN reports = 1..lastReported
      /\ reports' = [i \in DOMAIN reports \cup {p} |->
                       IF i = p THEN a ELSE reports[i]]
  BY DEF FirstReport, require_next_period_id, StoreReport, Stored, BooksSound, BooksAgree
<1>2. /\ old \in Seq(Int) /\ Len(old) = lastReported
      /\ new \in Seq(Int) /\ Len(new) = lastReported'
  <2>1. old \in Seq(Int) /\ Len(old) = lastReported
    BY LedgerIsSeq
  <2>2. \A i \in 1..lastReported' : new[i] \in Int
    BY <1>1 DEF BooksSound, BooksAgree
  <2>3. lastReported' \in Nat
    BY <1>1
  <2> HIDE DEF old
  <2>4. new \in Seq(Int) /\ Len(new) = lastReported'
    BY <2>2, <2>3
  <2> QED
    BY <2>1, <2>4
<1>3. \A i \in 1..lastReported : new[i] = old[i]
  BY <1>1
<1> HIDE DEF old, new
<1>4. old = SubSeq(new, 1, Len(old))
  BY <1>1, <1>2, <1>3
<1>5. Ledger!Enter
  BY <1>1, <1>2, <1>4 DEF Ledger!Enter, old, new
<1> QED
  BY <1>5 DEF Ledger!Next

(***************************************************************************)
(* For any inputs and any number of periods, the books are the ledger of   *)
(* RevenueLedger: entries are appended one period at a time, corrected     *)
(* only while their period is open, and never removed.                     *)
(***************************************************************************)
THEOREM ReportsAreALedger == Spec => ImplementsLedger
<1>1. Init => BooksSound /\ Ledger!Init
  <2> SUFFICES ASSUME Init PROVE BooksSound /\ Ledger!Init
    OBVIOUS
  <2>1. BooksSound
    BY InitIsSound
  <2>2. lastReported = 0 /\ closed = {}
    BY DEF Init
  <2>3. [p \in 1..lastReported |-> reports[p]] = <<>>
    <3>1. 1..0 = {}
      OBVIOUS
    <3> QED
      BY <2>2, <3>1
  <2> QED
    BY <2>1, <2>2, <2>3 DEF Ledger!Init
<1>2. BooksSound /\ [Next]_vars => BooksSound'
  BY BooksStep
<1>3. BooksSound /\ [Next]_vars => [Ledger!Next]_(Ledger!vars)
  <2> SUFFICES ASSUME BooksSound, [Next]_vars
               PROVE  Ledger!Next \/ UNCHANGED Ledger!vars
    OBVIOUS
  <2>1. CASE UNCHANGED <<reports, lastReported, closed>>
    BY <2>1 DEF Ledger!vars
  <2>2. ASSUME NEW p \in 1..MaxPeriods, CloseNow(p)
        PROVE  Ledger!Next
    <3>1. closed' = closed \cup {p} /\ p \notin closed
      BY <2>2 DEF CloseNow
    <3>2. UNCHANGED <<reports, lastReported>>
      BY <2>2 DEF CloseNow, bookVars
    <3> QED
      BY <3>1, <3>2 DEF Ledger!Next, Ledger!Seal
  <2>3. ASSUME NEW p \in 1..MaxPeriods, NEW a \in Amounts, NEW quote \in Quotes \cup {None},
               NEW signed \in BOOLEAN, NEW override \in BOOLEAN,
               report_revenue_internal(p, a, quote, signed, override)
        PROVE  Ledger!Next \/ UNCHANGED <<reports, lastReported, closed>>
    BY <2>3, ReportEffect, ConvertedFits, Bounds, OverrideAmends, FirstReportEnters, BooksStep
  <2> QED
    BY <2>1, <2>2, <2>3, StepKinds, QuietKeepsBooks
<1> QED
  BY <1>1, <1>2, <1>3, PTL DEF Spec, ImplementsLedger, Ledger!Spec

-----------------------------------------------------------------------------

\* Time, the limit and the figure have their types; the figure is not from the future.
FigureSound ==
  /\ now \in Nat
  /\ limit # None => limit.max_staleness_secs \in Nat
  /\ concentration # None => concentration.at \in Nat /\ concentration.at <= now
  /\ reportWindow # None => reportWindow \in Window

LEMMA FigureStep ==
  ASSUME FigureSound, [Next]_vars
  PROVE  FigureSound'
<1>1. CASE UNCHANGED <<now, limit, concentration, reportWindow>>
  BY <1>1 DEF FigureSound
<1>2. ASSUME NEW config \in ConcentrationLimits, set_concentration_limit(config)
      PROVE  FigureSound'
  <2>1. config.max_staleness_secs \in Nat
    BY InputRanges DEF Limit
  <2> QED
    BY <1>2, <2>1 DEF set_concentration_limit, Setting, gateVars, FigureSound
<1>3. ASSUME NEW bps \in Concentrations, report_concentration(bps)
      PROVE  FigureSound'
  BY <1>3 DEF report_concentration, Setting, gateVars, FigureSound
<1>4. CASE Tick
  BY <1>4 DEF Tick, configVars, gateVars, FigureSound
<1>5. ASSUME NEW window \in Windows, set_report_window(window)
      PROVE  FigureSound'
  <2>1. window \in Window
    BY InputRanges
  <2> QED
    BY <1>5, <2>1 DEF set_report_window, Setting, configVars, FigureSound
<1>6. CASE QuietStep
  <2>1. \/ UNCHANGED <<now, limit, concentration, reportWindow>>
        \/ \E config \in ConcentrationLimits : set_concentration_limit(config)
        \/ \E bps \in Concentrations : report_concentration(bps)
        \/ \E window \in Windows : set_report_window(window)
        \/ Tick
    BY <1>6, Zenon DEF QuietStep, repair_audit_summary, set_testnet_mode,
      set_dual_sig_config, SetOfferingFreeze, SetPause, set_min_revenue_threshold,
      set_fx_oracle, register_oracle_pubkey, Halt, Setting, vars, gateVars, configVars
  <2> QED
    BY <2>1, <1>1, <1>2, <1>3, <1>4, <1>5
<1>7. ASSUME NEW p \in 1..MaxPeriods, CloseNow(p)
      PROVE  UNCHANGED <<now, limit, concentration, reportWindow>>
  BY <1>7 DEF CloseNow, gateVars, configVars
<1>8. ASSUME NEW p \in 1..MaxPeriods, NEW a \in Amounts, NEW quote \in Quotes \cup {None},
             NEW signed \in BOOLEAN, NEW override \in BOOLEAN,
             report_revenue_internal(p, a, quote, signed, override)
      PROVE  UNCHANGED <<now, limit, concentration, reportWindow>>
  BY <1>8 DEF report_revenue_internal, gateVars, configVars
<1> QED
  BY <1>1, <1>6, <1>7, <1>8, StepKinds

(***************************************************************************)
(* For any windows, limits, ages and figures: the books change only within *)
(* the report window and, while a limit is enforced, only on a figure      *)
(* within it and no older than it allows.                                  *)
(***************************************************************************)
THEOREM FreshFiguresOnly == Spec => BookedOnFreshFigures
<1>1. Init => FigureSound
  BY DEF Init, FigureSound
<1>2. FigureSound /\ [Next]_vars => FigureSound'
  BY FigureStep
<1>3. FigureSound /\ [Next]_vars =>
        [ reports' # reports =>
            /\ reportWindow # None => now \in reportWindow.start .. reportWindow.end
            /\ ~testnetMode /\ limit # None /\ limit.enforce /\ limit.max_bps > 0
               => IF concentration = None THEN limit.max_staleness_secs = 0
                  ELSE /\ concentration.bps <= limit.max_bps
                       /\ limit.max_staleness_secs > 0 =>
                            concentration.at \in now - limit.max_staleness_secs .. now ]_vars
  <2> SUFFICES ASSUME FigureSound, [Next]_vars, reports' # reports
               PROVE  /\ reportWindow # None => now \in reportWindow.start .. reportWindow.end
                      /\ ~testnetMode /\ limit # None /\ limit.enforce /\ limit.max_bps > 0
                         => IF concentration = None THEN limit.max_staleness_secs = 0
                            ELSE /\ concentration.bps <= limit.max_bps
                                 /\ limit.max_staleness_secs > 0 =>
                                      concentration.at
                                        \in now - limit.max_staleness_secs .. now
    OBVIOUS
  <2>1. ASSUME NEW p \in 1..MaxPeriods, CloseNow(p)
        PROVE  FALSE
    BY <2>1 DEF CloseNow, bookVars
  <2>2. ConcentrationAllows /\ require_report_window_open
    BY <2>1, StepKinds, QuietKeepsBooks, Zenon
      DEF report_revenue_internal, CheckedReport, bookVars
  <2>3. reportWindow # None => now \in reportWindow.start .. reportWindow.end
    <3> SUFFICES ASSUME reportWindow # None
                 PROVE  now \in reportWindow.start .. reportWindow.end
      OBVIOUS
    <3>1. now >= reportWindow.start /\ now <= reportWindow.end
      BY <2>2 DEF require_report_window_open, is_window_open
    <3>2. now \in Int /\ reportWindow.start \in Int /\ reportWindow.end \in Int
      BY DEF FigureSound, Window
    <3> QED
      BY <3>1, <3>2
  <2>4. ASSUME ~testnetMode, limit # None, limit.enforce, limit.max_bps > 0
        PROVE  IF concentration = None THEN limit.max_staleness_secs = 0
               ELSE /\ concentration.bps <= limit.max_bps
                    /\ limit.max_staleness_secs > 0 =>
                         concentration.at \in now - limit.max_staleness_secs .. now
    <3>1. FigureIsFresh /\ FigureIsWithinLimit
      BY <2>2, <2>4 DEF ConcentrationAllows
    <3> QED
      BY <2>4, <3>1 DEF FigureIsFresh, FigureIsWithinLimit, FigureSound
  <2> QED
    BY <2>3, <2>4
<1> QED
  BY <1>1, <1>2, <1>3, PTL DEF Spec, BookedOnFreshFigures

-----------------------------------------------------------------------------
(***************************************************************************)
(* Amounts added up in the order of their periods                          *)
(***************************************************************************)

LEMMA SumsFit ==
  ASSUME NEW a, NEW b
  PROVE  /\ AddOrMax(a, b) \in I128
         /\ a + b \in I128 => AddOrMax(a, b) = a + b
BY Bounds DEF AddOrMax

\* total adds up the periods first .. last of m one after the other.
Adds(total, m, first, last) ==
  total = [p \in first - 1 .. last |->
             IF p = first - 1 THEN 0 ELSE AddOrMax(total[p - 1], AmountAt(m, p))]

LEMMA RunningTotalIsTheSolution ==
  ASSUME NEW m, NEW first, NEW last
  PROVE  RunningTotal(m, first, last) = CHOOSE total : Adds(total, m, first, last)
BY DEF RunningTotal, Adds

\* The recursion has a solution.
LEMMA TotalExists ==
  ASSUME NEW m, NEW first \in Int, NEW n \in Nat
  PROVE  \E total : Adds(total, m, first, first - 1 + n)
<1> DEFINE S == {k \in 0 .. n : \E total : Adds(total, m, first, first - 1 + k)}
<1>1. 0 \in S
  <2> DEFINE total == [p \in first - 1 .. first - 1 |-> 0]
  <2>1. Adds(total, m, first, first - 1 + 0)
    BY DEF Adds
  <2> QED
    BY <2>1
<1>2. ASSUME NEW k \in 0 .. n - 1, k \in S
      PROVE  k + 1 \in S
  <2>1. PICK old : Adds(old, m, first, first - 1 + k)
    BY <1>2
  <2> DEFINE end == first - 1 + k
             total == [p \in first - 1 .. end + 1 |->
                         IF p = end + 1 THEN AddOrMax(old[end], AmountAt(m, end + 1))
                         ELSE old[p]]
  <2>2. end \in Int /\ first - 1 <= end
    OBVIOUS
  <2>3. \A p \in first - 1 .. end :
          old[p] = IF p = first - 1 THEN 0 ELSE AddOrMax(old[p - 1], AmountAt(m, p))
    BY <2>1 DEF Adds
  <2>4. first - 1 + (k + 1) = end + 1
    OBVIOUS
  <2> HIDE DEF end
  <2>5. ASSUME NEW p \in first - 1 .. end + 1
        PROVE  total[p] = IF p = first - 1 THEN 0 ELSE AddOrMax(total[p - 1], AmountAt(m, p))
    <3>1. \A i \in first - 1 .. end : total[i] = old[i]
      BY <2>2
    <3>2. CASE p = end + 1
      <4>1. p # first - 1 /\ p - 1 = end /\ end \in first - 1 .. end
        BY <2>2, <3>2
      <4>2. total[p] = AddOrMax(old[end], AmountAt(m, p))
        BY <3>2
      <4> HIDE DEF total
      <4> QED
        BY <3>1, <4>1, <4>2
    <3>3. CASE p # end + 1
      <4>1. p \in first - 1 .. end /\ total[p] = old[p]
        BY <2>2, <3>3
      <4>2. p # first - 1 => p - 1 \in first - 1 .. end
        BY <2>2, <4>1
      <4> HIDE DEF total
      <4> QED
        BY <2>3, <3>1, <4>1, <4>2
    <3> QED
      BY <3>2, <3>3
  <2>6. total = [p \in first - 1 .. end + 1 |-> total[p]]
    OBVIOUS
  <2> HIDE DEF total
  <2>7. Adds(total, m, first, first - 1 + (k + 1))
    BY <2>4, <2>5, <2>6 DEF Adds
  <2> QED
    BY <2>7
<1> HIDE DEF S
<1>3. n \in S
  BY <1>1, <1>2, CountingUp
<1> QED
  BY <1>3 DEF S

\* What RunningTotal computes, period by period.
LEMMA RunningTotalUnfolds ==
  ASSUME NEW m, NEW first \in Int, NEW last \in Int, first <= last + 1
  PROVE  /\ RunningTotal(m, first, last)[first - 1] = 0
         /\ \A p \in first .. last :
              RunningTotal(m, first, last)[p] =
                AddOrMax(RunningTotal(m, first, last)[p - 1], AmountAt(m, p))
<1> DEFINE total == RunningTotal(m, first, last)
           n == last - first + 1
<1>1. n \in Nat /\ first - 1 + n = last
  OBVIOUS
<1> HIDE DEF n
<1>2. Adds(total, m, first, last)
  BY <1>1, TotalExists, RunningTotalIsTheSolution
<1> HIDE DEF total
<1>3. ASSUME NEW p \in first - 1 .. last
      PROVE  total[p] = IF p = first - 1 THEN 0 ELSE AddOrMax(total[p - 1], AmountAt(m, p))
  BY <1>2 DEF Adds
<1>4. first - 1 \in first - 1 .. last
  OBVIOUS
<1>5. \A p \in first .. last : p \in first - 1 .. last /\ p # first - 1
  OBVIOUS
<1> QED
  BY <1>3, <1>4, <1>5 DEF total

LEMMA AddedUpFits ==
  ASSUME NEW m, NEW first \in Int, NEW last \in Int
  PROVE  AddedUp(m, first, last) \in I128
<1>1. CASE first > last
  BY <1>1, Bounds DEF AddedUp
<1>2. CASE ~(first > last)
  <2>1. first <= last + 1 /\ last \in first .. last
    BY <1>2
  <2>2. RunningTotal(m, first, last)[last] \in I128
    BY <2>1, RunningTotalUnfolds, SumsFit
  <2> QED
    BY <1>2, <2>2 DEF AddedUp
<1> QED
  BY <1>1, <1>2

\* Maps with the same amounts have the same totals, whatever follows.
LEMMA TotalsAgree ==
  ASSUME NEW m, NEW q, NEW first \in Int, NEW last \in Int, NEW end \in Int,
         first <= last, last <= end,
         \A p \in first .. last : AmountAt(m, p) = AmountAt(q, p)
  PROVE  RunningTotal(m, first, last)[last] = RunningTotal(q, first, end)[last]
<1> DEFINE t == RunningTotal(m, first, last)
           u == RunningTotal(q, first, end)
           n == last - first + 1
           S == {k \in 0 .. n : t[first - 1 + k] = u[first - 1 + k]}
<1>1. /\ t[first - 1] = 0 /\ u[first - 1] = 0
      /\ \A p \in first .. last : t[p] = AddOrMax(t[p - 1], AmountAt(m, p))
      /\ \A p \in first .. end : u[p] = AddOrMax(u[p - 1], AmountAt(q, p))
  BY RunningTotalUnfolds
<1> HIDE DEF t, u
<1>2. n \in Nat /\ first - 1 + n = last /\ first - 1 + 0 = first - 1
  OBVIOUS
<1>3. 0 \in S
  BY <1>1, <1>2
<1>4. ASSUME NEW k \in 0 .. n - 1, k \in S
      PROVE  k + 1 \in S
  <2> DEFINE p == first - 1 + (k + 1)
  <2>1. /\ p \in first .. last /\ p \in first .. end /\ p - 1 = first - 1 + k
        /\ k + 1 \in 0 .. n
    OBVIOUS
  <2>2. t[first - 1 + k] = u[first - 1 + k]
    BY <1>4
  <2> HIDE DEF p, n
  <2>3. t[p] = u[p]
    BY <1>1, <2>1, <2>2
  <2> QED
    BY <2>1, <2>3 DEF p
<1> HIDE DEF S
<1>5. n \in S
  BY <1>2, <1>3, <1>4, CountingUp
<1> QED
  BY <1>2, <1>5 DEF S, t, u

\* The amounts of m under the given periods, added up without a bound.
RawOf(m, periods) == SumFunctionOnSet([p \in periods |-> AmountAt(m, p)], periods)

\* An integer is kept under every period.
Amounted(m) == \A p : AmountAt(m, p) \in Int

LEMMA RawIsInt ==
  ASSUME NEW m, Amounted(m), NEW S, IsFiniteSet(S)
  PROVE  RawOf(m, S) \in Int
<1> DEFINE f == [p \in S |-> AmountAt(m, p)]
<1>1. \A p \in S : f[p] \in Int
  BY DEF Amounted
<1> HIDE DEF f
<1>2. SumFunctionOnSet(f, S) \in Int
  BY <1>1, SumIsInt
<1> QED
  BY <1>2 DEF RawOf, f

\* Two sets of periods apart.
LEMMA RawAddsUp ==
  ASSUME NEW m, Amounted(m), NEW S, NEW T, IsFiniteSet(S), IsFiniteSet(T), S \cap T = {}
  PROVE  RawOf(m, S \cup T) = RawOf(m, S) + RawOf(m, T)
<1> DEFINE f(U) == [p \in U |-> AmountAt(m, p)]
           all == f(S \cup T)
           left == f(S)
           right == f(T)
<1>1. /\ \A p \in S \cup T : all[p] \in Int
      /\ \A p \in S : all[p] \in Int /\ all[p] = left[p]
      /\ \A p \in T : all[p] \in Int /\ all[p] = right[p]
  BY DEF Amounted
<1>2. RawOf(m, S \cup T) = SumFunctionOnSet(all, S \cup T)
  BY DEF RawOf
<1>3. RawOf(m, S) = SumFunctionOnSet(left, S)
  BY DEF RawOf
<1>4. RawOf(m, T) = SumFunctionOnSet(right, T)
  BY DEF RawOf
<1> HIDE DEF all, left, right
<1>5. SumFunctionOnSet(all, S \cup T) = SumFunctionOnSet(all, S) + SumFunctionOnSet(all, T)
  BY <1>1, SumOfUnion
<1>6. SumFunctionOnSet(all, S) = SumFunctionOnSet(left, S)
  BY <1>1, SumOfSameTerms
<1>7. SumFunctionOnSet(all, T) = SumFunctionOnSet(right, T)
  BY <1>1, SumOfSameTerms
<1> QED
  BY <1>2, <1>3, <1>4, <1>5, <1>6, <1>7

\* One period more.
LEMMA RawGrows ==
  ASSUME NEW m, Amounted(m), NEW first \in Int, NEW p \in Int, first <= p
  PROVE  /\ RawOf(m, first .. p) = RawOf(m, first .. p - 1) + AmountAt(m, p)
         /\ RawOf(m, first .. first - 1) = 0
         /\ RawOf(m, first .. p - 1) \in Int
<1> DEFINE S == first .. p - 1
<1>1. S \cup {p} = first .. p /\ S \cap {p} = {}
  OBVIOUS
<1>2. IsFiniteSet(S) /\ IsFiniteSet({p})
  <2>1. p - 1 \in Int
    OBVIOUS
  <2> QED
    BY <2>1, RangeIsFinite, FS_Singleton
<1>3. RawOf(m, {p}) = AmountAt(m, p)
  <2> DEFINE f == [i \in {p} |-> AmountAt(m, i)]
  <2>1. f[p] = AmountAt(m, p) /\ f[p] \in Int
    BY DEF Amounted
  <2> HIDE DEF f
  <2>2. SumFunctionOnSet(f, {p}) = f[p]
    BY <2>1, SumOfOne
  <2> QED
    BY <2>1, <2>2 DEF RawOf, f
<1> HIDE DEF S
<1>4. RawOf(m, S \cup {p}) = RawOf(m, S) + RawOf(m, {p})
  BY <1>1, <1>2, RawAddsUp
<1>5. first .. first - 1 = {}
  OBVIOUS
<1>6. RawOf(m, {}) = 0
  BY SumOfNone DEF RawOf
<1>7. RawOf(m, S) \in Int
  BY <1>2, RawIsInt
<1> QED
  BY <1>1, <1>3, <1>4, <1>5, <1>6, <1>7 DEF S

\* A total is exact when nothing is cut off on the way.
LEMMA ExactTotal ==
  ASSUME NEW m, Amounted(m), NEW first \in Int, NEW last \in Int, first <= last,
         \A p \in first .. last :
           RunningTotal(m, first, last)[p - 1] = RawOf(m, first .. p - 1) =>
             RunningTotal(m, first, last)[p - 1] + AmountAt(m, p) \in I128
  PROVE  AddedUp(m, first, last) = RawOf(m, first .. last)
<1> DEFINE t == RunningTotal(m, first, last)
           n == last - first + 1
           S == {k \in 0 .. n : t[first - 1 + k] = RawOf(m, first .. first - 1 + k)}
<1>1. /\ t[first - 1] = 0
      /\ \A p \in first .. last : t[p] = AddOrMax(t[p - 1], AmountAt(m, p))
      /\ \A p \in first .. last : t[p - 1] = RawOf(m, first .. p - 1) =>
                                     t[p - 1] + AmountAt(m, p) \in I128
  BY RunningTotalUnfolds
<1>2. AddedUp(m, first, last) = t[last]
  BY DEF AddedUp
<1> HIDE DEF t
<1>3. n \in Nat /\ first - 1 + n = last /\ first - 1 + 0 = first - 1
  OBVIOUS
<1>4. 0 \in S
  <2>1. RawOf(m, first .. first - 1) = 0
    BY RawGrows
  <2>2. 0 \in 0 .. n
    BY <1>3
  <2> HIDE DEF n
  <2> QED
    BY <1>1, <1>3, <2>1, <2>2
<1>5. ASSUME NEW k \in 0 .. n - 1, k \in S
      PROVE  k + 1 \in S
  <2> DEFINE p == first - 1 + (k + 1)
  <2>1. /\ p \in first .. last /\ p \in Int /\ first <= p /\ p - 1 = first - 1 + k
        /\ k + 1 \in 0 .. n
    OBVIOUS
  <2>2. t[first - 1 + k] = RawOf(m, first .. first - 1 + k)
    BY <1>5
  <2> HIDE DEF p, n
  <2>3. t[p - 1] = RawOf(m, first .. p - 1)
    BY <2>1, <2>2
  <2>4. t[p] = t[p - 1] + AmountAt(m, p)
    BY <1>1, <2>1, <2>3, SumsFit
  <2>5. t[p] = RawOf(m, first .. p)
    BY <2>1, <2>3, <2>4, RawGrows
  <2> QED
    BY <2>1, <2>5 DEF p
<1> HIDE DEF S, n
<1>6. n \in S
  <2>1. \A k \in 0 .. n - 1 : k \in S => k + 1 \in S
    BY <1>5
  <2>2. \A k \in 0 .. n : k \in S
    BY <1>3, <1>4, <2>1, CountingUp, Zenon
  <2> QED
    BY <1>3, <2>2
<1> QED
  BY <1>2, <1>3, <1>6 DEF S

\* A total of amounts that are not negative is cut off at the largest i128.
LEMMA CutOffTotal ==
  ASSUME NEW m, Amounted(m), NEW first \in Int, NEW last \in Int, first <= last,
         \A p \in first .. last : AmountAt(m, p) >= 0
  PROVE  /\ AddedUp(m, first, last) = Smaller(RawOf(m, first .. last), I128_MAX)
         /\ RawOf(m, first .. last) \in Nat
<1> DEFINE t == RunningTotal(m, first, last)
           n == last - first + 1
           S == {k \in 0 .. n :
                   /\ RawOf(m, first .. first - 1 + k) \in Nat
                   /\ t[first - 1 + k] = Smaller(RawOf(m, first .. first - 1 + k), I128_MAX)}
<1>1. /\ t[first - 1] = 0
      /\ \A p \in first .. last : t[p] = AddOrMax(t[p - 1], AmountAt(m, p))
  BY RunningTotalUnfolds
<1>2. AddedUp(m, first, last) = t[last]
  BY DEF AddedUp
<1> HIDE DEF t
<1>3. n \in Nat /\ first - 1 + n = last /\ first - 1 + 0 = first - 1
  OBVIOUS
<1>4. 0 \in S
  <2>1. RawOf(m, first .. first - 1) = 0
    BY RawGrows
  <2>2. Smaller(0, I128_MAX) = 0
    BY Bounds DEF Smaller
  <2> QED
    BY <1>1, <1>3, <2>1, <2>2
<1>5. ASSUME NEW k \in 0 .. n - 1, k \in S
      PROVE  k + 1 \in S
  <2> DEFINE p == first - 1 + (k + 1)
             raw == RawOf(m, first .. p - 1)
             a == AmountAt(m, p)
  <2>1. /\ p \in first .. last /\ p \in Int /\ first <= p /\ p - 1 = first - 1 + k
        /\ k + 1 \in 0 .. n
    OBVIOUS
  <2>2. /\ RawOf(m, first .. first - 1 + k) \in Nat
        /\ t[first - 1 + k] = Smaller(RawOf(m, first .. first - 1 + k), I128_MAX)
    BY <1>5
  <2> HIDE DEF p, n
  <2>3. raw \in Nat /\ t[p - 1] = Smaller(raw, I128_MAX)
    BY <2>1, <2>2
  <2>4. a \in Nat
    BY <2>1 DEF Amounted
  <2>5. RawOf(m, first .. p) = raw + a /\ t[p] = AddOrMax(t[p - 1], a)
    BY <1>1, <2>1, RawGrows
  <2> HIDE DEF raw, a
  <2>6. AddOrMax(Smaller(raw, I128_MAX), a) = Smaller(raw + a, I128_MAX)
    BY <2>3, <2>4, Bounds DEF AddOrMax, Smaller
  <2>7. RawOf(m, first .. p) \in Nat /\ t[p] = Smaller(RawOf(m, first .. p), I128_MAX)
    BY <2>3, <2>4, <2>5, <2>6
  <2> QED
    BY <2>1, <2>7 DEF p
<1> HIDE DEF S, n
<1>6. n \in S
  BY <1>3, <1>4, <1>5, CountingUp
<1> QED
  BY <1>2, <1>3, <1>6 DEF S

-----------------------------------------------------------------------------
(***************************************************************************)
(* Types                                                                   *)
(***************************************************************************)

LEMMA AmountIsInt ==
  ASSUME NEW m, NEW S, m \in [DOMAIN m -> S], S \subseteq Int, NEW p
  PROVE  AmountAt(m, p) \in Int
BY DEF AmountAt

\* Storing a report, with whatever it does to the summary, keeps the types.
LEMMA StoreKeepsTypes ==
  ASSUME TypeOK, NEW p \in 1..MaxPeriods, NEW a \in I128, StoreReport(p, a),
         summary' \in Summary, lastReported' \in Nat,
         UNCHANGED <<now, gateVars, configVars, closed, settings>>,
         capped' \in BOOLEAN
  PROVE  TypeOK'
<1>1. /\ reports' = [i \in DOMAIN reports \cup {p} |-> IF i = p THEN a ELSE reports[i]]
      /\ revenueIndex' = [i \in DOMAIN revenueIndex \cup {p} |->
                            IF i = p THEN a ELSE revenueIndex[i]]
      /\ accrualIndex' = Clamp(accrualIndex + AccrualDelta(a))
      /\ indexCapped' = (indexCapped \/ accrualIndex + AccrualDelta(a) \notin I128)
      /\ replaced' = IF indexCapped' THEN 0 ELSE replaced + AccrualDelta(AmountAt(reports, p))
  BY Zenon DEF StoreReport, Stored, AcceptReport, update_and_emit_accrual_index
<1>2. a \in Int /\ AccrualDelta(a) \in Int /\ AccrualDelta(AmountAt(reports, p)) \in Int
  <2>1. a \in Int /\ AmountAt(reports, p) \in Int
    BY AmountIsInt, Bounds DEF TypeOK, BookTypeOK
  <2> QED
    BY <2>1, DeltaFits
<1>3. BookTypeOK'
  <2>1. reports' \in [DOMAIN reports' -> I128] /\ DOMAIN reports' \subseteq Nat \ {0}
    BY <1>1 DEF TypeOK, BookTypeOK
  <2>2. revenueIndex' \in [DOMAIN revenueIndex' -> I128]
    BY <1>1 DEF TypeOK, BookTypeOK
  <2>3. accrualIndex' \in I128
    <3>1. accrualIndex + AccrualDelta(a) \in Int
      BY <1>2, Bounds DEF TypeOK, BookTypeOK
    <3> QED
      BY <1>1, <3>1, ClampFits
  <2>4. closed' \subseteq Nat
    BY DEF TypeOK, BookTypeOK
  <2> QED
    BY <2>1, <2>2, <2>3, <2>4 DEF BookTypeOK
<1>4. GateTypeOK' /\ ConfigTypeOK'
  BY DEF TypeOK, GateTypeOK, ConfigTypeOK, gateVars, configVars
<1>5. indexCapped' \in BOOLEAN
  BY <1>1
<1>6. replaced' \in Int
  BY <1>1, <1>2, <1>5 DEF TypeOK
<1> QED
  BY <1>3, <1>4, <1>5, <1>6 DEF TypeOK

LEMMA ReportKeepsTypes ==
  ASSUME TypeOK, NEW p \in 1..MaxPeriods, NEW a \in Amounts, NEW quote \in Quotes \cup {None},
         NEW signed \in BOOLEAN, NEW override \in BOOLEAN,
         report_revenue_internal(p, a, quote, signed, override)
  PROVE  TypeOK'
<1> DEFINE c == Converted(a, quote)
<1>1. c \in I128
  BY ConvertedFits
<1>2. UNCHANGED <<now, gateVars, configVars, closed, settings>>
  BY Zenon DEF report_revenue_internal
<1>3. \/ UNCHANGED <<bookVars, historyVars>>
      \/ OverrideReport(p, c)
      \/ FirstReport(p, c)
  BY Zenon DEF report_revenue_internal, BookReport, DuplicateReport, ReportBelowThreshold
<1>4. c \in Int /\ summary \in Summary /\ summary.total_revenue \in Int
  BY <1>1, Bounds DEF TypeOK, BookTypeOK, Summary
<1> HIDE DEF c
<1>5. CASE UNCHANGED <<bookVars, historyVars>>
  BY <1>2, <1>5 DEF TypeOK, GateTypeOK, ConfigTypeOK, BookTypeOK, gateVars, configVars,
    bookVars, historyVars
<1>6. CASE OverrideReport(p, c)
  <2> DEFINE delta == AppliedDelta(p, c)
  <2>1. delta \in Int
    BY Bounds DEF AppliedDelta
  <2>2. /\ summary' = [summary EXCEPT !.total_revenue = AddOrMax(@, delta)]
        /\ lastReported' = lastReported /\ StoreReport(p, c)
    BY <1>6 DEF OverrideReport
  <2>3. capped' \in BOOLEAN
    BY <1>6 DEF OverrideReport
  <2> HIDE DEF delta
  <2>4. AddOrMax(summary.total_revenue, delta) \in I128
    BY <1>4, <2>1, SumsFit
  <2>5. summary' \in Summary
    BY <1>4, <2>2, <2>4 DEF Summary
  <2>6. lastReported' \in Nat
    BY <2>2 DEF TypeOK, BookTypeOK
  <2> QED
    BY <1>1, <1>2, <2>2, <2>3, <2>5, <2>6, StoreKeepsTypes
<1>7. CASE FirstReport(p, c)
  <2>1. /\ summary' = [total_revenue |-> AddOrMax(summary.total_revenue, c),
                       report_count |-> summary.report_count + 1]
        /\ lastReported' = p /\ StoreReport(p, c)
    BY <1>7 DEF FirstReport
  <2>2. capped' \in BOOLEAN
    BY <1>7 DEF FirstReport
  <2>3. AddOrMax(summary.total_revenue, c) \in I128 /\ summary.report_count + 1 \in Nat
    BY <1>4, SumsFit DEF Summary
  <2>4. summary' \in Summary
    BY <2>1, <2>3 DEF Summary
  <2>5. lastReported' \in Nat
    BY <2>1
  <2> QED
    BY <1>1, <1>2, <2>1, <2>2, <2>4, <2>5, StoreKeepsTypes
<1> QED
  BY <1>3, <1>5, <1>6, <1>7

\* The repair counts finitely many reports and adds them up within an i128.
LEMMA RepairKeepsTypes ==
  ASSUME TypeOK, BooksAgree, repair_audit_summary
  PROVE  TypeOK'
<1>1. lastReported \in Nat /\ DOMAIN reports = 1..lastReported
  BY DEF BooksAgree, TypeOK, BookTypeOK
<1>2. Cardinality(DOMAIN reports) \in Nat
  BY <1>1, FS_Interval, FS_CardinalityType
<1>3. AddedUp(reports, 1, lastReported) \in I128
  BY <1>1, AddedUpFits
<1>4. summary' \in Summary
  BY <1>2, <1>3 DEF repair_audit_summary, compute_audit_summary_from_reports, Summary
<1>5. capped' \in BOOLEAN
  BY DEF repair_audit_summary, IsSaturated
<1>6. UNCHANGED <<now, gateVars, configVars, reports, revenueIndex, lastReported,
                  accrualIndex, closed, indexCapped, replaced, settings>>
  BY DEF repair_audit_summary
<1> QED
  BY <1>4, <1>5, <1>6 DEF TypeOK, GateTypeOK, ConfigTypeOK, BookTypeOK, gateVars, configVars

LEMMA TypeStep ==
  ASSUME TypeOK, BooksAgree, [Next]_vars
  PROVE  TypeOK'
<1> USE DEF TypeOK, GateTypeOK, ConfigTypeOK
<1>1. ASSUME NEW on \in BOOLEAN,
             \/ set_testnet_mode(on) \/ set_dual_sig_config(on)
             \/ SetOfferingFreeze(on) \/ SetPause(on)
      PROVE  TypeOK'
  BY <1>1 DEF set_testnet_mode, set_dual_sig_config, SetOfferingFreeze, SetPause, Setting,
    BookTypeOK, bookVars, gateVars, configVars, historyVars
<1>2. ASSUME \/ \E amount \in Thresholds : set_min_revenue_threshold(amount)
             \/ \E window \in Windows : set_report_window(window)
             \/ \E config \in ConcentrationLimits : set_concentration_limit(config)
             \/ \E age \in QuoteAges : set_fx_oracle(age)
             \/ register_oracle_pubkey \/ Halt \/ Tick
      PROVE  TypeOK'
  <2> USE DEF Setting, BookTypeOK, bookVars, gateVars, configVars, historyVars
  <2>1. ASSUME NEW amount \in Thresholds, set_min_revenue_threshold(amount)
        PROVE  TypeOK'
    <3>1. amount \in Nat
      BY InputRanges
    <3> QED
      BY <2>1, <3>1 DEF set_min_revenue_threshold
  <2>2. ASSUME NEW window \in Windows, set_report_window(window)
        PROVE  TypeOK'
    <3>1. window \in Window
      BY InputRanges
    <3> QED
      BY <2>2, <3>1 DEF set_report_window
  <2>3. ASSUME NEW config \in ConcentrationLimits, set_concentration_limit(config)
        PROVE  TypeOK'
    <3>1. config \in Limit
      BY InputRanges
    <3> QED
      BY <2>3, <3>1 DEF set_concentration_limit
  <2>4. ASSUME NEW age \in QuoteAges, set_fx_oracle(age)
        PROVE  TypeOK'
    <3>1. age \in Nat
      BY InputRanges
    <3> QED
      BY <2>4, <3>1 DEF set_fx_oracle
  <2>5. CASE register_oracle_pubkey
    BY <2>5 DEF register_oracle_pubkey
  <2>6. CASE Halt
    BY <2>6 DEF Halt
  <2>7. CASE Tick
    BY <2>7 DEF Tick
  <2> QED
    BY <1>2, <2>1, <2>2, <2>3, <2>4, <2>5, <2>6, <2>7, Zenon
<1>3. ASSUME NEW bps \in Concentrations, report_concentration(bps)
      PROVE  TypeOK'
  <2>1. [bps |-> bps, at |-> now] \in Concentration
    <3>1. bps \in Nat /\ bps <= FULL_BPS /\ FULL_BPS \in Nat
      BY <1>3, InputRanges DEF report_concentration, FULL_BPS
    <3> QED
      BY <3>1 DEF Concentration
  <2> QED
    BY <1>3, <2>1 DEF report_concentration, Setting, BookTypeOK, bookVars, gateVars, historyVars
<1>4. ASSUME NEW p \in 1..MaxPeriods, CloseNow(p)
      PROVE  TypeOK'
  <2>1. closed' \subseteq Nat
    BY <1>4 DEF CloseNow, BookTypeOK
  <2> QED
    BY <1>4, <2>1 DEF CloseNow, BookTypeOK, bookVars, gateVars, configVars, historyVars
<1>5. CASE UNCHANGED vars
  BY <1>5 DEF vars, BookTypeOK, bookVars, gateVars, configVars, historyVars
<1>6. CASE QuietStep
  BY <1>1, <1>2, <1>3, <1>5, <1>6, RepairKeepsTypes, Zenon DEF QuietStep
<1> QED
  BY <1>4, <1>6, StepKinds, ReportKeepsTypes, Zenon

(***************************************************************************)
(* For any inputs and any rates quoted, negative ones included, every      *)
(* amount, total and index kept fits an i128.                              *)
(***************************************************************************)
THEOREM ReportsTypeCorrect == Spec => []TypeOK
<1>1. Init => TypeOK
  <2> SUFFICES ASSUME Init
               PROVE  TypeOK
    OBVIOUS
  <2>1. GateTypeOK /\ ConfigTypeOK
    BY DEF Init, GateTypeOK, ConfigTypeOK
  <2>2. DOMAIN Nothing = {}
    BY DEF Nothing
  <2>3. Nothing \in [DOMAIN Nothing -> I128]
    BY DEF Nothing
  <2>4. BookTypeOK
    BY <2>2, <2>3, Bounds DEF Init, BookTypeOK, Summary
  <2>5. replaced \in Int /\ settings \in Nat
    BY DEF Init
  <2>6. capped \in BOOLEAN /\ indexCapped \in BOOLEAN
    BY DEF Init
  <2> QED
    BY <2>1, <2>4, <2>5, <2>6 DEF TypeOK
<1>2. TypeOK /\ BooksAgree /\ [Next]_vars => TypeOK'
  BY TypeStep
<1> QED
  BY <1>1, <1>2, BooksAlwaysAgree, PTL DEF Spec

-----------------------------------------------------------------------------
(***************************************************************************)
(* The sums kept beside the reports                                        *)
(***************************************************************************)

DeltasOf(r) == [p \in DOMAIN r |-> AccrualDelta(r[p])]
SumOf(f) == SumFunctionOnSet(f, DOMAIN f)

\* Finitely many reports, each of an amount.
Reported(r) == IsFiniteSet(DOMAIN r) /\ \A p \in DOMAIN r : r[p] \in Int

LEMMA ReportedSums ==
  ASSUME NEW r, Reported(r)
  PROVE  SumOf(r) \in Int /\ SumOf(DeltasOf(r)) \in Int
<1> DEFINE g == DeltasOf(r)
           S == DOMAIN r
<1>1. IsFiniteSet(S) /\ DOMAIN g = S /\ \A p \in S : r[p] \in Int
  BY DEF Reported, DeltasOf
<1>2. \A p \in S : g[p] \in Int
  BY DeltaFits DEF Reported, DeltasOf
<1>3. SumOf(r) \in Int
  BY <1>1, SumIsInt DEF SumOf
<1> HIDE DEF g, S
<1>4. SumOf(g) \in Int
  BY <1>1, <1>2, SumIsInt DEF SumOf
<1> QED
  BY <1>3, <1>4 DEF g

\* What one stored report does to both sums.
LEMMA StoredSums ==
  ASSUME NEW r, Reported(r), NEW p, NEW v \in Int, NEW q, q = Stored(r, p, v)
  PROVE  /\ Reported(q)
         /\ p \in DOMAIN r =>
              /\ DOMAIN q = DOMAIN r
              /\ SumOf(q) = SumOf(r) - r[p] + v
              /\ SumOf(DeltasOf(q)) =
                   SumOf(DeltasOf(r)) - AccrualDelta(r[p]) + AccrualDelta(v)
         /\ p \notin DOMAIN r =>
              /\ Cardinality(DOMAIN q) = Cardinality(DOMAIN r) + 1
              /\ SumOf(q) = SumOf(r) + v
              /\ SumOf(DeltasOf(q)) = SumOf(DeltasOf(r)) + AccrualDelta(v)
<1>1. /\ DOMAIN q = DOMAIN r \cup {p} /\ q[p] = v
      /\ \A i \in DOMAIN r \ {p} : q[i] = r[i]
  BY DEF Stored
<1>2. Reported(q)
  BY <1>1, FS_AddElement DEF Reported
<1> DEFINE S == DOMAIN r
           g == DeltasOf(r)
           gq == DeltasOf(q)
<1>3. /\ IsFiniteSet(S) /\ DOMAIN r = S /\ DOMAIN g = S
      /\ DOMAIN q = S \cup {p} /\ DOMAIN gq = S \cup {p}
  BY <1>1 DEF Reported, DeltasOf
<1>4. (\A i \in S : r[i] \in Int) /\ (\A i \in S \cup {p} : q[i] \in Int)
  BY <1>1, <1>2 DEF Reported
<1>5. /\ \A i \in S : g[i] \in Int /\ g[i] = AccrualDelta(r[i])
      /\ \A i \in S \cup {p} : gq[i] \in Int /\ gq[i] = AccrualDelta(q[i])
  BY <1>1, <1>2, DeltaFits DEF Reported, DeltasOf
<1>6. /\ \A i \in S \ {p} : q[i] = r[i] /\ gq[i] = g[i]
      /\ q[p] = v /\ gq[p] = AccrualDelta(v)
  BY <1>1, <1>5
<1> HIDE DEF S, g, gq
<1>7. CASE p \in S
  <2>1. S \cup {p} = S
    BY <1>7
  <2>2. SumFunctionOnSet(q, S) = SumFunctionOnSet(r, S) - r[p] + q[p]
    BY <1>3, <1>4, <1>6, <1>7, SumOfUpdate
  <2>3. SumFunctionOnSet(gq, S) = SumFunctionOnSet(g, S) - g[p] + gq[p]
    BY <1>3, <1>5, <1>6, <1>7, SumOfUpdate
  <2>4. /\ SumOf(q) = SumOf(r) - r[p] + v
        /\ SumOf(gq) = SumOf(g) - AccrualDelta(r[p]) + AccrualDelta(v)
    BY <1>3, <1>4, <1>5, <1>6, <1>7, <2>1, <2>2, <2>3 DEF SumOf
  <2> QED
    BY <1>1, <1>2, <1>7, <2>1, <2>4 DEF S, g, gq
<1>8. CASE p \notin S
  <2>1. \A i \in S : q[i] = r[i] /\ gq[i] = g[i]
    BY <1>6, <1>8
  <2>2. SumFunctionOnSet(q, S \cup {p}) = SumFunctionOnSet(r, S) + q[p]
    BY <1>3, <1>4, <1>8, <2>1, SumOfExtension
  <2>3. SumFunctionOnSet(gq, S \cup {p}) = SumFunctionOnSet(g, S) + gq[p]
    BY <1>3, <1>5, <1>8, <2>1, SumOfExtension
  <2>4. SumOf(q) = SumOf(r) + v /\ SumOf(gq) = SumOf(g) + AccrualDelta(v)
    BY <1>3, <1>6, <2>2, <2>3 DEF SumOf
  <2>5. Cardinality(S \cup {p}) = Cardinality(S) + 1
    BY <1>3, <1>8, FS_AddElement
  <2> QED
    BY <1>1, <1>2, <1>8, <2>4, <2>5 DEF S, g, gq
<1> QED
  BY <1>7, <1>8 DEF S

\* The properties, in terms of these sums.
LEMMA SumsOfTheBooks ==
  /\ AuditMatchesReports <=>
       (~capped => summary = [total_revenue |-> SumOf(reports),
                              report_count |-> Cardinality(DOMAIN reports)])
  /\ AuditMatchesReports' <=>
       (~capped' => summary' = [total_revenue |-> SumOf(reports'),
                                report_count |-> Cardinality(DOMAIN reports')])
  /\ AccrualCountsEveryReport <=>
       (~indexCapped => accrualIndex = SumOf(DeltasOf(reports)) + replaced)
  /\ AccrualCountsEveryReport' <=>
       (~indexCapped' => accrualIndex' = SumOf(DeltasOf(reports')) + replaced')
<1>1. \A r : DOMAIN DeltasOf(r) = DOMAIN r
  BY DEF DeltasOf
<1>2. Accrued = SumOf(DeltasOf(reports)) /\ Accrued' = SumOf(DeltasOf(reports'))
  BY <1>1, Zenon DEF Accrued, SumOf, DeltasOf
<1>3. (AccrualCountsEveryReport <=>
         (~indexCapped => accrualIndex = SumOf(DeltasOf(reports)) + replaced))
  BY <1>2, Zenon DEF AccrualCountsEveryReport
<1>4. (AccrualCountsEveryReport' <=>
         (~indexCapped' => accrualIndex' = SumOf(DeltasOf(reports')) + replaced'))
  BY <1>2, Zenon DEF AccrualCountsEveryReport
<1>5. (AuditMatchesReports <=>
        (~capped => summary = [total_revenue |-> SumOf(reports),
                               report_count |-> Cardinality(DOMAIN reports)]))
  BY Zenon DEF AuditMatchesReports, SumOf
<1>6. (AuditMatchesReports' <=>
        (~capped' => summary' = [total_revenue |-> SumOf(reports'),
                                 report_count |-> Cardinality(DOMAIN reports')]))
  BY Zenon DEF AuditMatchesReports, SumOf
<1> QED
  BY <1>3, <1>4, <1>5, <1>6, Zenon

LEMMA BooksAreReported ==
  ASSUME TypeOK, BooksAgree
  PROVE  Reported(reports)
<1>1. DOMAIN reports = 1..lastReported /\ lastReported \in Nat
  BY DEF BooksAgree, TypeOK, BookTypeOK
<1>2. IsFiniteSet(DOMAIN reports)
  BY <1>1, FS_Interval
<1>3. \A p \in DOMAIN reports : reports[p] \in I128
  BY DEF TypeOK, BookTypeOK
<1> QED
  BY <1>2, <1>3, Bounds DEF Reported

\* What an accepted report adds to the index is its own accrual, unless the
\* index is cut off, and what the replaced report had accrued stays.
LEMMA IndexCounts ==
  ASSUME TypeOK, AccrualCountsEveryReport, NEW p, NEW a \in Int, StoreReport(p, a),
         Reported(reports)
  PROVE  AccrualCountsEveryReport'
<1> DEFINE sum == SumOf(DeltasOf(reports))
           new == SumOf(DeltasOf(reports'))
           d == AccrualDelta(a)
           old == AccrualDelta(AmountAt(reports, p))
<1>1. /\ reports' = Stored(reports, p, a)
      /\ accrualIndex' = Clamp(accrualIndex + d)
      /\ indexCapped' = (indexCapped \/ accrualIndex + d \notin I128)
      /\ replaced' = IF indexCapped' THEN 0 ELSE replaced + old
  BY Zenon DEF StoreReport, AcceptReport, update_and_emit_accrual_index
<1>2. AmountAt(reports, p) \in Int
  BY DEF AmountAt, Reported
<1>3. d \in Int /\ old \in Int /\ sum \in Int /\ replaced \in Int /\ accrualIndex \in Int
  <2>1. d \in Int /\ old \in Int
    BY <1>2, DeltaFits
  <2>2. sum \in Int
    BY ReportedSums
  <2> QED
    BY <2>1, <2>2, Bounds DEF TypeOK, BookTypeOK
<1>4. new = sum - old + d
  <2>1. CASE p \in DOMAIN reports
    <3>1. AmountAt(reports, p) = reports[p]
      BY <2>1 DEF AmountAt
    <3>2. new = sum - AccrualDelta(reports[p]) + d
      BY <1>1, <2>1, StoredSums
    <3> QED
      BY <3>1, <3>2
  <2>2. CASE p \notin DOMAIN reports
    <3>1. old = 0
      BY <2>2, DeltaFits DEF AmountAt
    <3>2. new = sum + d
      BY <1>1, <2>2, StoredSums
    <3> HIDE DEF new, sum, d, old
    <3> QED
      BY <1>3, <3>1, <3>2
  <2> QED
    BY <2>1, <2>2
<1>5. ~indexCapped => accrualIndex = sum + replaced
  BY SumsOfTheBooks
<1> HIDE DEF sum, new, d, old
<1>6. ~indexCapped' => accrualIndex' = new + replaced'
  <2> SUFFICES ASSUME ~indexCapped'
               PROVE  accrualIndex' = new + replaced'
    OBVIOUS
  <2>1. ~indexCapped /\ accrualIndex + d \in I128
    BY <1>1
  <2>2. accrualIndex' = accrualIndex + d
    BY <1>1, <1>3, <2>1, ClampFits
  <2>3. replaced' = replaced + old
    BY <1>1
  <2> QED
    BY <1>3, <1>4, <1>5, <2>1, <2>2, <2>3
<1> QED
  BY <1>6, SumsOfTheBooks DEF new

\* An accepted report: a first one adds to the total, a correction replaces a term.
LEMMA ReportKeepsAudit ==
  ASSUME TypeOK, AuditMatchesReports, Reported(reports),
         NEW p, NEW a \in I128, OverrideReport(p, a) \/ FirstReport(p, a)
  PROVE  AuditMatchesReports'
<1> DEFINE all == SumOf(reports)
           new == SumOf(reports')
<1>1. StoreReport(p, a) /\ a \in Int
  BY Bounds DEF OverrideReport, FirstReport
<1>2. reports' = Stored(reports, p, a)
  BY <1>1 DEF StoreReport
<1>3. all \in Int
  BY ReportedSums
<1>4. ~capped => summary = [total_revenue |-> all, report_count |-> Cardinality(DOMAIN reports)]
  BY SumsOfTheBooks
<1>5. CASE OverrideReport(p, a)
  <2> SUFFICES ASSUME ~capped'
               PROVE  summary' = [total_revenue |-> new,
                                  report_count |-> Cardinality(DOMAIN reports')]
    BY SumsOfTheBooks
  <2> DEFINE delta == SummaryDelta(p, a)
  <2>1. p \in DOMAIN reports /\ reports[p] \in Int
    BY <1>5 DEF OverrideReport, Overridable, Reported
  <2>2. /\ summary' = [summary EXCEPT !.total_revenue = AddOrMax(@, AppliedDelta(p, a))]
        /\ capped' = \/ capped
                     \/ delta \notin I128
                     \/ summary.total_revenue + AppliedDelta(p, a) \notin I128
    BY <1>5 DEF OverrideReport
  <2>3. ~capped /\ delta \in I128 /\ AppliedDelta(p, a) = delta
    BY <2>2 DEF AppliedDelta
  <2>4. /\ summary = [total_revenue |-> all, report_count |-> Cardinality(DOMAIN reports)]
        /\ all + delta \in I128
    BY <1>4, <2>2, <2>3
  <2>5. DOMAIN reports' = DOMAIN reports /\ new = all - reports[p] + a
    BY <1>1, <1>2, <2>1, StoredSums
  <2>6. all + delta = new
    <3>1. delta = a - reports[p]
      BY DEF SummaryDelta
    <3> HIDE DEF all, new, delta
    <3> QED
      BY <1>1, <1>3, <2>1, <2>5, <3>1
  <2>7. AddOrMax(all, delta) = new
    BY <2>4, <2>6, SumsFit
  <2> HIDE DEF all, new, delta
  <2> QED
    BY <2>2, <2>3, <2>4, <2>5, <2>7
<1>6. CASE FirstReport(p, a)
  <2> SUFFICES ASSUME ~capped'
               PROVE  summary' = [total_revenue |-> new,
                                  report_count |-> Cardinality(DOMAIN reports')]
    BY SumsOfTheBooks
  <2>1. /\ p \notin DOMAIN reports
        /\ summary' = [total_revenue |-> AddOrMax(summary.total_revenue, a),
                       report_count |-> summary.report_count + 1]
        /\ capped' = (capped \/ summary.total_revenue + a \notin I128)
    BY <1>6 DEF FirstReport
  <2>2. /\ summary = [total_revenue |-> all, report_count |-> Cardinality(DOMAIN reports)]
        /\ all + a \in I128
    <3>1. ~capped /\ summary.total_revenue + a \in I128
      BY <2>1
    <3>2. summary = [total_revenue |-> all, report_count |-> Cardinality(DOMAIN reports)]
      BY <1>4, <3>1
    <3> HIDE DEF all
    <3>3. summary.total_revenue = all
      BY <3>2
    <3> QED
      BY <3>1, <3>2, <3>3
  <2>3. Cardinality(DOMAIN reports') = Cardinality(DOMAIN reports) + 1 /\ new = all + a
    BY <1>1, <1>2, <2>1, StoredSums
  <2> HIDE DEF all, new
  <2>4. AddOrMax(all, a) = new
    BY <2>2, <2>3, SumsFit
  <2> QED
    BY <2>1, <2>2, <2>3, <2>4
<1> QED
  BY <1>5, <1>6

\* A repair stores the exact sum, or marks the one it stores as cut off.
LEMMA RepairKeepsSums ==
  ASSUME TypeOK, BooksAgree, AccrualCountsEveryReport, repair_audit_summary
  PROVE  AuditMatchesReports' /\ AccrualCountsEveryReport'
<1>1. /\ summary' = [total_revenue |-> AddedUp(reports, 1, lastReported),
                     report_count |-> Cardinality(DOMAIN reports)]
      /\ capped' = IsSaturated
      /\ UNCHANGED <<reports, accrualIndex, indexCapped, replaced>>
  BY DEF repair_audit_summary, compute_audit_summary_from_reports
<1>2. /\ lastReported \in Nat /\ DOMAIN reports = 1..lastReported
      /\ \A p \in DOMAIN reports : reports[p] \in Int
  BY BooksAreReported DEF BooksAgree, TypeOK, BookTypeOK, Reported
<1>3. AccrualCountsEveryReport'
  BY <1>1 DEF AccrualCountsEveryReport, Accrued
<1>4. SumOf(reports) = RawOf(reports, 1..lastReported)
  <2> DEFINE f == [p \in 1..lastReported |-> AmountAt(reports, p)]
  <2>1. IsFiniteSet(1..lastReported)
    BY <1>2, RangeIsFinite
  <2>2. \A p \in 1..lastReported : reports[p] \in Int /\ reports[p] = f[p]
    BY <1>2 DEF AmountAt
  <2> HIDE DEF f
  <2>3. SumFunctionOnSet(reports, 1..lastReported) = SumFunctionOnSet(f, 1..lastReported)
    BY <2>1, <2>2, SumOfSameTerms
  <2> QED
    BY <1>2, <2>3 DEF SumOf, RawOf, f
<1>5. ~IsSaturated => AddedUp(reports, 1, lastReported) = SumOf(reports)
  <2> SUFFICES ASSUME ~IsSaturated
               PROVE  AddedUp(reports, 1, lastReported) = RawOf(reports, 1..lastReported)
    BY <1>4
  <2>1. CASE lastReported = 0
    <3>1. 1..lastReported = {} /\ 1 > lastReported
      BY <2>1
    <3>2. RawOf(reports, {}) = 0
      BY SumOfNone DEF RawOf
    <3> QED
      BY <3>1, <3>2 DEF AddedUp
  <2>2. CASE lastReported # 0
    <3>1. Amounted(reports)
      BY <1>2 DEF Amounted, AmountAt
    <3>2. 1 \in Int /\ lastReported \in Int /\ 1 <= lastReported
      BY <1>2, <2>2
    <3>3. \A p \in 1..lastReported :
            RunningTotal(reports, 1, lastReported)[p - 1] + AmountAt(reports, p) \in I128
      BY DEF IsSaturated
    <3> QED
      BY <3>1, <3>2, <3>3, ExactTotal
  <2> QED
    BY <2>1, <2>2
<1>6. ~capped' => summary' = [total_revenue |-> SumOf(reports'),
                              report_count |-> Cardinality(DOMAIN reports')]
  BY <1>1, <1>5, Zenon
<1> QED
  BY <1>3, <1>6, SumsOfTheBooks

LEMMA SumsStep ==
  ASSUME TypeOK, BooksAgree, AuditMatchesReports, AccrualCountsEveryReport, [Next]_vars
  PROVE  AuditMatchesReports' /\ AccrualCountsEveryReport'
<1>1. CASE UNCHANGED <<bookVars, historyVars>>
  BY <1>1 DEF bookVars, historyVars, AuditMatchesReports, AccrualCountsEveryReport, Accrued
<1>2. ASSUME NEW p \in 1..MaxPeriods, NEW a \in Amounts, NEW quote \in Quotes \cup {None},
             NEW signed \in BOOLEAN, NEW override \in BOOLEAN,
             report_revenue_internal(p, a, quote, signed, override)
      PROVE  AuditMatchesReports' /\ AccrualCountsEveryReport'
  <2> DEFINE c == Converted(a, quote)
  <2>1. c \in I128 /\ c \in Int
    BY <1>2, ConvertedFits, Bounds
  <2>2. \/ UNCHANGED <<bookVars, historyVars>>
        \/ OverrideReport(p, c)
        \/ FirstReport(p, c)
    BY <1>2, Zenon DEF report_revenue_internal, BookReport, DuplicateReport,
      ReportBelowThreshold
  <2> HIDE DEF c
  <2>3. ASSUME OverrideReport(p, c) \/ FirstReport(p, c)
        PROVE  AuditMatchesReports' /\ AccrualCountsEveryReport'
    <3>1. StoreReport(p, c)
      BY <2>3 DEF OverrideReport, FirstReport
    <3> QED
      BY <2>1, <2>3, <3>1, BooksAreReported, IndexCounts, ReportKeepsAudit
  <2> QED
    BY <1>1, <2>2, <2>3
<1>3. ASSUME NEW p \in 1..MaxPeriods, CloseNow(p)
      PROVE  UNCHANGED <<bookVars, historyVars>>
  BY <1>3 DEF CloseNow
<1>4. CASE QuietStep
  <2>1. CASE UNCHANGED vars
    BY <1>1, <2>1 DEF vars
  <2>2. CASE Tick
    BY <1>1, <2>2 DEF Tick
  <2>3. CASE repair_audit_summary
    BY <2>3, RepairKeepsSums
  <2>4. CASE ~(UNCHANGED vars) /\ ~Tick /\ ~repair_audit_summary
    <3>1. Setting
      BY <1>4, <2>4, Zenon DEF QuietStep, set_testnet_mode, set_dual_sig_config,
        SetOfferingFreeze, SetPause, set_min_revenue_threshold, set_report_window,
        set_concentration_limit, report_concentration, set_fx_oracle,
        register_oracle_pubkey, Halt
    <3> QED
      BY <1>1, <3>1 DEF Setting
  <2> QED
    BY <2>1, <2>2, <2>3, <2>4
<1> QED
  BY <1>1, <1>2, <1>3, <1>4, StepKinds

LEMMA SumsHold == Spec => [](AuditMatchesReports /\ AccrualCountsEveryReport)
<1>1. Init => AuditMatchesReports /\ AccrualCountsEveryReport
  <2> SUFFICES ASSUME Init
               PROVE  AuditMatchesReports /\ AccrualCountsEveryReport
    OBVIOUS
  <2>1. /\ DOMAIN reports = {} /\ accrualIndex = 0 /\ replaced = 0
        /\ summary = [total_revenue |-> 0, report_count |-> 0]
    BY DEF Init, Nothing
  <2>2. /\ SumOf(reports) = 0 /\ SumOf(DeltasOf(reports)) = 0
        /\ Cardinality(DOMAIN reports) = 0
    BY <2>1, SumOfNone, FS_EmptySet DEF SumOf, DeltasOf
  <2> QED
    BY <2>1, <2>2, SumsOfTheBooks
<1>2. /\ TypeOK /\ BooksAgree /\ AuditMatchesReports /\ AccrualCountsEveryReport
      /\ [Next]_vars
      => (AuditMatchesReports /\ AccrualCountsEveryReport)'
  BY SumsStep
<1> QED
  BY <1>1, <1>2, ReportsTypeCorrect, BooksAlwaysAgree, PTL DEF Spec

(***************************************************************************)
(* The audit summary, kept by differences, is the sum and the count of the *)
(* reports, negative ones included, unless a total was cut off and not     *)
(* repaired since.                                                         *)
(***************************************************************************)
THEOREM AuditAlwaysMatches == Spec => []AuditMatchesReports
BY SumsHold, PTL

(***************************************************************************)
(* For any rates quoted, the accrual index is what the present reports and *)
(* those replaced since accrue together, until it is cut off.              *)
(***************************************************************************)
THEOREM AccrualAlwaysCounts == Spec => []AccrualCountsEveryReport
BY SumsHold, PTL

-----------------------------------------------------------------------------
(***************************************************************************)
(* Reading a range of periods                                              *)
(***************************************************************************)

LEMMA IndexAmounts ==
  ASSUME TypeOK
  PROVE  /\ Amounted(revenueIndex)
         /\ \A periods : RawRevenue(periods) = RawOf(revenueIndex, periods)
<1>1. \A p : AmountAt(revenueIndex, p) \in Int
  BY AmountIsInt, Bounds DEF TypeOK, BookTypeOK
<1> QED
  BY <1>1 DEF Amounted, RawRevenue, RawOf, get_revenue_by_period

\* A part of a range none of whose parts is cut off is read exactly.
LEMMA PartIsExact ==
  ASSUME TypeOK, NEW from \in Int, NEW to \in Int,
         \A first, last \in from .. to : RawRevenue(first .. last) \in I128,
         NEW first \in from .. to, NEW last \in from .. to, first <= last
  PROVE  AddedUp(revenueIndex, first, last) = RawOf(revenueIndex, first .. last)
<1>1. Amounted(revenueIndex) /\ first \in Int /\ last \in Int
  BY IndexAmounts
<1>2. ASSUME NEW p \in first .. last,
             RunningTotal(revenueIndex, first, last)[p - 1] = RawOf(revenueIndex, first .. p - 1)
      PROVE  RunningTotal(revenueIndex, first, last)[p - 1] + AmountAt(revenueIndex, p) \in I128
  <2>1. p \in Int /\ first <= p /\ p \in from .. to
    BY <1>1
  <2>2. RawOf(revenueIndex, first .. p)
          = RawOf(revenueIndex, first .. p - 1) + AmountAt(revenueIndex, p)
    BY <1>1, <2>1, RawGrows
  <2>3. RawOf(revenueIndex, first .. p) \in I128
    BY <2>1, IndexAmounts
  <2> QED
    BY <1>2, <2>2, <2>3
<1> QED
  BY <1>1, <1>2, ExactTotal

\* A range read in two parts that reads alike in one.
LEMMA RangeInTwoParts ==
  ASSUME TypeOK, NEW from \in Nat, NEW next \in Nat, NEW to \in Nat, from < next, next <= to,
         ReadsAlike(from, to)
  PROVE  AddOrMax(AddedUp(revenueIndex, from, next - 1), AddedUp(revenueIndex, next, to))
           = AddedUp(revenueIndex, from, to)
<1> DEFINE S == from .. next - 1
           T == next .. to
           m == revenueIndex
<1>1. /\ S \cup T = from .. to /\ S \cap T = {}
      /\ next - 1 \in Int /\ from <= next - 1
  OBVIOUS
<1>2. IsFiniteSet(S) /\ IsFiniteSet(T)
  BY <1>1, RangeIsFinite
<1>3. Amounted(m) /\ \A U : RawRevenue(U) = RawOf(m, U)
  BY IndexAmounts
<1>4. RawOf(m, from .. to) = RawOf(m, S) + RawOf(m, T)
  <2> HIDE DEF S, T, m
  <2>1. RawOf(m, S \cup T) = RawOf(m, S) + RawOf(m, T)
    BY <1>1, <1>2, <1>3, RawAddsUp
  <2> QED
    BY <1>1, <2>1
<1>5. CASE \A p \in from .. to : get_revenue_by_period(p) >= 0
  <2>1. \A p \in from .. to : AmountAt(m, p) >= 0
    BY <1>5 DEF get_revenue_by_period
  <2>2. /\ \A p \in from .. next - 1 : AmountAt(m, p) >= 0
        /\ \A p \in next .. to : AmountAt(m, p) >= 0
    BY <1>1, <2>1
  <2> HIDE DEF m
  <2>3. /\ AddedUp(m, from, next - 1) = Smaller(RawOf(m, S), I128_MAX)
        /\ RawOf(m, S) \in Nat
    BY <1>1, <1>3, <2>2, CutOffTotal
  <2>4. /\ AddedUp(m, next, to) = Smaller(RawOf(m, T), I128_MAX)
        /\ RawOf(m, T) \in Nat
    BY <1>3, <2>2, CutOffTotal
  <2>5. AddedUp(m, from, to) = Smaller(RawOf(m, from .. to), I128_MAX)
    BY <1>3, <2>1, CutOffTotal
  <2> HIDE DEF S, T
  <2>6. AddOrMax(AddedUp(m, from, next - 1), AddedUp(m, next, to))
          = Smaller(RawOf(m, S) + RawOf(m, T), I128_MAX)
    BY <2>3, <2>4, Bounds DEF AddOrMax, Smaller
  <2> QED
    BY <1>4, <2>5, <2>6 DEF m
<1>6. CASE \A first, last \in from .. to : RawRevenue(first .. last) \in I128
  <2>1. AddedUp(m, from, next - 1) = RawOf(m, S)
    <3> DEFINE last == next - 1
    <3>1. /\ from \in Int /\ to \in Int /\ from \in from .. to
          /\ last \in from .. to /\ from <= last
      BY <1>1
    <3> HIDE DEF last, S, m
    <3>2. AddedUp(revenueIndex, from, last) = RawOf(revenueIndex, from .. last)
      BY <1>6, <3>1, PartIsExact
    <3> QED
      BY <3>2 DEF last, S, m
  <2>2. AddedUp(m, next, to) = RawOf(m, T)
    BY <1>6, PartIsExact
  <2>3. AddedUp(m, from, to) = RawOf(m, from .. to)
    BY <1>6, PartIsExact
  <2>4. RawOf(m, from .. to) \in I128
    BY <1>3, <1>6
  <2> HIDE DEF S, T, m
  <2> QED
    BY <1>4, <2>1, <2>2, <2>3, <2>4, SumsFit DEF m
<1> QED
  BY <1>5, <1>6 DEF ReadsAlike

\* What a page reads and where it goes on.
LEMMA PageParts ==
  ASSUME NEW from \in 1 .. U64_MAX - 1, NEW to \in 1 .. U64_MAX - 1,
         NEW max_periods \in 0 .. MAX_CHUNK_PERIODS + 1, from <= to,
         NEW page, page = get_revenue_range_chunk(from, to, max_periods)
  PROVE  \/ page.next = None /\ page.total = AddedUp(revenueIndex, from, to)
         \/ /\ page.next \in from + 1 .. to /\ page.next # None
            /\ page.total = AddedUp(revenueIndex, from, page.next - 1)
<1> DEFINE cap == PageCap(max_periods)
           last == Smaller(PageEnd(from, cap), to)
           next == Smaller(from + cap, U64_MAX)
           read == [p \in from .. last |-> get_revenue_by_period(Smaller(p, U64_MAX))]
<1>1. U64_MAX \in Nat /\ MAX_CHUNK_PERIODS \in Nat \ {0}
  BY Sizes
<1>2. cap \in Nat \ {0}
  BY <1>1 DEF PageCap
<1>3. /\ page.total = AddedUp(read, from, last)
      /\ page.next = IF next <= to THEN next ELSE None
  <2>1. to # U64_MAX /\ ~(from > to)
    BY <1>1
  <2> QED
    BY <2>1, Zenon DEF get_revenue_range_chunk
<1> HIDE DEF cap
<1>4. last \in Int /\ from <= last /\ last <= to /\ from \in Int
  BY <1>1, <1>2 DEF Smaller, PageEnd
<1> HIDE DEF last, next
<1>5. AddedUp(read, from, last) = AddedUp(revenueIndex, from, last)
  <2>1. \A p \in from .. last : AmountAt(read, p) = AmountAt(revenueIndex, p)
    <3> SUFFICES ASSUME NEW p \in from .. last
                 PROVE  AmountAt(read, p) = AmountAt(revenueIndex, p)
      OBVIOUS
    <3>1. Smaller(p, U64_MAX) = p
      BY <1>1, <1>4 DEF Smaller
    <3>2. AmountAt(read, p) = get_revenue_by_period(Smaller(p, U64_MAX))
      BY DEF AmountAt
    <3> QED
      BY <3>1, <3>2 DEF get_revenue_by_period
  <2> HIDE DEF read
  <2>2. RunningTotal(read, from, last)[last] = RunningTotal(revenueIndex, from, last)[last]
    BY <1>4, <2>1, TotalsAgree
  <2> QED
    BY <2>2 DEF AddedUp
<1>6. CASE next <= to
  <2>1. next = from + cap /\ last = next - 1
    BY <1>1, <1>2, <1>6 DEF Smaller, PageEnd, last, next
  <2>2. next \in from + 1 .. to
    BY <1>2, <1>6, <2>1
  <2>3. next \in Nat
    BY <1>2, <2>1
  <2> QED
    BY <1>3, <1>5, <1>6, <2>1, <2>2, <2>3, InputRanges
<1>7. CASE ~(next <= to)
  <2>1. last = to
    BY <1>1, <1>2, <1>7 DEF Smaller, PageEnd, last, next
  <2> QED
    BY <1>3, <1>5, <1>7, <2>1
<1> QED
  BY <1>6, <1>7

\* In any state whose index holds amounts, the pages of a range add up.
LEMMA PagesAddUp == TypeOK => RangePagesAddUp
<1> SUFFICES ASSUME TypeOK, NEW from \in 1 .. U64_MAX - 1, NEW to \in 1 .. U64_MAX - 1,
                    NEW max_periods \in 0 .. MAX_CHUNK_PERIODS + 1,
                    NEW page, page = get_revenue_range_chunk(from, to, max_periods),
                    ReadsAlike(from, to)
             PROVE  IF page.next = None THEN page.total = get_revenue_range(from, to)
                    ELSE /\ page.next \in from + 1 .. to
                         /\ AddOrMax(page.total, get_revenue_range(page.next, to))
                              = get_revenue_range(from, to)
  BY DEF RangePagesAddUp
<1>1. from \in Nat /\ to \in Nat
  BY Sizes
<1>2. CASE from > to
  <2>1. page.total = 0 /\ page.next = None
    BY <1>2 DEF get_revenue_range_chunk
  <2> QED
    BY <1>2, <2>1 DEF get_revenue_range, AddedUp
<1>3. CASE from <= to
  <2>1. CASE page.next = None /\ page.total = AddedUp(revenueIndex, from, to)
    BY <2>1 DEF get_revenue_range
  <2>2. CASE /\ page.next \in from + 1 .. to /\ page.next # None
             /\ page.total = AddedUp(revenueIndex, from, page.next - 1)
    <3>1. page.next \in Nat /\ from < page.next /\ page.next <= to
      BY <1>1, <2>2
    <3>2. AddOrMax(AddedUp(revenueIndex, from, page.next - 1),
                   AddedUp(revenueIndex, page.next, to)) = AddedUp(revenueIndex, from, to)
      BY <1>1, <3>1, RangeInTwoParts
    <3> QED
      BY <2>2, <3>2 DEF get_revenue_range
  <2> QED
    BY <1>3, <2>1, <2>2, PageParts
<1> QED
  BY <1>1, <1>2, <1>3

(***************************************************************************)
(* Reading a range of periods page by page gives what reading it at once   *)
(* gives, for every page size, and every page but the last moves on: with  *)
(* amounts that are not negative even where sums are cut off, and with     *)
(* amounts of either sign where none is.                                   *)
(***************************************************************************)
THEOREM PagesAlwaysAddUp == Spec => []RangePagesAddUp
<1> QED
  BY PagesAddUp, ReportsTypeCorrect, PTL

=============================================================================
