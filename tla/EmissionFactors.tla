--------------------------- MODULE EmissionFactors ---------------------------
(***************************************************************************)
(* The emission factors of one site: EmissionFactorService,                *)
(* SiteEmissionFactorRepository, and what CarbonService makes of them      *)
(* (backend/app/energy/).  Configuring a factor closes those it finds      *)
(* active and inserts a new one; no index says that only one is active.    *)
(* An estimate reads the factor in use and adds a row nobody changes: the  *)
(* estimates are what EstimateStatus says.  (The seed of the hosted demo,  *)
(* which dates its factors a year back, is left out.)                      *)
(***************************************************************************)
EXTENDS FiniteSets, Integers

CONSTANTS
    Factors,      \* rows of `site_emission_factor`
    Admins,       \* requests in progress at a time
    MaxTime       \* bound: the clock

ASSUME FactorAssumption == IsFiniteSet(Factors) /\ MaxTime \in Nat

VARIABLES
    clock,        \* datetime.now
    factor,       \* the committed rows
    config,       \* the transaction of each admin
    lateCommit    \* history: a configuration was committed although another one
                  \* had been since it took the time

factorVars == <<clock, factor, config, lateCommit>>

Open == 0    \* effective_to: None

NoFactor == [exists |-> FALSE, is_active |-> FALSE, effective_from |-> 0, effective_to |-> Open]

NoConfig == [pc |-> "idle", now |-> 0, closes |-> {}, stale |-> FALSE]

Configured == {f \in Factors : factor[f].exists}

Active == {f \in Factors : factor[f].is_active}

\* bound: no more rows than Factors
NewFactor == CHOOSE f \in Factors \ Configured : TRUE

FactorTypeOK ==
    /\ clock \in 1 .. MaxTime + 1
    /\ factor \in [Factors -> [exists : BOOLEAN, is_active : BOOLEAN,
                               effective_from : Nat, effective_to : Nat]]
    /\ config \in [Admins -> [pc : {"idle", "started", "listed", "updated"}, now : Nat,
                              closes : SUBSET Factors, stale : BOOLEAN]]
    /\ lateCommit \in BOOLEAN

FactorInit ==
    /\ clock = 1
    /\ factor = [f \in Factors |-> NoFactor]
    /\ config = [a \in Admins |-> NoConfig]
    /\ lateCommit = FALSE

Tick ==
    /\ clock <= MaxTime
    /\ clock' = clock + 1
    /\ UNCHANGED <<factor, config, lateCommit>>

Configures(a, t) ==
    /\ config' = [config EXCEPT ![a] = t]
    /\ UNCHANGED <<clock, factor, lateCommit>>

\* configure
Starts(a) ==
    /\ config[a].pc = "idle"
    /\ Configures(a, [NoConfig EXCEPT !.pc = "started", !.now = clock])

\* active_for_site: the active factor that is effective from the latest time
InUse == {f \in Active : \A o \in Active : factor[f].effective_from >= factor[o].effective_from}

\* mutant: only the factor in use is deactivated
OnlyInUse == InUse

\* deactivate_active_for_site: list_for_site, the active ones
Deactivates == Active

Lists(a) ==
    /\ config[a].pc = "started"
    /\ Configures(a, [config[a] EXCEPT !.pc = "listed", !.closes = Deactivates])

\* ... the flush of their rows, which waits for writes of them under way
Updates(a) ==
    /\ config[a].pc = "listed"
    /\ \A o \in Admins \ {a} :
          config[o].pc = "updated" => config[o].closes \cap config[a].closes = {}
    /\ Configures(a, [config[a] EXCEPT !.pc = "updated"])

\* mutant: the window of a factor that is replaced stays open
LeftOpen(row, now) == [row EXCEPT !.is_active = FALSE]

\* effective_to was None, as in every row that was active when it was read
Closed(row, now) == [row EXCEPT !.is_active = FALSE, !.effective_to = now]

\* the insert and the commit
ConfigCommits(a) ==
    /\ config[a].pc = "updated"
    /\ Factors # Configured
    /\ factor' = [f \in Factors |->
         IF f = NewFactor THEN [exists |-> TRUE, is_active |-> TRUE,
                                effective_from |-> config[a].now, effective_to |-> Open]
         ELSE IF f \in config[a].closes THEN Closed(factor[f], config[a].now)
         ELSE factor[f]]
    /\ config' = [o \in Admins |->
         IF o = a THEN NoConfig ELSE [config[o] EXCEPT !.stale = config[o].pc # "idle"]]
    /\ lateCommit' = (lateCommit \/ config[a].stale)
    /\ UNCHANGED clock

ConfigFails(a) ==
    /\ config[a].pc # "idle"
    /\ Configures(a, NoConfig)

ConfigStep(a) ==
    Starts(a) \/ Lists(a) \/ Updates(a) \/ ConfigCommits(a) \/ ConfigFails(a)

FactorNext == Tick \/ \E a \in Admins : ConfigStep(a)

FactorSpec == FactorInit /\ [][FactorNext]_factorVars

-----------------------------------------------------------------------------
(* The estimates. *)

\* _factor_covers_period
Covers(f, start, end) ==
    /\ factor[f].effective_from <= start
    /\ factor[f].effective_to = Open \/ factor[f].effective_to >= end

\* evaluate_carbon, for a qualified outcome
EstimateStatus(f, start, end) ==
    IF Covers(f, start, end) THEN "ESTIMATE_AVAILABLE" ELSE "FACTOR_NOT_APPLICABLE"

-----------------------------------------------------------------------------
(* Properties. *)

\* The factors in effect at time t, by the rows.
InEffect(t) ==
    {f \in Factors : /\ factor[f].exists
                     /\ factor[f].effective_from <= t
                     /\ factor[f].effective_to = Open \/ t < factor[f].effective_to}

\* carbon.py:14-18: an estimate rests on a factor whose window covers its whole period,
\* not on whichever one happens to be current.  Unless configurations
\* overtook each other, the windows of a site's factors follow one another without
\* gap or overlap, so that the factor of an estimate is the only one in its period.
OneFactorAtATime ==
    ~lateCommit =>
        /\ \A t \in 1 .. clock :
              (\E f \in Configured : factor[f].effective_from <= t) => Cardinality(InEffect(t)) = 1
        /\ \A f \in InUse, start, end \in 1 .. clock :
              EstimateStatus(f, start, end) = "ESTIMATE_AVAILABLE" =>
                 \A t \in start .. end - 1 : InEffect(t) = {f}

\* emission_factor_repository.py:67: "at most one factor is ever active per site at a
\* time".  Configurations that overtake each other leave more; one that is not
\* overtaken deactivates all of them, so that its own is the only one.
ConfigurationHeals ==
    [][\A a \in Admins :
          config[a].pc = "updated" /\ ~config[a].stale /\ factor' # factor /\ config'[a] = NoConfig
          => Cardinality(Active') = 1]_factorVars
=============================================================================
