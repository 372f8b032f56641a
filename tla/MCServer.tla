------------------------------ MODULE MCServer ------------------------------
(* The API server's smaller protocols for TLC: worker sessions, browser        *)
(* sessions, the rate limiter, the set-up wizard, the schema migrations, the   *)
(* event log, the configuration routes and the pure functions.  They share no  *)
(* state, so each behaviour is one of the eight: focus says which.             *)
EXTENDS WorkerSession, Auth, RateLimit, Setup, Migration, EventLog, Config, Rules
VARIABLE focus
vars == <<sessionVars, authVars, rateVars, setupVars, migrationVars, logVars,
          configVars, sample, focus>>

MCStays == {-90} \cup {15 * k : k \in 0..8} \cup {1380, 1425, 1439, 1440, 1441, 1500, 2880, 2881, 2940}

Init ==
    /\ SessionInit /\ AuthInit /\ RateInit
    /\ SetupInit /\ MigrationInit /\ LogInit /\ ConfigInit
    /\ \/ /\ focus \in {"workers", "browsers", "limiter", "setup", "migration", "log", "config"}
          /\ focus # "limiter" => ~booth
          /\ sample = [of |-> "none"]
       \/ focus = "rules" /\ ~booth /\ RulesInit

Next ==
    \/ focus = "workers" /\ SessionNext
         /\ UNCHANGED <<authVars, rateVars, setupVars, migrationVars, logVars, configVars>>
         /\ UNCHANGED <<sample, focus>>
    \/ focus = "browsers" /\ AuthNext
         /\ UNCHANGED <<sessionVars, rateVars, setupVars, migrationVars, logVars, configVars>>
         /\ UNCHANGED <<sample, focus>>
    \/ focus = "limiter" /\ RateNext
         /\ UNCHANGED <<sessionVars, authVars, setupVars, migrationVars, logVars, configVars>>
         /\ UNCHANGED <<sample, focus>>
    \/ focus = "setup" /\ SetupNext
         /\ UNCHANGED <<sessionVars, authVars, rateVars, migrationVars, logVars, configVars>>
         /\ UNCHANGED <<sample, focus>>
    \/ focus = "migration" /\ MigrationNext
         /\ UNCHANGED <<sessionVars, authVars, rateVars, setupVars, logVars, configVars>>
         /\ UNCHANGED <<sample, focus>>
    \/ focus = "log" /\ LogNext
         /\ UNCHANGED <<sessionVars, authVars, rateVars, setupVars, migrationVars, configVars>>
         /\ UNCHANGED <<sample, focus>>
    \/ focus = "config" /\ ConfigNext
         /\ UNCHANGED <<sessionVars, authVars, rateVars, setupVars, migrationVars, logVars>>
         /\ UNCHANGED <<sample, focus>>

Spec == Init /\ [][Next]_vars

\* The states of the components have their types.
ServerTypeOK ==
    /\ SessionTypeOK /\ AuthTypeOK /\ RateTypeOK
    /\ SetupTypeOK /\ MigrationTypeOK /\ LogTypeOK /\ ConfigTypeOK
=============================================================================
