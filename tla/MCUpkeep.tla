------------------------------ MODULE MCUpkeep ------------------------------
(* Small instances of what is kept up by passes, retries and locks, in one *)
(* run: a flock's health and credential, an org's licence, and the         *)
(* credentials the CLI's processes share.  `focus' is the one that moves;  *)
(* the others stay as they began.  What CliSession promises is checked as  *)
(* it is stated there.                                                     *)
EXTENDS CliSession, TLC

CONSTANTS k5, k10

\* Flocks
CONSTANTS Conns, Secrets, Savers, Tests, None, MaxSaves, MaxTests, MaxRotations, MaxFaults
VARIABLES row, lock, save, pass, test, ring, env, deploy, saves, tests, mishaps,
          paired, seen, raced, strayed

\* License
CONSTANTS Licences, SeatsOf, BaseSeats, Calls, Pass, NoLicence, Grace, MaxTime, MaxInstances, MaxOutages
VARIABLES today, entitled, licence, instances, released, call, outages, mixed, outrun, confirmed, expiredOn, misread

VARIABLE focus

Flock == INSTANCE Flocks WITH NumFlocks <- 1
Licensing == INSTANCE License

ASSUME Flock!FlocksAssumption
ASSUME Licensing!LicenseAssumption

\* One address, with and without TLS trust.
Connections == [breed : {"ollama"}, url : {"u1"}, tls : BOOLEAN]
FiveAndTen == (k5 :> 5) @@ (k10 :> 10)

flockVars == <<row, lock, save, pass, test, ring, env, deploy, saves, tests, mishaps,
               paired, seen, raced, strayed>>
licenseVars == <<today, entitled, licence, instances, released, call, outages, mixed, outrun, confirmed, expiredOn, misread>>
allVars == <<focus, flockVars, licenseVars, cliVars>>

\* One initial state each for those out of focus.
FlocksAtRest == Flock!Init /\ \A f \in DOMAIN row : row[f] = Flock!NoRow
CliAtRest == Init /\ store = Nil

\* Licences are alike but for their number of seats: k5's is the first instance.
FewerSeatsFirst == instances[1] # k10

AllInit ==
    /\ Licensing!Init
    /\ \/ focus = "flock" /\ Flock!Init /\ CliAtRest
       \/ focus = "licence" /\ FlocksAtRest /\ CliAtRest
       \/ focus = "cli" /\ FlocksAtRest /\ Init

AllNext ==
    /\ UNCHANGED focus
    /\ \/ focus = "flock" /\ Flock!Next /\ UNCHANGED <<licenseVars, cliVars>>
       \/ focus = "licence" /\ Licensing!Next /\ FewerSeatsFirst' /\ UNCHANGED <<flockVars, cliVars>>
       \/ focus = "cli" /\ Next /\ UNCHANGED <<flockVars, licenseVars>>

\* The components' fairness, as the components state it.
AllFairness ==
    /\ WF_flockVars(focus = "flock" /\ Flock!Finishing)
    /\ WF_flockVars(focus = "flock" /\ Flock!Deploying)
    /\ WF_flockVars(focus = "flock" /\ Flock!Scheduling)
    /\ WF_licenseVars(focus = "licence" /\ Licensing!Revalidating(Pass))
    /\ \A p \in Procs : WF_cliVars(focus = "cli" /\ (Locking(p) \/ Working(p)))
    /\ WF_cliVars(focus = "cli" /\ AgesLeftBehind)

AllSpec == AllInit /\ [][AllNext]_allVars /\ AllFairness

\* The components' properties, as the components state them.
\* Health comes to be of the connection once connections stop changing.
HealthCatchesUp == focus = "flock" => Flock!HealthCatchesUp

\* An expired licence's seats are gone after the grace and the passes that find out.
ExpiredLapses == focus = "licence" => Licensing!ExpiredLapses

\* The processes are alike: one speaks for all.
EveryoneGetsThrough == GetsThrough(CHOOSE p \in Procs : TRUE)
=============================================================================
