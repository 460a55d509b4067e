--------------------------- MODULE ConflictCheck ---------------------------
(***************************************************************************)
(* May an incoming package take the place of an installed one?             *)
(* (flu-core/src/conflict.rs, verified_fluffnet)  The package that pacman  *)
(* has chosen from its own database is looked up again in a private one,   *)
(* which is fetched anew and must be signed; then its archive is fetched   *)
(* and read.  FluffNet may publish something else at any time meanwhile.   *)
(*                                                                         *)
(* A build stands for the name, the version and the digest of an archive;  *)
(* labels with and without a version, and the metadata's lines, are left   *)
(* to the tests.                                                           *)
(***************************************************************************)
EXTENDS FiniteSets

CONSTANTS Builds,    \* archives of the incoming package
          Signed,    \* those FluffNet has signed,
          Eligible   \* those that are named flufflinux-, or packed by FluffNet

ASSUME ConflictAssumption == Signed \subseteq Builds /\ Eligible \subseteq Builds

VARIABLES
  ver,       \* where the verification is, and what it has found
  chosen,    \* the build that pacman's own database offers, or none
  published, \* what FluffNet's servers offer, as far as a verification goes
  offered    \* history: what they offered since the verification began
verVars == <<ver, chosen, published, offered>>

\* What pacman is about to install, and whether its database calls that a
\* fluffnet package of the name and version it asks about.
Choices  == [build : Builds, claims : BOOLEAN]
NoChoice == [build |-> {}, claims |-> FALSE]
NoVer    == [pc |-> "idle", trusted |-> {}, archive |-> {}]

VerInit == ver = NoVer /\ chosen = NoChoice /\ published = {} /\ offered = {}

\* Pacman asks about another package, or about none any more.
Asks(choice) == chosen' = choice /\ offered' = {} /\ ver' = NoVer /\ published' = {}

VerAt(pc)   == ver' = [ver EXCEPT !.pc = pc]
Decline     == VerAt("declined")
WorldStands == UNCHANGED <<chosen, published, offered>>

VerifyBegins == /\ ver.pc = "idle" /\ VerAt("select")
                /\ \E b \in Signed : published' = {b} /\ offered' = {b}
                /\ UNCHANGED chosen

\* 60 s for a command, or 90 s for all of them, are over, it fails, or what it
\* prints is not one line; a directory or a file cannot be written.
CommandFails == ver.pc \notin {"idle", "approved", "declined"} /\ Decline /\ WorldStands

\* identity(): the repository, the name and the asked version.
Select == /\ ver.pc = "select" /\ WorldStands
          /\ IF chosen.claims THEN VerAt("servers") ELSE Decline

\* fluffnet is among the repositories, and has plain HTTP servers.
ReadServers == ver.pc = "servers" /\ VerAt("sync") /\ WorldStands

\* -Sy into the private database, whose signature is required.
SyncTrusted == /\ ver.pc = "sync" /\ WorldStands
               /\ ver' = [ver EXCEPT !.pc = "compare", !.trusted = published]

\* Mutant: any fluffnet package will do.
AnyIdentity == TRUE

\* Both databases give the same repository, name, version and digest.
SameIdentity == ver.trusted = {chosen.build}

Compare == /\ ver.pc = "compare" /\ WorldStands
           /\ IF SameIdentity THEN VerAt("fetch") ELSE Decline

\* -Swdd of what the private database lists: one archive, its digest and its
\* signature checked by pacman.
Fetch == /\ ver.pc = "fetch" /\ WorldStands
         /\ ver' = [ver EXCEPT !.pc = "read", !.archive = ver.trusted]

\* The archive's .PKGINFO gives the name and the version, and says who made it.
EligibleMetadata(archive) == archive \subseteq Eligible

ReadMetadata == /\ ver.pc = "read" /\ WorldStands
                /\ VerAt(IF EligibleMetadata(ver.archive) THEN "approved" ELSE "declined")

VerStep == \/ CommandFails \/ Select \/ ReadServers \/ SyncTrusted
           \/ Compare \/ Fetch \/ ReadMetadata

\* FluffNet publishes another build.
Publishes == /\ ver.pc \notin {"idle", "approved", "declined"}
             /\ \E b \in Signed : published' = {b} /\ offered' = offered \cup {b}
             /\ UNCHANGED <<ver, chosen>>
=============================================================================
