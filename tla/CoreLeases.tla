------------------------------- MODULE CoreLeases ------------------------------
(* A child panel, a core process and its wrapper.  The panel lists in a    *)
(* file until when each delegated identity may use the core, then changes  *)
(* the core's users; the wrapper's guard reads the file each second and    *)
(* ends the core that may still serve an identity whose lease is over,     *)
(* also when the panel does not run.  Both can stop between any two steps. *)
(* Local identities, nodes, ports and traffic are left out.                *)
EXTENDS Integers

CONSTANTS MountedUsers, GuardGrace, LeaseTime,
          MaxCoreTime, MaxLeaseRevisions   \* bounds

ASSUME CoreLeasesAssumption ==
  {GuardGrace, LeaseTime, MaxCoreTime, MaxLeaseRevisions} \subseteq Nat \ {0}

VARIABLES coreKind,   \* xray: users are added; hy2: the panel is asked
          coreTime,   \* seconds
          delegate,   \* users.Mount: until, its revision, and not blocked here
          listed,     \* mount-leases.json
          userTable,  \* the clients of xray.json
          panel,      \* where the panel is in its pass, and what it wants
          wrapper,    \* the wrapper, its guard and the core
          untold,     \* identities of whose permission the guard was not told
          overstay    \* seconds the others are served without permission

CoreVars == <<coreKind, coreTime, delegate, listed, userTable, panel, wrapper,
              untold, overstay>>
-----------------------------------------------------------------------------
Overdone == GuardGrace + 2
Deadlines == 0 .. MaxCoreTime + LeaseTime
Unheard == [deadline |-> -1, revision |-> 0]
Leases == [deadline : Deadlines, revision : 0 .. MaxLeaseRevisions] \union {Unheard}
Unwatched == -1

(* The type invariant of CoreLeases.                                       *)
CoreLeasesTypeOK ==
  /\ coreKind \in {"xray", "hy2"} /\ coreTime \in 0 .. MaxCoreTime
  /\ delegate \in [MountedUsers -> [until : Deadlines, revision : 0 .. MaxLeaseRevisions,
                                    on : BOOLEAN]]
  /\ listed \in [MountedUsers -> Leases]
  /\ userTable \subseteq MountedUsers
  /\ panel \in [at : {"down", "idle", "changed", "listed", "written", "restarted"},
                wants : SUBSET MountedUsers]
  /\ wrapper \in [at : {"down", "read", "prepared", "running"},
                  previous : [MountedUsers -> Leases], active : SUBSET MountedUsers,
                  revokedAt : [MountedUsers -> 0 .. MaxCoreTime \union {Unwatched}],
                  serves : SUBSET MountedUsers, polled : BOOLEAN]
  /\ untold \subseteq MountedUsers
  /\ overstay \in [MountedUsers -> 0 .. Overdone]

CoreDown ==
  [at |-> "down", previous |-> [u \in MountedUsers |-> Unheard], active |-> {},
   revokedAt |-> [u \in MountedUsers |-> Unwatched], serves |-> {}, polled |-> TRUE]

CoreLeasesInit ==
  /\ coreKind \in {"xray", "hy2"} /\ coreTime = 0
  /\ delegate = [u \in MountedUsers |-> [until |-> 0, revision |-> 0, on |-> TRUE]]
  /\ listed = [u \in MountedUsers |-> Unheard]
  /\ userTable = {} /\ panel = [at |-> "idle", wants |-> {}]
  /\ wrapper = CoreDown
  /\ untold = {} /\ overstay = [u \in MountedUsers |-> 0]
-----------------------------------------------------------------------------
KnownTo(file) == {u \in MountedUsers : file[u] # Unheard}
Delegates == {u \in MountedUsers : delegate[u].revision > 0}

(* Those a file permits at a time, and now.                                *)
PermittedAt(file, t) == {u \in MountedUsers : file[u].deadline > t}
Permitted(file) == PermittedAt(file, coreTime)

(* User.Active, for a delegated identity.                                  *)
Authorised == {u \in Delegates : delegate[u].on /\ delegate[u].until > coreTime}

Stopped == wrapper' = CoreDown /\ untold' = {} /\ overstay' = [u \in MountedUsers |-> 0]

(* The core serves the users of S from now on.                             *)
Serves(S) ==
  /\ wrapper' = [wrapper EXCEPT !.serves = S]
  /\ untold' = untold \union ((S \ wrapper.serves) \ Permitted(listed))
  /\ UNCHANGED overstay
-----------------------------------------------------------------------------
(* The panel.                                                              *)

(* applyMountSync: the master grants u or takes it back.                   *)
GrantMount(u) ==
  /\ panel.at = "idle" /\ delegate[u].revision < MaxLeaseRevisions
  /\ delegate' = [delegate EXCEPT ![u].until = coreTime + LeaseTime, ![u].revision = @ + 1]
  /\ panel' = [panel EXCEPT !.at = "changed"]
  /\ UNCHANGED <<coreKind, coreTime, listed, userTable, wrapper, untold, overstay>>

WithdrawMount(u) ==
  /\ panel.at = "idle" /\ u \in Delegates
  /\ delegate' = [delegate EXCEPT ![u].until = 0]
  /\ panel' = [panel EXCEPT !.at = "changed"]
  /\ UNCHANGED <<coreKind, coreTime, listed, userTable, wrapper, untold, overstay>>

(* The identity, the site or its token is stopped here or allowed again:   *)
(* no new revision.                                                        *)
SwitchMount(u) ==
  /\ panel.at = "idle" /\ u \in Delegates
  /\ delegate' = [delegate EXCEPT ![u].on = ~@]
  /\ panel' = [panel EXCEPT !.at = "changed"]
  /\ UNCHANGED <<coreKind, coreTime, listed, userTable, wrapper, untold, overstay>>

(* writeMountLeases: an identity that may not be served has no deadline to *)
(* come.                                                                   *)
LeaseOf(u) ==
  IF u \notin Delegates THEN Unheard
  ELSE [deadline |-> IF delegate[u].on \/ delegate[u].until <= coreTime
                     THEN delegate[u].until ELSE 0,
        revision |-> delegate[u].revision]

(* reconcileIfNeeded, after a change or each five seconds.                 *)
ListLeases ==
  /\ panel.at \in {"idle", "changed"}
  /\ listed' = [u \in MountedUsers |-> LeaseOf(u)]
  /\ panel' = [panel EXCEPT !.at = "listed"]
  /\ untold' = untold \union {u \in Permitted(listed') \ Permitted(listed) :
                   /\ wrapper.at # "down"
                   /\ listed'[u].revision = listed[u].revision}
  /\ overstay' = [u \in MountedUsers |-> IF u \in Permitted(listed') THEN 0 ELSE overstay[u]]
  /\ UNCHANGED <<coreKind, coreTime, delegate, userTable, wrapper>>

(* applyCoreConfiguration, up to the files.                                *)
WriteUsers ==
  /\ panel.at = "listed"
  /\ panel' = [at |-> "written", wants |-> Authorised]
  /\ userTable' = Authorised
  /\ UNCHANGED <<coreKind, coreTime, delegate, listed, wrapper, untold, overstay>>

(* reconcileRealityUsers: a user to be removed costs a restart, once; what *)
(* was wanted before it is still wanted after it.                          *)
RestartCore ==
  /\ coreKind = "xray" /\ panel.at = "written" /\ wrapper.at = "running"
  /\ ~(wrapper.serves \subseteq panel.wants)
  /\ panel' = [panel EXCEPT !.at = "restarted"]
  /\ Stopped
  /\ UNCHANGED <<coreKind, coreTime, delegate, listed, userTable>>

AddUsers ==
  /\ coreKind = "xray" /\ panel.at \in {"written", "restarted"}
  /\ wrapper.at = "running" /\ wrapper.serves \subseteq panel.wants
  /\ Serves(panel.wants)
  /\ panel' = [at |-> "idle", wants |-> {}]
  /\ UNCHANGED <<coreKind, coreTime, delegate, listed, userTable>>

(* HY2 is told to drop the connections of the others, one at a time.       *)
KickUsers ==
  /\ coreKind = "hy2" /\ panel.at = "written" /\ wrapper.at = "running"
  /\ \E S \in SUBSET (wrapper.serves \ panel.wants) : Serves(wrapper.serves \ S)
  /\ panel' = [at |-> "idle", wants |-> {}]
  /\ UNCHANGED <<coreKind, coreTime, delegate, listed, userTable>>

(* A step of the pass failed (a core that is down, a lost controller       *)
(* lease, counters that could not be read): the next pass starts again.    *)
PassFails ==
  /\ panel.at \in {"changed", "listed", "written", "restarted"}
  /\ panel' = [at |-> "idle", wants |-> {}]
  /\ UNCHANGED <<coreKind, coreTime, delegate, listed, userTable, wrapper, untold, overstay>>

StopPanel ==
  /\ panel.at # "down"
  /\ panel' = [at |-> "down", wants |-> {}]
  /\ UNCHANGED <<coreKind, coreTime, delegate, listed, userTable, wrapper, untold, overstay>>

StartPanel ==
  /\ panel.at = "down"
  /\ panel' = [panel EXCEPT !.at = "changed"]
  /\ UNCHANGED <<coreKind, coreTime, delegate, listed, userTable, wrapper, untold, overstay>>

(* hyAuth: any time, whatever pass is under way.                           *)
Connect(u) ==
  /\ coreKind = "hy2" /\ wrapper.at = "running" /\ panel.at # "down"
  /\ u \in Authorised \ wrapper.serves
  /\ Serves(wrapper.serves \union {u})
  /\ UNCHANGED <<coreKind, coreTime, delegate, listed, userTable, panel>>

Disconnect(u) ==
  /\ coreKind = "hy2" /\ u \in wrapper.serves
  /\ Serves(wrapper.serves \ {u})
  /\ UNCHANGED <<coreKind, coreTime, delegate, listed, userTable, panel>>
-----------------------------------------------------------------------------
(* The wrapper: runRuntimeService.                                         *)

ReadLeases ==
  /\ wrapper.at = "down"
  /\ wrapper' = [wrapper EXCEPT !.at = "read", !.previous = listed,
                                !.active = Permitted(listed)]
  /\ UNCHANGED <<coreKind, coreTime, delegate, listed, userTable, panel, untold, overstay>>

(* filterExpiredMountClients.                                              *)
Loaded == IF coreKind = "xray" THEN userTable \ (KnownTo(listed) \ Permitted(listed)) ELSE {}

(* prepareMountedCore.                                                     *)
PrepareCore ==
  /\ wrapper.at = "read"
  /\ wrapper' = [wrapper EXCEPT !.at = "prepared", !.serves = Loaded]
  /\ UNCHANGED <<coreKind, coreTime, delegate, listed, userTable, panel, untold, overstay>>

(* Mutant: only who is permitted now is watched.                           *)
NoticedPermitted == Permitted(listed)

(* guardMountLeases: identities the core may have admitted since the file  *)
(* was read last.                                                          *)
Noticed == {u \in KnownTo(listed) : \/ listed[u].deadline > coreTime
                                  \/ wrapper.previous[u] # listed[u]}

Watched == [wrapper EXCEPT !.active = @ \union Noticed, !.previous = listed]

RunCore ==
  /\ wrapper.at = "prepared"
  /\ wrapper' = [Watched EXCEPT !.at = "running"]
  /\ untold' = untold \ Permitted(listed)
  /\ UNCHANGED <<coreKind, coreTime, delegate, listed, userTable, panel, overstay>>

Revocation(u) ==
  IF listed[u].deadline > coreTime THEN Unwatched
  ELSE IF wrapper.revokedAt[u] = Unwatched THEN coreTime ELSE wrapper.revokedAt[u]

Overdue(u) ==
  /\ listed[u].deadline <= coreTime
  /\ \/ listed[u].deadline > 0 /\ listed[u].deadline <= coreTime - GuardGrace
     \/ coreTime - Revocation(u) >= GuardGrace

(* Each second, in no order with the panel's steps.                        *)
PollLeases ==
  /\ wrapper.at = "running" /\ ~wrapper.polled
  /\ IF \E u \in Watched.active : Overdue(u) THEN Stopped
     ELSE /\ wrapper' = [Watched EXCEPT !.polled = TRUE, !.revokedAt =
               [u \in MountedUsers |-> IF u \in Watched.active THEN Revocation(u) ELSE @[u]]]
          /\ untold' = untold \ Permitted(listed)
          /\ UNCHANGED overstay
  /\ UNCHANGED <<coreKind, coreTime, delegate, listed, userTable, panel>>

(* The core or its wrapper ends by itself: runService starts it again.     *)
CrashCore ==
  /\ wrapper.at # "down"
  /\ Stopped
  /\ UNCHANGED <<coreKind, coreTime, delegate, listed, userTable, panel>>

(* A second, in which a running core's guard polls.                        *)
SecondPasses ==
  /\ coreTime < MaxCoreTime /\ (wrapper.at = "running" => wrapper.polled)
  /\ coreTime' = coreTime + 1
  /\ wrapper' = IF wrapper.at = "running" THEN [wrapper EXCEPT !.polled = FALSE] ELSE wrapper
  /\ overstay' = [u \in MountedUsers |->
       IF wrapper.at = "running" /\ u \in wrapper.serves \ (untold \union PermittedAt(listed, coreTime + 1))
       THEN IF overstay[u] = Overdone THEN Overdone ELSE overstay[u] + 1
       ELSE 0]
  /\ UNCHANGED <<coreKind, delegate, listed, userTable, panel, untold>>

-----------------------------------------------------------------------------
CoreLeasesNext ==
  \/ \E u \in MountedUsers :
       \/ GrantMount(u) \/ WithdrawMount(u) \/ SwitchMount(u)
       \/ Connect(u) \/ Disconnect(u)
  \/ ListLeases \/ WriteUsers \/ RestartCore \/ AddUsers \/ KickUsers
  \/ PassFails \/ StopPanel \/ StartPanel
  \/ ReadLeases \/ PrepareCore \/ RunCore \/ PollLeases \/ CrashCore
  \/ SecondPasses

CoreLeasesSpec == CoreLeasesInit /\ [][CoreLeasesNext]_CoreVars
-----------------------------------------------------------------------------
(* A core does not serve a delegated identity longer than the guard's      *)
(* grace and one poll after the file stopped permitting it, with or        *)
(* without the panel (mount_guard.go: "can expire delegated users even if  *)
(* the panel is stopped").  It does if the guard cannot know that it was   *)
(* permitted: it was admitted while the file did not permit it, or it was  *)
(* stopped and allowed again under the same revision between two polls.    *)
LeaseEndsService == \A u \in DOMAIN overstay : overstay[u] <= GuardGrace + 1
=============================================================================
