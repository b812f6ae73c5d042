------------------------------- MODULE Access -------------------------------
(***************************************************************************)
(* Who may use a share: the agent that exports it, composed with the hub   *)
(* that names the devices (module Admission).                              *)
(*                                                                         *)
(* The agent's SFTP server grants a request by the device's key, by the    *)
(* share's access list as last installed, and by the nickname it has       *)
(* cached for the device.  The list comes from the configuration file,     *)
(* which the command line rewrites in place, and an editor in place or by  *)
(* rename, while the watcher's goroutine reads it; the nickname comes from *)
(* the hub, late or out of date.                                           *)
(* (internal/agent: sharesacl.go, sftphandler.go, sshserver.go,            *)
(* nicknames.go, keys.go, confighandler.go; internal/agent/config)         *)
(*                                                                         *)
(* One share is modelled.  A path inside it, and the containment checks on *)
(* it, are left out: a request is what it needs, reading or writing.       *)
(***************************************************************************)
EXTENDS Admission

CONSTANTS Peer,      \* bound: the devices this agent has to do with
          Tok,       \* what an access list may name: devices, nicknames, "all"
          First,     \* the access list the agent first starts with
          MaxEdits,  \* bound: rewrites of the configuration
          MaxStops   \* bound: how often the agent stops or dies

ASSUME AccessAssumption ==
    /\ Peer \subseteq Device
    /\ Tok \subseteq Device \cup Name \cup {"all"} /\ First \subseteq Tok
    /\ Device \cap Name = {} /\ "all" \notin Device \cup Name
    /\ MaxEdits \in Nat /\ MaxStops \in Nat

VARIABLES up,      \* the agent: "down", "made" (NewDaemon), "serving", "watching"
          view,    \* Daemon.onlineDevices: the nickname of each online peer
          nick,    \* Daemon.nicknames
          disk,    \* nicknames.json
          keys,    \* known_devices/*.pub
          allowed, \* the SSH server's authorised keys
          file,    \* the shares block of the configuration file
          saving,  \* the rest of a Save in progress
          dirty,   \* fsnotify has an event for the watcher
          watched, \* the watcher's fsnotify watch is on the file at the path
          base,    \* Watcher.current; no configuration has no shares
          watch,   \* the watcher's goroutine: "idle" or "publishing"
          acl,     \* SSHServer.acls
          conn,    \* peers with an SSH connection
          req,     \* a Rename request whose source was resolved: under what
          edits, stops, \* what is left of the bounds
          policy,  \* history: the configuration acl was made from
          sync,    \* history: what the watcher knows of the file, see EditInForce
          breached \* history: a request was granted that was not permitted

nameVars == <<view, nick, disk>>
keyVars  == <<keys, allowed>>
cfgVars  == <<file, saving, dirty, edits>>
aclVars  == <<base, watch, watched, acl, policy, sync>>
sftpVars == <<conn, req, breached>>
agentVars == <<up, stops, nameVars, keyVars, cfgVars, aclVars, sftpVars>>
vars == <<admVars, agentVars>>

-----------------------------------------------------------------------------
(* Configurations and access lists.                                        *)

NoShare == [toks |-> {}, perms |-> "none"] \* the share is not in the file
Config == [toks : SUBSET Tok, perms : {"ro", "rw"}] \cup {NoShare}
NoSave == [toks |-> {}, perms |-> "nothing"]

\* ShareACLsFromConfig: "all" becomes a flag, and what is not "rw" is read-only.
ShareACL(c) == [all |-> "all" \in c.toks, toks |-> c.toks \ {"all"},
                ro |-> c.perms # "rw", found |-> c # NoShare]

NoNames == [d \in Peer |-> NoName]

\* NicknameForDeviceID: the online peers first, then the cache.
NicknameForDeviceID(d) == IF view[d] # NoName THEN view[d] ELSE nick[d]

\* findShare and ShareACL.Decide.
Allow(d) ==
    /\ acl.found
    /\ \/ acl.all
       \/ d \in acl.toks
       \/ NicknameForDeviceID(d) # NoName /\ NicknameForDeviceID(d) \in acl.toks

\* resolveReadReal and resolveWriteReal.
Resolves(d, op) == Allow(d) /\ (op = "read" \/ ~acl.ro)

AccInit ==
    /\ up = "down" /\ stops = MaxStops
    /\ view = NoNames /\ nick = NoNames /\ disk = NoNames
    /\ keys = {} /\ allowed = {}
    /\ file = [toks |-> First, perms |-> "rw"] /\ saving = NoSave
    /\ dirty = FALSE /\ edits = MaxEdits
    /\ base = NoShare /\ watch = "idle" /\ acl = ShareACL(NoShare)
    /\ policy = NoShare /\ sync = "apart" /\ watched = FALSE
    /\ conn = {} /\ req = [d \in Peer |-> {}] /\ breached = FALSE

-----------------------------------------------------------------------------
(* The agent's life.                                                       *)

\* NewDaemon: the configuration, the access list and the nickname cache.
NewDaemon ==
    /\ up = "down"
    /\ up' = "made" /\ nick' = disk
    /\ acl' = ShareACL(file) /\ policy' = file
    /\ UNCHANGED <<stops, view, disk, keyVars, cfgVars, base, watch, watched, sync, sftpVars>>

\* startSSH and reloadSSHAllowedKeys.
StartSSH ==
    /\ up = "made"
    /\ up' = "serving" /\ allowed' = keys
    /\ UNCHANGED <<stops, nameVars, keys, cfgVars, aclVars, sftpVars>>

\* NewWatcher reads the file again as the watcher's baseline, which is nil if
\* that fails.
StartConfigWatcher(ok) ==
    /\ up = "serving"
    /\ up' = "watching" /\ watched' = TRUE
    /\ base' = IF ok THEN file ELSE NoShare
    /\ sync' = IF base' # policy THEN "apart" ELSE IF ok THEN "current" ELSE "unread"
    /\ UNCHANGED <<stops, nameVars, keyVars, cfgVars, watch, acl, policy, sftpVars>>

\* NewWatcher gets no watch, and the agent goes on without a watcher.
RunUnwatched ==
    /\ up = "serving"
    /\ up' = "watching"
    /\ UNCHANGED <<stops, nameVars, keyVars, cfgVars, aclVars, sftpVars>>

\* The agent stops, or is killed, at any point: its memory is gone.
StopAgent ==
    /\ up # "down" /\ stops > 0
    /\ up' = "down" /\ stops' = stops - 1
    /\ view' = NoNames /\ nick' = NoNames /\ allowed' = {}
    /\ acl' = ShareACL(NoShare) /\ policy' = NoShare /\ base' = NoShare
    /\ watch' = "idle" /\ watched' = FALSE /\ dirty' = FALSE /\ sync' = "apart"
    /\ conn' = {} /\ req' = [d \in Peer |-> {}]
    /\ UNCHANGED <<disk, keys, file, saving, edits, breached>>

-----------------------------------------------------------------------------
(* Nicknames and keys.                                                     *)

\* rememberNickname: the cache, and the file unless the write fails.
RememberNickname(d, n) ==
    /\ nick' = [nick EXCEPT ![d] = n]
    /\ disk' \in IF nick[d] = n THEN {disk} ELSE {disk, nick'}

\* A DeviceOnline event or a Register snapshot with a nickname that the hub
\* has had for the device, perhaps not the last one.
HearOnline(d, n) ==
    /\ up = "watching"
    /\ view' = [view EXCEPT ![d] = n]
    /\ RememberNickname(d, n)
    /\ UNCHANGED <<up, stops, keyVars, cfgVars, aclVars, sftpVars>>

\* seedNicknamesFromHub, before the SSH server starts: paired devices only.
SeedNickname(d, n) ==
    /\ up = "made" /\ d \in keys
    /\ RememberNickname(d, n)
    /\ UNCHANGED <<up, stops, view, keyVars, cfgVars, aclVars, sftpVars>>

\* DeviceOffline, DeviceRemoved, or a snapshot without the device.
HearOffline(d) ==
    /\ up = "watching" /\ view[d] # NoName
    /\ view' = [view EXCEPT ![d] = NoName]
    /\ UNCHANGED <<up, stops, nick, disk, keyVars, cfgVars, aclVars, sftpVars>>

\* handlePairingCompleted: the key is saved and the SSH server told.
PairingCompleted(d) ==
    /\ up = "watching" /\ d \notin allowed
    /\ keys' = keys \cup {d} /\ allowed' = keys'
    /\ UNCHANGED <<up, stops, nameVars, cfgVars, aclVars, sftpVars>>

\* `hubfuse pair-confirm`, another process: the key, and SetNickname with the
\* nickname the hub answered with.
PairConfirm(d) ==
    /\ name[d] # NoName /\ d \notin keys
    /\ keys' = keys \cup {d} /\ disk' = [disk EXCEPT ![d] = name[d]]
    /\ UNCHANGED <<up, stops, view, nick, allowed, cfgVars, aclVars, sftpVars>>

-----------------------------------------------------------------------------
(* The configuration file and its watcher.                                 *)

\* What one edit makes of the share: `share allow`, `share deny`, `share add`,
\* `share remove`, or an editor.
Edited ==
    IF file = NoShare THEN {[toks |-> {k}, perms |-> "ro"] : k \in Tok}
    ELSE {[file EXCEPT !.toks = @ \cup {k}] : k \in Tok \ file.toks}
         \cup {[file EXCEPT !.toks = @ \ {k}] : k \in file.toks}
         \cup {[file EXCEPT !.perms = "ro"], NoShare}

\* fsnotify reports a write to the file that the watch is on.
Noticed == dirty \/ (up = "watching" /\ watched)

\* Save, or an editor that writes in place, truncates the file ...
Truncate(c) ==
    /\ edits > 0 /\ saving = NoSave
    /\ edits' = edits - 1
    /\ file' = NoShare /\ saving' = c /\ dirty' = Noticed
    /\ UNCHANGED <<up, stops, nameVars, keyVars, aclVars, sftpVars>>

\* ... and writes it.
Write ==
    /\ saving # NoSave
    /\ file' = saving /\ saving' = NoSave /\ dirty' = Noticed
    /\ UNCHANGED <<up, stops, edits, nameVars, keyVars, aclVars, sftpVars>>

\* An editor that renames a new file over the path: the watch goes with the
\* old file, and what it reports of that is neither a Write nor a Create.
SaveByRename(c) ==
    /\ edits > 0 /\ saving = NoSave
    /\ edits' = edits - 1
    /\ file' = c /\ watched' = FALSE /\ sync' = "apart"
    /\ UNCHANGED <<up, stops, nameVars, keyVars, saving, dirty, base, watch, acl,
                   policy, sftpVars>>

\* Watcher.reload and the first half of onConfigChange: an unchanged share
\* list is left alone, a changed one is published to the hub first.
Reload ==
    /\ up = "watching" /\ watch = "idle" /\ dirty
    /\ dirty' = FALSE /\ base' = file
    /\ sync' = IF sync = "unread" THEN "current" ELSE sync
    /\ watch' = IF file # base THEN "publishing" ELSE "idle"
    /\ UNCHANGED <<up, stops, nameVars, keyVars, file, saving, edits, watched, acl,
                   policy, sftpVars>>

\* Watcher.reload when Load fails, on a file it refuses (a mount tool it does
\* not know, say) or cannot read: the event is gone and nothing changes.
ReloadFails ==
    /\ up = "watching" /\ watch = "idle" /\ dirty
    /\ dirty' = FALSE
    /\ sync' = IF sync = "current" THEN "unread" ELSE sync
    /\ UNCHANGED <<up, stops, nameVars, keyVars, file, saving, edits, base, watch,
                   watched, acl, policy, sftpVars>>

InstallsIfPublished(ok) == ok \* mutant
\* Whether the access list is installed once the publish has returned.
Installs(ok) == TRUE

\* The publish returns, with an error or at its deadline at the latest, or was
\* skipped; then UpdateShares of the SSH server.
PublishEnds(ok) ==
    /\ up = "watching" /\ watch = "publishing"
    /\ watch' = "idle" /\ sync' = IF watched THEN "current" ELSE sync
    /\ IF Installs(ok) THEN acl' = ShareACL(base) /\ policy' = base
                       ELSE UNCHANGED <<acl, policy>>
    /\ UNCHANGED <<up, stops, nameVars, keyVars, cfgVars, base, watched, sftpVars>>

-----------------------------------------------------------------------------
(* The SFTP server.                                                        *)

AuthorisedAnyKey(d) == TRUE \* mutant
\* publicKeyCallback: the key is one of the authorised ones.
Authorised(d) == d \in allowed

\* handleConn: the connection keeps the device's ID.
Connect(d) ==
    /\ up \in {"serving", "watching"} /\ d \notin conn /\ Authorised(d)
    /\ conn' = conn \cup {d}
    /\ UNCHANGED <<up, stops, nameVars, keyVars, cfgVars, aclVars, req, breached>>

Disconnect(d) ==
    /\ d \in conn
    /\ conn' = conn \ {d} /\ req' = [req EXCEPT ![d] = {}]
    /\ UNCHANGED <<up, stops, nameVars, keyVars, cfgVars, aclVars, breached>>

\* What a configuration says, in the words of the README: the device is listed
\* by identity or by a nickname it has had, or everyone is; "ro" is for readers.
Permits(c, d, op) ==
    /\ c # NoShare
    /\ c.toks \cap ({d, "all"} \cup held[d]) # {}
    /\ op = "read" \/ c.perms = "rw"

\* A request is granted that was resolved under these configurations.
Grant(d, op, under) ==
    breached' = (breached \/ d \notin keys \/ \E c \in under : ~Permits(c, d, op))

\* One request, by Fileread, Filelist, Filewrite, OpenFile or Filecmd.
Request(d, op) ==
    /\ d \in conn /\ req[d] = {}
    /\ Resolves(d, op)
    /\ IF op = "rename"
         THEN req' = [req EXCEPT ![d] = {policy}] /\ UNCHANGED breached
         ELSE Grant(d, op, {policy}) /\ UNCHANGED req
    /\ UNCHANGED <<up, stops, nameVars, keyVars, cfgVars, aclVars, conn>>

SourceIsEnough(d) == TRUE \* mutant
TargetResolves(d) == Resolves(d, "rename")

\* Rename and Link resolve their target in a second step of its own.
RequestTarget(d) ==
    /\ req[d] # {}
    /\ IF TargetResolves(d) THEN Grant(d, "rename", req[d] \cup {policy})
                            ELSE UNCHANGED breached
    /\ req' = [req EXCEPT ![d] = {}]
    /\ UNCHANGED <<up, stops, nameVars, keyVars, cfgVars, aclVars, conn>>

-----------------------------------------------------------------------------

ConfigStep == Write \/ Reload \/ ReloadFails
              \/ (\E ok \in BOOLEAN : PublishEnds(ok))
              \/ (\E c \in Edited : Truncate(c) \/ SaveByRename(c))
PeerStep(d) ==
    \/ \E n \in held[d] : HearOnline(d, n) \/ SeedNickname(d, n)
    \/ HearOffline(d) \/ PairingCompleted(d) \/ PairConfirm(d)
    \/ Connect(d) \/ Disconnect(d)
    \/ (\E op \in {"read", "write", "rename"} : Request(d, op))
    \/ RequestTarget(d)

AgentNext == NewDaemon \/ StartSSH \/ StopAgent
             \/ RunUnwatched \/ (\E ok \in BOOLEAN : StartConfigWatcher(ok))
             \/ ConfigStep \/ \E d \in Peer : PeerStep(d)

Init == AdmInit /\ AccInit
Next == (AdmNext /\ UNCHANGED agentVars) \/ (AgentNext /\ UNCHANGED admVars)

Spec == Init /\ [][Next]_vars

-----------------------------------------------------------------------------

(* Every variable has its type; a connection is one of an authorised key, and    *)
(* an authorised key is one on disk.                                             *)
TypeOK ==
    /\ AdmTypeOK
    /\ up \in {"down", "made", "serving", "watching"} /\ stops \in 0..MaxStops
    /\ {view, nick, disk} \subseteq [Peer -> Name \cup {NoName}]
    /\ allowed \subseteq keys /\ keys \subseteq Peer
    /\ {file, base, policy} \subseteq Config /\ saving \in Config \cup {NoSave}
    /\ dirty \in BOOLEAN /\ edits \in 0..MaxEdits
    /\ watch \in {"idle", "publishing"} /\ watched \in BOOLEAN
    /\ sync \in {"apart", "unread", "current"}
    /\ conn \subseteq allowed /\ req \in [Peer -> SUBSET Config]
    /\ breached \in BOOLEAN

(* Every request the SFTP server grants is one of a paired device that each      *)
(* configuration in force while the request was resolved permits, however the    *)
(* reload of the file, stale nicknames, a restart, or a revocation between the   *)
(* two halves of a Rename fall.                                                  *)
GrantJustified == ~breached

(* An edit takes effect in the SFTP server even if the hub could not be told of  *)
(* it and even if the watcher has read the truncated file first: when the        *)
(* watcher has nothing left to do, the configuration in force is the one in the  *)
(* file.  Exceptions, all "apart" but the second: an edit between NewDaemon and  *)
(* NewWatcher, or a file that NewWatcher could not load, until the watcher       *)
(* installs a later change; a file that Load refused, until an event after which *)
(* it loads ("unread", watcher.go:80-84); a save by rename, which takes the      *)
(* watch away for good (watcher.go:30 and :60); and no watch in the first place  *)
(* (daemon.go:1486-1490).                                                        *)
EditInForce ==
    (up = "watching" /\ sync = "current" /\ watch = "idle" /\ ~dirty) => policy = file

=============================================================================
