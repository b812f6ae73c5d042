------------------------------ MODULE Admission ------------------------------
(***************************************************************************)
(* Who a device is for the hub: join tokens, the Join that spends one, and *)
(* nicknames (internal/hub/join_token.go, Join and Rename of registry.go,  *)
(* and the tables behind them).                                            *)
(*                                                                         *)
(* Join and Rename are sequences of single SQL statements without a        *)
(* transaction, so calls of different devices interleave between them; the *)
(* UNIQUE and PRIMARY KEY constraints of table devices have the last word. *)
(* The status of a device is module Registry; here a row is a nickname.    *)
(***************************************************************************)
EXTENDS Naturals

CONSTANTS Device,     \* device identities
          Name,       \* nicknames
          NoName,     \* no row, or no nickname known
          Token,      \* join tokens that can be issued
          MaxRenames  \* bound: renames that are attempted

ASSUME AdmissionAssumption ==
    /\ NoName \notin Name
    /\ MaxRenames \in Nat

VARIABLES token,    \* a row of pending_join_tokens: "none", "live", "gone"
          name,     \* the nickname in the device's row, NoName without a row
          call,     \* the device's Join or Rename in progress
          renames,  \* what is left of MaxRenames
          joined,   \* history: the tokens and devices of successful Joins
          held      \* history: the nicknames a device has had

admVars == <<token, name, call, renames, joined, held>>

Idle == [pc |-> "idle", to |-> NoName, tok |-> {}]
Call == [pc : {"idle", "check", "create", "write"}, to : Name \cup {NoName},
         tok : SUBSET Token]

AdmInit ==
    /\ token = [t \in Token |-> "none"]
    /\ name = [d \in Device |-> NoName]
    /\ call = [d \in Device |-> Idle]
    /\ renames = MaxRenames
    /\ joined = {}
    /\ held = [d \in Device |-> {}]

NoUnique(d, n) == TRUE \* mutant
\* The UNIQUE constraint on devices.nickname, for the row of d.
Unique(d, n) == \A e \in Device \ {d} : name[e] # n

Named(d, n) ==
    /\ name' = [name EXCEPT ![d] = n]
    /\ held' = [held EXCEPT ![d] = @ \cup {n}]

-----------------------------------------------------------------------------
(* Join tokens.                                                            *)

\* `hubfuse-hub issue-join`, a process of its own on the same database.
IssueJoinToken(t) ==
    /\ token[t] = "none"
    /\ token' = [token EXCEPT ![t] = "live"]
    /\ UNCHANGED <<name, call, renames, joined, held>>

\* The token expires; ClaimJoinToken does not find it any more, and whether
\* DeleteExpiredJoinTokens has removed the row makes no difference.
ExpireToken(t) ==
    /\ token[t] = "live"
    /\ token' = [token EXCEPT ![t] = "gone"]
    /\ UNCHANGED <<name, call, renames, joined, held>>

WasIssued(t) == token[t] # "none" \* mutant
\* ClaimJoinToken: one DELETE that finds the row only if it has not expired.
Claims(t) == token[t] = "live"

-----------------------------------------------------------------------------
(* Join and Rename.                                                        *)

\* consumeJoinToken: the token is gone whatever becomes of the Join.
JoinClaim(d, t, n) ==
    /\ call[d] = Idle
    /\ Claims(t)
    /\ token' = [token EXCEPT ![t] = "gone"]
    /\ call' = [call EXCEPT ![d] = [pc |-> "check", to |-> n, tok |-> {t}]]
    /\ UNCHANGED <<name, renames, joined, held>>

\* GetDeviceByNickname; an error of this read counts as "free".
JoinCheck(d) ==
    /\ call[d].pc = "check"
    /\ \/ ~Unique(d, call[d].to) /\ call' = [call EXCEPT ![d] = Idle]
       \/ call' = [call EXCEPT ![d].pc = "create"]
    /\ UNCHANGED <<token, name, renames, joined, held>>

\* CreateDevice refuses a second row of the device and a taken nickname;
\* afterwards the certificate can still fail, and the row stays.
JoinCreate(d) ==
    /\ call[d].pc = "create"
    /\ \/ UNCHANGED <<name, held, joined>> \* the INSERT fails
       \/ /\ name[d] = NoName /\ Unique(d, call[d].to)
          /\ Named(d, call[d].to)
          /\ \/ joined' = joined \cup {<<t, d>> : t \in call[d].tok}
             \/ UNCHANGED joined \* SignClientCert fails
    /\ call' = [call EXCEPT ![d] = Idle]
    /\ UNCHANGED <<token, renames>>

RenameCheck(d, n) ==
    /\ call[d] = Idle /\ renames > 0
    /\ \E p \in joined : p[2] = d
    /\ Unique(d, n)
    /\ renames' = renames - 1
    /\ call' = [call EXCEPT ![d] = [pc |-> "write", to |-> n, tok |-> {}]]
    /\ UNCHANGED <<token, name, joined, held>>

\* UpdateDeviceNickname: no row, or a nickname taken meanwhile, is an error.
RenameWrite(d) ==
    /\ call[d].pc = "write"
    /\ IF name[d] # NoName /\ Unique(d, call[d].to)
         THEN Named(d, call[d].to)
         ELSE UNCHANGED <<name, held>>
    /\ call' = [call EXCEPT ![d] = Idle]
    /\ UNCHANGED <<token, renames, joined>>

\* The row is deleted: Leave, or the prune of inactive devices.
Remove(d) ==
    /\ name[d] # NoName
    /\ name' = [name EXCEPT ![d] = NoName]
    /\ UNCHANGED <<token, call, renames, joined, held>>

AdmNext ==
    \/ \E t \in Token : IssueJoinToken(t) \/ ExpireToken(t)
    \/ \E d \in Device :
          \/ \E n \in Name : RenameCheck(d, n) \/ \E t \in Token : JoinClaim(d, t, n)
          \/ JoinCheck(d) \/ JoinCreate(d) \/ RenameWrite(d) \/ Remove(d)

-----------------------------------------------------------------------------

AdmTypeOK ==
    /\ token \in [Token -> {"none", "live", "gone"}]
    /\ name \in [Device -> Name \cup {NoName}]
    /\ call \in [Device -> Call]
    /\ renames \in 0..MaxRenames
    /\ joined \subseteq Token \X Device
    /\ held \in [Device -> SUBSET Name]

(* Whatever Joins and Renames interleave, and although the check of a nickname   *)
(* and the write of it are two statements, no two devices have the same          *)
(* nickname, and a join token has let in one device at most.                     *)
AdmissionSound ==
    /\ \A d, e \in Device : (d # e /\ name[d] = name[e]) => name[d] = NoName
    /\ \A p, q \in joined : p[1] = q[1] => p[2] = q[2]

=============================================================================
