--------------------------- MODULE AccountSessions ---------------------------
(***************************************************************************)
(* Accounts, their deletion, and the refresh tokens that keep a device     *)
(* signed in (src/apps/server/src/account, auth, security).  Every         *)
(* operation is a request that awaits the database between its steps; the  *)
(* account is looked at first and written later, and what may still be     *)
(* written is decided by the condition of the UPDATE.  A transaction that  *)
(* revokes all tokens sees the tokens of one snapshot: one rotated while   *)
(* it waits is not among them.  Requests may stop anywhere (an error, a    *)
(* client gone, a server restarted); an open transaction is rolled back.   *)
(* One tick of the clock is five days; the thirty days of a token outlast  *)
(* the freeze and the model.                                               *)
(***************************************************************************)
EXTENDS Integers, Sequences, FiniteSets

CONSTANTS
  Phones,       \* phone numbers
  NoPhone,      \* the phone of an anonymised account
  Requests,     \* requests the servers handle at one time
  FreezeTicks,  \* FREEZE_DURATION_DAYS
  MaxTime,      \* bound: the clock
  MaxAccounts,  \* bound: rows of account
  MaxTokens,    \* bound: rows of refresh_token
  MaxCodes      \* bound: rows of account_sms_code

\* Three ticks: the freeze outlasts any two requests in a row.
ASSUME ClockAssumption ==
  /\ FreezeTicks \in Nat /\ FreezeTicks >= 3
  /\ MaxTime \in Nat

ASSUME PhoneAssumption == NoPhone \notin Phones

VARIABLES
  now,
  accounts,  \* account rows, by id
  tokens,    \* refresh_token rows, by id
  codes,     \* account_sms_code rows, by id
  events,    \* account id -> rows it has in the outbox, by type
  req,       \* request -> where it stands and what it has read
  sweep      \* the scheduler that anonymises

vars == <<now, accounts, tokens, codes, events, req, sweep>>

Idle == [op |-> "idle"]

NoEvents == [requested |-> 0, cancelled |-> 0, anonymised |-> 0]

Init ==
  /\ now = 0
  /\ accounts = <<>> /\ tokens = <<>> /\ codes = <<>> /\ events = <<>>
  /\ req = [r \in Requests |-> Idle]
  /\ sweep = Idle

------------------------------------------------------------------------------
\* Rows and conditions

Status(a) == accounts[a].status

OfPhone(p) == {a \in DOMAIN accounts : accounts[a].phone = p}

IsWithinGrace(a, t) == accounts[a].until > t

Active(k) == ~tokens[k].revoked

ActiveTokens(a) == {k \in DOMAIN tokens : tokens[k].acct = a /\ Active(k)}

\* The newest unused, unexpired code (codes live ten minutes: one tick).
FindActive(a, purpose, t) ==
  LET valid == {c \in DOMAIN codes :
                  /\ codes[c].acct = a /\ codes[c].purpose = purpose
                  /\ ~codes[c].used /\ codes[c].issued >= t}
  IN {c \in valid : \A d \in valid : d <= c}

\* A transaction that has updated the row of an account and not committed.
Locked(a) ==
  \/ \E r \in Requests : req[r].op = "freeze" /\ req[r].acct = a
  \/ sweep.op = "anonymise" /\ sweep.acct = a

Goto(r, s) == req' = [req EXCEPT ![r] = s]

\* Mutant: the two ids are passed in the wrong order.
PersistedSwapped(a, parent) ==
  Append(tokens, [acct |-> parent, from |-> a, revoked |-> FALSE])

Persisted(a, parent) ==
  Append(tokens, [acct |-> a, from |-> parent, revoked |-> FALSE])

RevokedAll(snap) ==
  [k \in DOMAIN tokens |->
     [tokens[k] EXCEPT !.revoked = @ \/ k \in snap]]

Used(c) == [codes EXCEPT ![c].used = TRUE]

Tally(a, type) == [events EXCEPT ![a][type] = @ + 1]

------------------------------------------------------------------------------
\* Login by phone: inspect, verify the code, commit, persist the token

LoginInspect(r, p) ==
  /\ req[r].op = "idle"
  /\ \A a \in OfPhone(p) : Status(a) = "ACTIVE"
  /\ Goto(r, [op |-> "login", at |-> now, phone |-> p])
  /\ UNCHANGED <<now, accounts, tokens, codes, events, sweep>>

CommitPhoneLogin(r) ==
  /\ req[r].op = "login"
  /\ \/ \E a \in OfPhone(req[r].phone) :
          /\ ~Locked(a)
          /\ Goto(r, [op |-> "persist", at |-> req[r].at, acct |-> a])
          /\ UNCHANGED <<accounts, events>>
     \/ /\ OfPhone(req[r].phone) = {}
        /\ Len(accounts) < MaxAccounts
        /\ accounts' = Append(accounts, [phone |-> req[r].phone,
                                         status |-> "ACTIVE", until |-> 0])
        /\ events' = Append(events, NoEvents)
        /\ Goto(r, [op |-> "persist", at |-> req[r].at,
                    acct |-> Len(accounts) + 1])
  /\ UNCHANGED <<now, tokens, codes, sweep>>

LoginPersist(r) ==
  /\ req[r].op = "persist"
  /\ Len(tokens) < MaxTokens
  /\ tokens' = Persisted(req[r].acct, 0)
  /\ Goto(r, Idle)
  /\ UNCHANGED <<now, accounts, codes, events, sweep>>

------------------------------------------------------------------------------
\* Refresh: find the token, inspect the account, rotate

FindActiveByHash(r, k) ==
  /\ req[r].op = "idle"
  /\ Active(k)
  /\ Goto(r, [op |-> "inspect", at |-> now, tok |-> k])
  /\ UNCHANGED <<now, accounts, tokens, codes, events, sweep>>

\* Mutant: a token that is active is taken to speak for an active account.
RefreshUninspected(r) ==
  /\ req[r].op = "inspect"
  /\ Goto(r, [req[r] EXCEPT !.op = "rotate"])
  /\ UNCHANGED <<now, accounts, tokens, codes, events, sweep>>

RefreshInspect(r) ==
  /\ req[r].op = "inspect"
  /\ Status(tokens[req[r].tok].acct) = "ACTIVE"
  /\ Goto(r, [req[r] EXCEPT !.op = "rotate"])
  /\ UNCHANGED <<now, accounts, tokens, codes, events, sweep>>

\* Mutant: the token was active when it was looked up.
MayRotateUnchecked(k) == TRUE

\* updateMany where {id, revokedAt: null}: no row, no rotation.
MayRotate(k) == Active(k)

Rotate(r) ==
  LET k == req[r].tok
  IN /\ req[r].op = "rotate"
     /\ MayRotate(k)
     /\ Len(tokens) < MaxTokens
     /\ tokens' = [Persisted(tokens[k].acct, k) EXCEPT ![k].revoked = TRUE]
     /\ Goto(r, Idle)
     /\ UNCHANGED <<now, accounts, codes, events, sweep>>

------------------------------------------------------------------------------
\* Codes that confirm a deletion or its cancellation

SendDeletionCode(r, a) ==
  /\ req[r].op = "idle"
  /\ Status(a) = "ACTIVE"
  /\ Goto(r, [op |-> "send", at |-> now, acct |-> a, purpose |-> "delete"])
  /\ UNCHANGED <<now, accounts, tokens, codes, events, sweep>>

SendCancelCode(r, a) ==
  /\ req[r].op = "idle"
  /\ Status(a) = "FROZEN" /\ IsWithinGrace(a, now)
  /\ Goto(r, [op |-> "send", at |-> now, acct |-> a, purpose |-> "cancel"])
  /\ UNCHANGED <<now, accounts, tokens, codes, events, sweep>>

Issue(r) ==
  /\ req[r].op = "send"
  /\ Len(codes) < MaxCodes
  /\ codes' = Append(codes, [acct |-> req[r].acct, used |-> FALSE,
                             purpose |-> req[r].purpose,
                             issued |-> IF req[r].purpose = "delete"
                                        THEN now ELSE req[r].at])
  /\ Goto(r, Idle)
  /\ UNCHANGED <<now, accounts, tokens, events, sweep>>

------------------------------------------------------------------------------
\* Deleting: guard, find the code, then one transaction

DeleteStart(r, a) ==
  /\ req[r].op = "idle"
  /\ Status(a) = "ACTIVE"
  /\ \E c \in FindActive(a, "delete", now) :
       Goto(r, [op |-> "delete", at |-> now, acct |-> a, code |-> c])
  /\ UNCHANGED <<now, accounts, tokens, codes, events, sweep>>

\* Mutant: markUsed without its condition.
MayUseAgain(c) == TRUE

MayUse(c) == ~codes[c].used

MayFreeze(a) == Status(a) = "ACTIVE"

\* markUsed, the conditional freeze, and the snapshot revokeAll reads.
DeleteClaim(r) ==
  LET a == req[r].acct
  IN /\ req[r].op = "delete"
     /\ ~Locked(a)
     /\ MayUse(req[r].code) /\ MayFreeze(a)
     /\ Goto(r, [op |-> "freeze", at |-> req[r].at, acct |-> a,
                 code |-> req[r].code, snap |-> ActiveTokens(a)])
     /\ UNCHANGED <<now, accounts, tokens, codes, events, sweep>>

DeleteCommit(r) ==
  LET a == req[r].acct
  IN /\ req[r].op = "freeze"
     /\ codes' = Used(req[r].code)
     /\ accounts' = [accounts EXCEPT
          ![a].status = "FROZEN", ![a].until = req[r].at + FreezeTicks]
     /\ tokens' = RevokedAll(req[r].snap)
     /\ events' = Tally(a, "requested")
     /\ Goto(r, Idle)
     /\ UNCHANGED <<now, sweep>>

------------------------------------------------------------------------------
\* Cancelling a deletion: inspect, find the code, then one transaction

CancelInspect(r, a) ==
  /\ req[r].op = "idle"
  /\ Status(a) = "FROZEN" /\ IsWithinGrace(a, now)
  /\ Goto(r, [op |-> "eligible", at |-> now, acct |-> a])
  /\ UNCHANGED <<now, accounts, tokens, codes, events, sweep>>

CancelFindCode(r) ==
  /\ req[r].op = "eligible"
  /\ \E c \in FindActive(req[r].acct, "cancel", req[r].at) :
       Goto(r, [op |-> "cancel", at |-> req[r].at, acct |-> req[r].acct,
                code |-> c])
  /\ UNCHANGED <<now, accounts, tokens, codes, events, sweep>>

MayCancel(a, t) == Status(a) = "FROZEN" /\ IsWithinGrace(a, t)

CancelCommit(r) ==
  LET a == req[r].acct
  IN /\ req[r].op = "cancel"
     /\ ~Locked(a)
     /\ MayUse(req[r].code) /\ MayCancel(a, req[r].at)
     /\ Len(tokens) < MaxTokens
     /\ codes' = Used(req[r].code)
     /\ accounts' = [accounts EXCEPT ![a].status = "ACTIVE", ![a].until = 0]
     /\ tokens' = Persisted(a, 0)
     /\ events' = Tally(a, "cancelled")
     /\ Goto(r, Idle)
     /\ UNCHANGED <<now, sweep>>

------------------------------------------------------------------------------
\* Signing out: every device, or one

LogoutAll(r, a) ==
  /\ req[r].op = "idle"
  /\ Goto(r, [op |-> "logout", at |-> now, snap |-> ActiveTokens(a)])
  /\ UNCHANGED <<now, accounts, tokens, codes, events, sweep>>

LogoutCommit(r) ==
  /\ req[r].op = "logout"
  /\ tokens' = RevokedAll(req[r].snap)
  /\ Goto(r, Idle)
  /\ UNCHANGED <<now, accounts, codes, events, sweep>>

RevokeDevice(k) ==
  /\ Active(k)
  /\ tokens' = RevokedAll({k})
  /\ UNCHANGED <<now, accounts, codes, events, req, sweep>>

\* The request ends without its next step: refused, failed, or cut off.
Abandon(r) ==
  /\ req[r].op # "idle"
  /\ Goto(r, Idle)
  /\ UNCHANGED <<now, accounts, tokens, codes, events, sweep>>

------------------------------------------------------------------------------
\* The daily sweep

Candidates ==
  {a \in DOMAIN accounts : Status(a) = "FROZEN" /\ ~IsWithinGrace(a, now)}

SweepStart ==
  /\ sweep.op = "idle"
  /\ Candidates # {}
  /\ sweep' = [op |-> "scan", at |-> now, todo |-> Candidates]
  /\ UNCHANGED <<now, accounts, tokens, codes, events, req>>

\* Mutant: the sweep trusts the candidates it read.
MayAnonymiseCandidate(a, t) == Status(a) # "ANONYMIZED"

MayAnonymise(a, t) == Status(a) = "FROZEN" /\ ~IsWithinGrace(a, t)

SweepClaim(a) ==
  /\ sweep.op = "scan" /\ a \in sweep.todo
  /\ ~Locked(a)
  /\ MayAnonymise(a, sweep.at)
  /\ sweep' = [op |-> "anonymise", at |-> sweep.at, acct |-> a,
               todo |-> sweep.todo \ {a}, snap |-> ActiveTokens(a)]
  /\ UNCHANGED <<now, accounts, tokens, codes, events, req>>

SweepSkip(a) ==
  /\ sweep.op = "scan" /\ a \in sweep.todo
  /\ ~Locked(a)
  /\ ~MayAnonymise(a, sweep.at)
  /\ sweep' = [sweep EXCEPT !.todo = @ \ {a}]
  /\ UNCHANGED <<now, accounts, tokens, codes, events, req>>

SweepCommit ==
  /\ sweep.op = "anonymise"
  /\ accounts' = [accounts EXCEPT ![sweep.acct] =
       [phone |-> NoPhone, status |-> "ANONYMIZED", until |-> 0]]
  /\ tokens' = RevokedAll(sweep.snap)
  /\ events' = Tally(sweep.acct, "anonymised")
  /\ sweep' = [op |-> "scan", at |-> sweep.at, todo |-> sweep.todo]
  /\ UNCHANGED <<now, codes, req>>

SweepEnd ==
  /\ sweep.op = "scan" /\ sweep.todo = {}
  /\ sweep' = Idle
  /\ UNCHANGED <<now, accounts, tokens, codes, events, req>>

\* A row whose transaction fails is rolled back and passed over; a server
\* that dies loses the rest of the sweep.
SweepRowFails ==
  /\ sweep.op = "anonymise"
  /\ sweep' = [op |-> "scan", at |-> sweep.at, todo |-> sweep.todo]
  /\ UNCHANGED <<now, accounts, tokens, codes, events, req>>

SweepCut ==
  /\ sweep.op # "idle"
  /\ sweep' = Idle
  /\ UNCHANGED <<now, accounts, tokens, codes, events, req>>

------------------------------------------------------------------------------
\* No request and no sweep is under way for a whole tick.
Tick ==
  /\ now < MaxTime
  /\ \A r \in Requests : req[r].op # "idle" => req[r].at = now
  /\ sweep.op # "idle" => sweep.at = now
  /\ now' = now + 1
  /\ UNCHANGED <<accounts, tokens, codes, events, req, sweep>>

Step(r) ==
  \/ CommitPhoneLogin(r) \/ LoginPersist(r)
  \/ RefreshInspect(r) \/ Rotate(r)
  \/ Issue(r)
  \/ DeleteClaim(r) \/ DeleteCommit(r)
  \/ CancelFindCode(r) \/ CancelCommit(r)
  \/ LogoutCommit(r)
  \/ Abandon(r)

Arrive(r) ==
  \/ \E p \in Phones : LoginInspect(r, p)
  \/ \E k \in DOMAIN tokens : FindActiveByHash(r, k)
  \/ \E a \in DOMAIN accounts :
       \/ SendDeletionCode(r, a) \/ SendCancelCode(r, a)
       \/ DeleteStart(r, a) \/ CancelInspect(r, a) \/ LogoutAll(r, a)

Sweep ==
  \/ SweepStart \/ SweepCommit \/ SweepEnd
  \/ SweepRowFails \/ SweepCut
  \/ \E a \in DOMAIN accounts : SweepClaim(a) \/ SweepSkip(a)

Next ==
  \/ \E r \in Requests : Arrive(r) \/ Step(r)
  \/ \E k \in DOMAIN tokens : RevokeDevice(k)
  \/ Sweep
  \/ Tick

Spec == Init /\ [][Next]_vars

------------------------------------------------------------------------------
\* Properties

\* Type correctness: ids refer to rows, and an open step carries what the
\* code captured in it.
SessionsTypeOK ==
  /\ now \in 0..MaxTime
  /\ \A a \in DOMAIN accounts :
       accounts[a] \in [phone : Phones \cup {NoPhone},
                        status : {"ACTIVE", "FROZEN", "ANONYMIZED"},
                        until : 0..(MaxTime + FreezeTicks)]
  /\ \A k \in DOMAIN tokens :
       tokens[k] \in [acct : DOMAIN accounts, from : 0..Len(tokens),
                      revoked : BOOLEAN]
  /\ \A c \in DOMAIN codes :
       codes[c] \in [acct : DOMAIN accounts, used : BOOLEAN,
                     purpose : {"delete", "cancel"}, issued : 0..MaxTime]
  /\ DOMAIN events = DOMAIN accounts
  /\ \A r \in Requests :
       req[r].op # "idle" => req[r].at \in {now, now - 1}

UsedCodes(a, purpose) ==
  {c \in DOMAIN codes :
     codes[c].acct = a /\ codes[c].purpose = purpose /\ codes[c].used}

\* The outbox tells the account's story: it is frozen exactly when one more
\* deletion was requested than was cancelled or carried out, and every
\* request and every cancellation was paid for with a code of its own, even
\* when several requests raced with one code or one account
\* (delete-account.usecase.ts, cancel-deletion.usecase.ts).
LedgerBalances ==
  \A a \in DOMAIN accounts :
    /\ events[a].requested - events[a].cancelled - events[a].anonymised
         = IF Status(a) = "FROZEN" THEN 1 ELSE 0
    /\ events[a].requested = Cardinality(UsedCodes(a, "delete"))
    /\ events[a].cancelled = Cardinality(UsedCodes(a, "cancel"))

\* A refresh token is exchanged at most once, whatever refreshes race
\* (refresh-token.service.ts 97-113).
OneSuccessor ==
  \A j, k \in DOMAIN tokens :
    tokens[j].from = tokens[k].from /\ tokens[j].from # 0 => j = k

\* An anonymised account has no session left, not even one that slipped past
\* the revocation when it froze
\* (commit-account-anonymization.usecase.ts 66-69).
AnonymisedHasNoSession ==
  \A a \in DOMAIN accounts :
    Status(a) = "ANONYMIZED" => ActiveTokens(a) = {}

\* An account is anonymised only when it is frozen and its grace is over in
\* real time, whatever was cancelled and frozen again since the sweep chose
\* it; and it is thawed only within a tick of its grace
\* (account.rules.ts 32-34).
GraceHonoured ==
  [][\A a \in DOMAIN accounts :
       /\ Status(a)' = "ANONYMIZED" /\ Status(a) # "ANONYMIZED"
            => Status(a) = "FROZEN" /\ now >= accounts[a].until
       /\ Status(a)' = "ACTIVE" /\ Status(a) = "FROZEN"
            => now <= accounts[a].until]_vars

=============================================================================
