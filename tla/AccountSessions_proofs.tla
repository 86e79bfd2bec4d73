----------------------- MODULE AccountSessions_proofs -----------------------
(***************************************************************************)
(* Proofs about AccountSessions, for any phones, requests and bounds.      *)
(*                                                                         *)
(* Can a session outlive its account?  A request that will write a token   *)
(* looked at the account before, and is at most a tick old (InTime).  If   *)
(* the account froze meanwhile, its grace ends two ticks after that look   *)
(* at the earliest (Early), so that the request is gone when the sweep     *)
(* may take the account.  While the sweep's transaction is open, nothing   *)
(* can add a token to what its snapshot shows (SweepHolds).                *)
(***************************************************************************)
EXTENDS AccountSessions, FiniteSetTheorems, TLAPS

AccountRecord == [phone : Phones \cup {NoPhone},
                  status : {"ACTIVE", "FROZEN", "ANONYMIZED"}, until : Nat]
TokenRecord == [acct : Nat, from : Nat, revoked : BOOLEAN]
CodeRecord == [acct : Nat, used : BOOLEAN, purpose : {"delete", "cancel"},
               issued : Nat]
EventRecord == [requested : Nat, cancelled : Nat, anonymised : Nat]

RequestRecord ==
  {Idle}
    \cup [op : {"login"}, at : Nat, phone : Phones]
    \cup [op : {"persist", "eligible"}, at : Nat, acct : Nat]
    \cup [op : {"inspect", "rotate"}, at : Nat, tok : Nat]
    \cup [op : {"send"}, at : Nat, acct : Nat, purpose : {"delete", "cancel"}]
    \cup [op : {"delete", "cancel"}, at : Nat, acct : Nat, code : Nat]
    \cup [op : {"freeze"}, at : Nat, acct : Nat, code : Nat, snap : SUBSET Nat]
    \cup [op : {"logout"}, at : Nat, snap : SUBSET Nat]

SweepRecord ==
  {Idle}
    \cup [op : {"scan"}, at : Nat, todo : SUBSET Nat]
    \cup [op : {"anonymise"}, at : Nat, acct : Nat, todo : SUBSET Nat,
          snap : SUBSET Nat]

(* The shape of every variable, and ids that refer to rows.                *)
Shapes ==
  /\ now \in Nat
  /\ accounts \in Seq(AccountRecord)
  /\ tokens \in Seq(TokenRecord)
  /\ codes \in Seq(CodeRecord)
  /\ events \in Seq(EventRecord) /\ Len(events) = Len(accounts)
  /\ req \in [Requests -> RequestRecord]
  /\ sweep \in SweepRecord

TokensRefer ==
  \A k \in DOMAIN tokens :
    /\ tokens[k].acct \in DOMAIN accounts
    /\ tokens[k].from # 0 => /\ tokens[k].from \in DOMAIN tokens
                             /\ tokens[tokens[k].from].revoked

OfAccount == {"persist", "eligible", "send", "delete", "cancel", "freeze"}
OfToken == {"inspect", "rotate"}

RequestsRefer ==
  \A r \in Requests :
    /\ req[r].op \in OfAccount => req[r].acct \in DOMAIN accounts
    /\ req[r].op \in OfToken => req[r].tok \in DOMAIN tokens

(* Nothing is under way for a whole tick.                                  *)
InTime ==
  /\ \A r \in Requests : req[r].op # "idle" =>
       req[r].at <= now /\ now <= req[r].at + 1
  /\ sweep.op # "idle" => sweep.at <= now /\ now <= sweep.at + 1

(* An account seen active at t is not anonymised, and if it froze since    *)
(* then, its grace has two ticks to go after t.                            *)
Early(a, t) ==
  /\ Status(a) # "ANONYMIZED"
  /\ Status(a) = "FROZEN" => t + 2 <= accounts[a].until

SeenActive ==
  \A r \in Requests :
    /\ req[r].op = "login" => \A a \in OfPhone(req[r].phone) :
                                Early(a, req[r].at)
    /\ req[r].op = "persist" => Early(req[r].acct, req[r].at)
    /\ req[r].op = "rotate" => Early(tokens[req[r].tok].acct, req[r].at)

(* Open transactions hold their account's row.                             *)
FreezesHold ==
  \A r \in Requests : req[r].op = "freeze" =>
    /\ Status(req[r].acct) = "ACTIVE"
    /\ sweep.op = "anonymise" => sweep.acct # req[r].acct
    /\ \A q \in Requests : req[q].op = "freeze" /\ req[q].acct = req[r].acct
                             => q = r

SweepHolds ==
  sweep.op = "anonymise" =>
    /\ sweep.acct \in DOMAIN accounts
    /\ Status(sweep.acct) = "FROZEN" /\ accounts[sweep.acct].until <= sweep.at
    /\ ActiveTokens(sweep.acct) \subseteq sweep.snap

SessionsInv ==
  /\ Shapes
  /\ TokensRefer
  /\ RequestsRefer
  /\ InTime
  /\ SeenActive
  /\ FreezesHold
  /\ SweepHolds
  /\ OneSuccessor
  /\ AnonymisedHasNoSession

-----------------------------------------------------------------------------
(* The rows a step may write.                                              *)
LEMMA AppendedRow ==
  ASSUME NEW S, NEW s \in Seq(S), NEW x \in S
  PROVE  /\ Append(s, x) \in Seq(S)
         /\ Len(Append(s, x)) = Len(s) + 1
         /\ DOMAIN s = 1..Len(s)
         /\ DOMAIN Append(s, x) = 1..(Len(s) + 1)
         /\ Append(s, x)[Len(s) + 1] = x
         /\ \A i \in DOMAIN s : i # Len(s) + 1 /\ Append(s, x)[i] = s[i]
  OBVIOUS

LEMMA RowOf ==
  ASSUME NEW S, NEW s \in Seq(S), NEW i \in DOMAIN s
  PROVE  s[i] \in S
  OBVIOUS

LEMMA ChangedRow ==
  ASSUME NEW S, NEW s \in Seq(S), NEW i \in DOMAIN s, NEW x \in S
  PROVE  /\ [s EXCEPT ![i] = x] \in Seq(S)
         /\ Len([s EXCEPT ![i] = x]) = Len(s)
         /\ DOMAIN [s EXCEPT ![i] = x] = DOMAIN s
         /\ [s EXCEPT ![i] = x][i] = x
         /\ \A j \in DOMAIN s : j # i => [s EXCEPT ![i] = x][j] = s[j]
  OBVIOUS

LEMMA Revoking ==
  ASSUME tokens \in Seq(TokenRecord), NEW snap
  PROVE  /\ RevokedAll(snap) \in Seq(TokenRecord)
         /\ Len(RevokedAll(snap)) = Len(tokens)
         /\ DOMAIN RevokedAll(snap) = DOMAIN tokens
         /\ \A k \in DOMAIN tokens :
              /\ RevokedAll(snap)[k].acct = tokens[k].acct
              /\ RevokedAll(snap)[k].from = tokens[k].from
              /\ RevokedAll(snap)[k].revoked
                   = (tokens[k].revoked \/ k \in snap)
  <1>1. ASSUME NEW b, NEW c, NEW k, b \in TokenRecord,
               c = [b EXCEPT !.revoked = @ \/ k \in snap]
        PROVE  /\ c \in TokenRecord /\ c.acct = b.acct /\ c.from = b.from
               /\ c.revoked = (b.revoked \/ k \in snap)
    BY <1>1 DEF TokenRecord
  <1>2. DOMAIN tokens = 1..Len(tokens) /\ Len(tokens) \in Nat
    OBVIOUS
  <1>3. \A k \in DOMAIN tokens : tokens[k] \in TokenRecord
    OBVIOUS
  <1>4. DOMAIN RevokedAll(snap) = DOMAIN tokens
    BY DEF RevokedAll
  <1>5. \A k \in DOMAIN tokens :
          RevokedAll(snap)[k] = [tokens[k] EXCEPT !.revoked = @ \/ k \in snap]
    BY DEF RevokedAll
  <1>6. \A k \in DOMAIN tokens :
          /\ RevokedAll(snap)[k] \in TokenRecord
          /\ RevokedAll(snap)[k].acct = tokens[k].acct
          /\ RevokedAll(snap)[k].from = tokens[k].from
          /\ RevokedAll(snap)[k].revoked = (tokens[k].revoked \/ k \in snap)
    BY <1>1, <1>3, <1>5
  <1>7. RevokedAll(snap) \in [1..Len(tokens) -> TokenRecord]
    BY <1>2, <1>4, <1>6 DEF RevokedAll
  <1> QED BY <1>2, <1>4, <1>6, <1>7

(* The fields of requests and of the sweep.                                *)
LEMMA RequestFields ==
  ASSUME Shapes, NEW r \in Requests
  PROVE  /\ req[r] \in RequestRecord
         /\ req[r].op # "idle" => req[r].at \in Nat
         /\ req[r].op = "login" => req[r].phone \in Phones
         /\ req[r].op \in OfAccount => req[r].acct \in Nat
         /\ req[r].op \in OfToken => req[r].tok \in Nat
         /\ req[r].op \in {"delete", "cancel", "freeze"} => req[r].code \in Nat
         /\ req[r].op \in {"freeze", "logout"} => req[r].snap \in SUBSET Nat
         /\ req[r].op = "send" => req[r].purpose \in {"delete", "cancel"}
  <1>1. req[r] \in RequestRecord
    BY DEF Shapes
  <1> QED BY <1>1 DEF RequestRecord, Idle, OfAccount, OfToken

LEMMA SweepFields ==
  ASSUME Shapes
  PROVE  /\ sweep.op \in {"idle", "scan", "anonymise"}
         /\ sweep.op # "idle" => sweep.at \in Nat /\ sweep.todo \in SUBSET Nat
         /\ sweep.op = "anonymise" =>
              sweep.acct \in Nat /\ sweep.snap \in SUBSET Nat
  BY DEF Shapes, SweepRecord, Idle

LEMMA AccountFields ==
  ASSUME Shapes, NEW a \in DOMAIN accounts
  PROVE  /\ accounts[a] \in AccountRecord
         /\ accounts[a].phone \in Phones \cup {NoPhone}
         /\ Status(a) \in {"ACTIVE", "FROZEN", "ANONYMIZED"}
         /\ accounts[a].until \in Nat
  <1>1. accounts[a] \in AccountRecord
    BY DEF Shapes
  <1> QED BY <1>1 DEF AccountRecord, Status

LEMMA TokenFields ==
  ASSUME Shapes, NEW k \in DOMAIN tokens
  PROVE  /\ tokens[k] \in TokenRecord /\ k \in Nat
         /\ tokens[k].acct \in Nat /\ tokens[k].from \in Nat
         /\ tokens[k].revoked \in BOOLEAN
  <1>1. tokens[k] \in TokenRecord /\ k \in Nat
    BY DEF Shapes
  <1> QED BY <1>1 DEF TokenRecord

-----------------------------------------------------------------------------
(* Steps of a request that write no row: where it may go.                  *)
GoodRequest(s) ==
  /\ s \in RequestRecord
  /\ s.op # "idle" => s.at <= now /\ now <= s.at + 1
  /\ s.op \in OfAccount => s.acct \in DOMAIN accounts
  /\ s.op \in OfToken => s.tok \in DOMAIN tokens
  /\ s.op = "login" => \A a \in OfPhone(s.phone) : Early(a, s.at)
  /\ s.op = "persist" => Early(s.acct, s.at)
  /\ s.op = "rotate" => Early(tokens[s.tok].acct, s.at)
  /\ s.op = "freeze" => Status(s.acct) = "ACTIVE" /\ ~Locked(s.acct)

LEMMA RequestStep ==
  ASSUME SessionsInv, NEW r \in Requests, NEW s, GoodRequest(s), Goto(r, s),
         UNCHANGED <<now, accounts, tokens, codes, events, sweep>>
  PROVE  SessionsInv'
  <1>0. req \in [Requests -> RequestRecord]
    BY DEF SessionsInv, Shapes
  <1>1. req'[r] = s /\ \A q \in Requests : q # r => req'[q] = req[q]
    BY <1>0 DEF Goto
  <1>2. Shapes'
    BY <1>0 DEF SessionsInv, Shapes, Goto, GoodRequest
  <1>3. TokensRefer' /\ OneSuccessor' /\ AnonymisedHasNoSession'
    BY DEF SessionsInv, TokensRefer, OneSuccessor, AnonymisedHasNoSession,
           Status, ActiveTokens, Active
  <1>4. RequestsRefer'
    BY <1>1 DEF SessionsInv, RequestsRefer, GoodRequest
  <1>5. InTime'
    BY <1>1 DEF SessionsInv, InTime, GoodRequest
  <1>6. SeenActive'
    BY <1>1 DEF SessionsInv, SeenActive, GoodRequest, Early, Status, OfPhone
  <1>7. FreezesHold'
    BY <1>1 DEF SessionsInv, FreezesHold, GoodRequest, Status, Locked
  <1>8. SweepHolds'
    BY DEF SessionsInv, SweepHolds, Status, ActiveTokens, Active
  <1> QED BY <1>2, <1>3, <1>4, <1>5, <1>6, <1>7, <1>8 DEF SessionsInv

LEMMA GoodIdle == GoodRequest(Idle)
  BY DEF GoodRequest, Idle, RequestRecord, OfAccount, OfToken

LEMMA ArriveKeeps ==
  ASSUME SessionsInv, NEW r \in Requests, Arrive(r)
  PROVE  SessionsInv'
  <1>0. Shapes /\ now \in Nat /\ now <= now /\ now <= now + 1
    BY DEF SessionsInv, Shapes
  <1>1. ASSUME NEW p \in Phones, LoginInspect(r, p) PROVE SessionsInv'
    <2> DEFINE s == [op |-> "login", at |-> now, phone |-> p]
    <2>1. GoodRequest(s)
      BY <1>0, <1>1 DEF LoginInspect, GoodRequest, RequestRecord, OfAccount,
                        OfToken, Early
    <2> QED BY <1>1, <2>1, RequestStep DEF LoginInspect
  <1>2. ASSUME NEW k \in DOMAIN tokens, FindActiveByHash(r, k)
        PROVE  SessionsInv'
    <2> DEFINE s == [op |-> "inspect", at |-> now, tok |-> k]
    <2>1. GoodRequest(s)
      BY <1>0, TokenFields DEF GoodRequest, RequestRecord, OfAccount, OfToken
    <2> QED BY <1>2, <2>1, RequestStep DEF FindActiveByHash
  <1> SUFFICES ASSUME NEW a \in DOMAIN accounts,
                      \/ SendDeletionCode(r, a) \/ SendCancelCode(r, a)
                      \/ DeleteStart(r, a) \/ CancelInspect(r, a)
                      \/ LogoutAll(r, a)
               PROVE  SessionsInv'
    BY <1>1, <1>2 DEF Arrive
  <1>a. a \in Nat
    BY <1>0 DEF Shapes
  <1>3. ASSUME NEW u \in {"delete", "cancel"},
               Goto(r, [op |-> "send", at |-> now, acct |-> a,
                        purpose |-> u]),
               UNCHANGED <<now, accounts, tokens, codes, events, sweep>>
        PROVE  SessionsInv'
    <2> DEFINE s == [op |-> "send", at |-> now, acct |-> a, purpose |-> u]
    <2>1. GoodRequest(s)
      BY <1>0, <1>a DEF GoodRequest, RequestRecord, OfAccount, OfToken
    <2> QED BY <1>3, <2>1, RequestStep
  <1>4. CASE DeleteStart(r, a)
    <2>1. PICK c \in FindActive(a, "delete", now) :
            Goto(r, [op |-> "delete", at |-> now, acct |-> a, code |-> c])
      BY <1>4 DEF DeleteStart
    <2>2. c \in Nat
      BY <1>0, <2>1 DEF FindActive, Shapes
    <2> DEFINE s == [op |-> "delete", at |-> now, acct |-> a, code |-> c]
    <2>3. GoodRequest(s)
      BY <1>0, <1>a, <2>2 DEF GoodRequest, RequestRecord, OfAccount, OfToken
    <2> QED BY <1>4, <2>1, <2>3, RequestStep DEF DeleteStart
  <1>5. CASE CancelInspect(r, a)
    <2> DEFINE s == [op |-> "eligible", at |-> now, acct |-> a]
    <2>1. GoodRequest(s)
      BY <1>0, <1>a DEF GoodRequest, RequestRecord, OfAccount, OfToken
    <2> QED BY <1>5, <2>1, RequestStep DEF CancelInspect
  <1>6. CASE LogoutAll(r, a)
    <2> DEFINE s == [op |-> "logout", at |-> now, snap |-> ActiveTokens(a)]
    <2>1. ActiveTokens(a) \in SUBSET Nat
      BY <1>0 DEF ActiveTokens, Shapes
    <2>2. GoodRequest(s)
      BY <1>0, <2>1 DEF GoodRequest, RequestRecord, OfAccount, OfToken
    <2> QED BY <1>6, <2>2, RequestStep DEF LogoutAll
  <1> QED BY <1>3, <1>4, <1>5, <1>6 DEF SendDeletionCode, SendCancelCode

LEMMA AskingKeeps ==
  ASSUME SessionsInv, NEW r \in Requests,
         \/ RefreshInspect(r) \/ DeleteClaim(r) \/ CancelFindCode(r)
         \/ Abandon(r)
         \/ CommitPhoneLogin(r) /\ UNCHANGED accounts
  PROVE  SessionsInv'
  <1>0. Shapes /\ RequestsRefer /\ InTime /\ now \in Nat
    BY DEF SessionsInv, Shapes
  <1>1. CASE RefreshInspect(r)
    <2> DEFINE s == [req[r] EXCEPT !.op = "rotate"]
    <2>1. /\ req[r].op = "inspect" /\ req[r] \in RequestRecord
          /\ req[r].tok \in DOMAIN tokens /\ req[r].at \in Nat
          /\ Status(tokens[req[r].tok].acct) = "ACTIVE"
          /\ req[r].at <= now /\ now <= req[r].at + 1
      BY <1>0, <1>1, RequestFields
      DEF RefreshInspect, RequestsRefer, InTime, OfToken
    <2>2. req[r] \in [op : {"inspect", "rotate"}, at : Nat, tok : Nat]
      BY <2>1 DEF RequestRecord, Idle
    <2>3. /\ s \in [op : {"inspect", "rotate"}, at : Nat, tok : Nat]
          /\ s.op = "rotate" /\ s.at = req[r].at /\ s.tok = req[r].tok
      BY <2>2
    <2> HIDE DEF s
    <2>4. GoodRequest(s)
      BY <2>1, <2>3 DEF GoodRequest, RequestRecord, OfAccount, OfToken, Early
    <2>5. Goto(r, s)
      BY <1>1 DEF RefreshInspect, s
    <2> QED BY <1>1, <2>4, <2>5, RequestStep DEF RefreshInspect
  <1>2. CASE DeleteClaim(r)
    <2> DEFINE s == [op |-> "freeze", at |-> req[r].at, acct |-> req[r].acct,
                     code |-> req[r].code, snap |-> ActiveTokens(req[r].acct)]
    <2>1. /\ req[r].op = "delete" /\ req[r].acct \in DOMAIN accounts
          /\ req[r].at \in Nat /\ req[r].acct \in Nat /\ req[r].code \in Nat
          /\ req[r].at <= now /\ now <= req[r].at + 1
          /\ Status(req[r].acct) = "ACTIVE" /\ ~Locked(req[r].acct)
      BY <1>0, <1>2, RequestFields
      DEF DeleteClaim, RequestsRefer, InTime, OfAccount, MayFreeze
    <2>2. ActiveTokens(req[r].acct) \in SUBSET Nat
      BY <1>0 DEF ActiveTokens, Shapes
    <2>3. GoodRequest(s)
      BY <2>1, <2>2 DEF GoodRequest, RequestRecord, OfAccount, OfToken
    <2> QED BY <1>2, <2>3, RequestStep DEF DeleteClaim
  <1>3. CASE CancelFindCode(r)
    <2>1. PICK c \in FindActive(req[r].acct, "cancel", req[r].at) :
            Goto(r, [op |-> "cancel", at |-> req[r].at, acct |-> req[r].acct,
                     code |-> c])
      BY <1>3 DEF CancelFindCode
    <2> DEFINE s == [op |-> "cancel", at |-> req[r].at, acct |-> req[r].acct,
                     code |-> c]
    <2>2. /\ req[r].op = "eligible" /\ req[r].acct \in DOMAIN accounts
          /\ req[r].at \in Nat /\ req[r].acct \in Nat
          /\ req[r].at <= now /\ now <= req[r].at + 1
      BY <1>0, <1>3, RequestFields
      DEF CancelFindCode, RequestsRefer, InTime, OfAccount
    <2>3. c \in Nat
      BY <1>0, <2>1 DEF FindActive, Shapes
    <2>4. GoodRequest(s)
      BY <2>2, <2>3 DEF GoodRequest, RequestRecord, OfAccount, OfToken
    <2> QED BY <1>3, <2>1, <2>4, RequestStep DEF CancelFindCode
  <1>4. CASE Abandon(r)
    BY <1>4, GoodIdle, RequestStep DEF Abandon
  <1>5. CASE CommitPhoneLogin(r) /\ UNCHANGED accounts
    <2>1. accounts # Append(accounts, [phone |-> req[r].phone,
                                       status |-> "ACTIVE", until |-> 0])
      <3>1. accounts \in Seq(AccountRecord)
        BY <1>0 DEF Shapes
      <3>2. Len(accounts) \in Nat
        BY <3>1
      <3>3. \A x : Len(Append(accounts, x)) = Len(accounts) + 1
        BY <3>1
      <3>4. Len(accounts) + 1 # Len(accounts)
        BY <3>2
      <3> QED BY <3>3, <3>4
    <2>2. PICK a \in OfPhone(req[r].phone) :
            /\ Goto(r, [op |-> "persist", at |-> req[r].at, acct |-> a])
            /\ UNCHANGED <<accounts, events>>
      BY <1>5, <2>1 DEF CommitPhoneLogin
    <2> DEFINE s == [op |-> "persist", at |-> req[r].at, acct |-> a]
    <2>3. /\ req[r].op = "login" /\ req[r].at \in Nat
          /\ req[r].at <= now /\ now <= req[r].at + 1
          /\ a \in DOMAIN accounts /\ a \in Nat /\ Early(a, req[r].at)
      BY <1>0, <1>5, <2>2, RequestFields
      DEF CommitPhoneLogin, InTime, OfPhone, Shapes, SessionsInv, SeenActive
    <2>4. GoodRequest(s)
      BY <2>3 DEF GoodRequest, RequestRecord, OfAccount, OfToken
    <2> QED BY <1>5, <2>2, <2>4, RequestStep DEF CommitPhoneLogin
  <1> QED BY <1>1, <1>2, <1>3, <1>4, <1>5

(* Steps of the sweep before its transactions commit.                      *)
LEMMA SweepStep ==
  ASSUME SessionsInv, UNCHANGED <<now, accounts, tokens, codes, events, req>>,
         sweep' \in SweepRecord,
         sweep'.op # "idle" => sweep'.at <= now /\ now <= sweep'.at + 1,
         sweep'.op = "anonymise" =>
           /\ sweep'.acct \in DOMAIN accounts /\ ~Locked(sweep'.acct)
           /\ Status(sweep'.acct) = "FROZEN"
           /\ accounts[sweep'.acct].until <= sweep'.at
           /\ ActiveTokens(sweep'.acct) \subseteq sweep'.snap
  PROVE  SessionsInv'
  <1>1. Shapes'
    BY DEF SessionsInv, Shapes
  <1>2. TokensRefer' /\ OneSuccessor' /\ AnonymisedHasNoSession'
    BY DEF SessionsInv, TokensRefer, OneSuccessor, AnonymisedHasNoSession,
           Status, ActiveTokens, Active
  <1>3. RequestsRefer' /\ InTime'
    BY DEF SessionsInv, RequestsRefer, InTime
  <1>4. SeenActive'
    BY DEF SessionsInv, SeenActive, Early, Status, OfPhone
  <1>5. FreezesHold'
    BY DEF SessionsInv, FreezesHold, Status, Locked
  <1>6. SweepHolds'
    BY DEF SessionsInv, SweepHolds, Status, ActiveTokens, Active
  <1> QED BY <1>1, <1>2, <1>3, <1>4, <1>5, <1>6 DEF SessionsInv

LEMMA SweepingKeeps ==
  ASSUME SessionsInv,
         \/ SweepStart \/ SweepEnd \/ SweepRowFails \/ SweepCut
         \/ \E a \in DOMAIN accounts : SweepClaim(a) \/ SweepSkip(a)
  PROVE  SessionsInv'
  <1>0. Shapes /\ now \in Nat /\ accounts \in Seq(AccountRecord)
    BY DEF SessionsInv, Shapes
  <1>1. CASE SweepStart
    <2>1. Candidates \in SUBSET Nat
      BY <1>0 DEF Candidates
    <2>2. /\ sweep' \in SweepRecord /\ sweep'.op = "scan"
          /\ sweep'.at <= now /\ now <= sweep'.at + 1
      BY <1>0, <1>1, <2>1 DEF SweepStart, SweepRecord
    <2> QED BY <1>1, <2>2, SweepStep DEF SweepStart
  <1>2. CASE SweepEnd \/ SweepCut
    <2>1. sweep' \in SweepRecord /\ sweep'.op = "idle"
      BY <1>2 DEF SweepEnd, SweepCut, Idle, SweepRecord
    <2> QED BY <1>2, <2>1, SweepStep DEF SweepEnd, SweepCut
  <1>3. CASE SweepRowFails
    <2>1. /\ sweep' \in SweepRecord /\ sweep'.op = "scan"
          /\ sweep'.at <= now /\ now <= sweep'.at + 1
      BY <1>0, <1>3, SweepFields
      DEF SweepRowFails, SweepRecord, SessionsInv, InTime
    <2> QED BY <1>3, <2>1, SweepStep DEF SweepRowFails
  <1>4. ASSUME NEW a \in DOMAIN accounts, SweepClaim(a) PROVE SessionsInv'
    <2>1. ActiveTokens(a) \in SUBSET Nat /\ a \in Nat
      BY <1>0 DEF ActiveTokens, Shapes
    <2>2. sweep.todo \ {a} \in SUBSET Nat /\ sweep.at \in Nat
      BY <1>0, <1>4, SweepFields DEF SweepClaim
    <2>3. /\ sweep' \in SweepRecord /\ sweep'.at = sweep.at
          /\ sweep'.acct = a /\ sweep'.snap = ActiveTokens(a)
      BY <1>4, <2>1, <2>2 DEF SweepClaim, SweepRecord
    <2>4. sweep.at <= now /\ now <= sweep.at + 1
      BY <1>4 DEF SweepClaim, SessionsInv, InTime
    <2>5. Status(a) = "FROZEN" /\ accounts[a].until <= sweep.at
      BY <1>0, <1>4, <2>2, AccountFields
      DEF SweepClaim, MayAnonymise, IsWithinGrace
    <2> QED BY <1>4, <2>3, <2>4, <2>5, SweepStep DEF SweepClaim
  <1>5. ASSUME NEW a \in DOMAIN accounts, SweepSkip(a) PROVE SessionsInv'
    <2>1. sweep \in [op : {"scan"}, at : Nat, todo : SUBSET Nat]
      BY <1>0, <1>5 DEF SweepSkip, Shapes, SweepRecord, Idle
    <2>2. /\ sweep' \in [op : {"scan"}, at : Nat, todo : SUBSET Nat]
          /\ sweep'.op = "scan" /\ sweep'.at = sweep.at
      BY <1>5, <2>1 DEF SweepSkip
    <2>3. sweep' \in SweepRecord
      BY <2>2 DEF SweepRecord
    <2>4. sweep.at <= now /\ now <= sweep.at + 1
      BY <1>5 DEF SweepSkip, SessionsInv, InTime
    <2> QED BY <1>5, <2>2, <2>3, <2>4, SweepStep DEF SweepSkip
  <1> QED BY <1>1, <1>2, <1>3, <1>4, <1>5

-----------------------------------------------------------------------------
(* Steps that write rows.                                                  *)
RequestsEnd == \A q \in Requests : req'[q] = req[q] \/ req'[q] = Idle

TokensKept ==
  \A k \in DOMAIN tokens :
    /\ k \in DOMAIN tokens'
    /\ tokens'[k].acct = tokens[k].acct /\ tokens'[k].from = tokens[k].from
    /\ tokens[k].revoked => tokens'[k].revoked

NoNewToken == DOMAIN tokens' = DOMAIN tokens

NewToken(n, a, parent) ==
  /\ n \notin DOMAIN tokens /\ DOMAIN tokens' = DOMAIN tokens \cup {n}
  /\ tokens'[n].acct = a /\ tokens'[n].from = parent
  /\ a \in DOMAIN accounts
  /\ parent # 0 => /\ parent \in DOMAIN tokens /\ ~tokens[parent].revoked
                   /\ tokens'[parent].revoked

(* The account of a new token is not being anonymised.                     *)
Safe(a) ==
  /\ Status(a) # "ANONYMIZED"
  /\ ~(sweep.op = "anonymise" /\ sweep.acct = a)

LEMMA EarlyIsSafe ==
  ASSUME SessionsInv, NEW a \in DOMAIN accounts, NEW t \in Nat,
         Early(a, t), now <= t + 1
  PROVE  Safe(a)
  <1>1. ASSUME sweep.op = "anonymise", sweep.acct = a PROVE FALSE
    <2>1. /\ Status(a) = "FROZEN" /\ accounts[a].until <= sweep.at
          /\ sweep.at <= now /\ t + 2 <= accounts[a].until
      BY <1>1 DEF SessionsInv, SweepHolds, InTime, Early
    <2>2. /\ sweep.at \in Nat /\ accounts[a].until \in Nat /\ now \in Nat
      BY <1>1, SweepFields, AccountFields DEF SessionsInv, Shapes
    <2> QED BY <2>1, <2>2
  <1> QED BY <1>1 DEF Safe, Early

LEMMA TokensStep ==
  ASSUME SessionsInv, TokensKept,
         NoNewToken \/ \E n, a, parent : NewToken(n, a, parent),
         DOMAIN accounts \subseteq DOMAIN accounts'
  PROVE  TokensRefer' /\ OneSuccessor'
  <1>0. TokensRefer /\ OneSuccessor
    BY DEF SessionsInv
  <1>1. CASE NoNewToken
    BY <1>0, <1>1 DEF NoNewToken, TokensKept, TokensRefer, OneSuccessor
  <1>2. ASSUME NEW n, NEW a, NEW parent, NewToken(n, a, parent)
        PROVE  TokensRefer' /\ OneSuccessor'
    <2>1. TokensRefer'
      BY <1>0, <1>2 DEF NewToken, TokensKept, TokensRefer
    <2>2. ASSUME NEW k \in DOMAIN tokens, tokens[k].from # 0
          PROVE  tokens[k].from # parent
      BY <1>0, <1>2, <2>2 DEF NewToken, TokensRefer
    <2>3. OneSuccessor'
      BY <1>0, <1>2, <2>2 DEF NewToken, TokensKept, OneSuccessor
    <2> QED BY <2>1, <2>3
  <1> QED BY <1>1, <1>2

LEMMA EndedRequests ==
  ASSUME SessionsInv, RequestsEnd, TokensKept, UNCHANGED <<now, sweep>>,
         DOMAIN accounts \subseteq DOMAIN accounts'
  PROVE  RequestsRefer' /\ InTime'
  <1>1. Idle.op = "idle" /\ "idle" \notin OfAccount /\ "idle" \notin OfToken
    BY DEF Idle, OfAccount, OfToken
  <1>2. RequestsRefer'
    BY <1>1 DEF SessionsInv, RequestsRefer, RequestsEnd, TokensKept
  <1>3. InTime'
    BY <1>1 DEF SessionsInv, InTime, RequestsEnd
  <1> QED BY <1>2, <1>3

(* Tokens come and go, or codes, and no account changes.                   *)
LEMMA TokensMove ==
  ASSUME SessionsInv, Shapes', UNCHANGED <<now, accounts, sweep>>,
         RequestsEnd, TokensKept,
         \/ NoNewToken
         \/ \E n, a, parent : NewToken(n, a, parent) /\ Safe(a)
  PROVE  SessionsInv'
  <1>0. /\ SeenActive /\ FreezesHold /\ SweepHolds /\ RequestsRefer
        /\ AnonymisedHasNoSession
    BY DEF SessionsInv
  <1>1. TokensRefer' /\ OneSuccessor'
    BY TokensStep
  <1>2. RequestsRefer' /\ InTime'
    BY EndedRequests
  <1>3. Idle.op = "idle"
    BY DEF Idle
  <1>4. \A r \in Requests : req[r].op = "rotate" =>
          tokens'[req[r].tok].acct = tokens[req[r].tok].acct
    BY <1>0 DEF RequestsRefer, OfToken, TokensKept
  <1>5. SeenActive'
    BY <1>0, <1>3, <1>4 DEF SeenActive, RequestsEnd, Early, Status, OfPhone
  <1>6. FreezesHold'
    BY <1>0, <1>3 DEF FreezesHold, RequestsEnd, Status
  <1>7. ASSUME NEW b \in DOMAIN accounts,
               b \in {sweep.acct} \/ Status(b) = "ANONYMIZED",
               b = sweep.acct => sweep.op = "anonymise"
        PROVE  ActiveTokens(b)' \subseteq ActiveTokens(b)
    <2>1. ASSUME NEW k \in DOMAIN tokens', tokens'[k].acct = b,
                 ~tokens'[k].revoked
          PROVE  /\ k \in DOMAIN tokens /\ tokens[k].acct = b
                 /\ ~tokens[k].revoked
      BY <1>7, <2>1 DEF NoNewToken, NewToken, Safe, TokensKept
    <2> QED BY <2>1 DEF ActiveTokens, Active
  <1>8. SweepHolds'
    <2>1. ASSUME sweep.op = "anonymise"
          PROVE  /\ sweep.acct \in DOMAIN accounts
                 /\ Status(sweep.acct) = "FROZEN"
                 /\ accounts[sweep.acct].until <= sweep.at
                 /\ ActiveTokens(sweep.acct)' \subseteq sweep.snap
      <3>1. ActiveTokens(sweep.acct) \subseteq sweep.snap
        BY <1>0, <2>1 DEF SweepHolds
      <3>2. ActiveTokens(sweep.acct)' \subseteq ActiveTokens(sweep.acct)
        BY <1>0, <1>7, <2>1 DEF SweepHolds, ActiveTokens
      <3> QED BY <1>0, <2>1, <3>1, <3>2 DEF SweepHolds
    <2> QED BY <2>1 DEF SweepHolds, Status, ActiveTokens
  <1>9. AnonymisedHasNoSession'
    <2>1. ASSUME NEW b \in DOMAIN accounts, Status(b) = "ANONYMIZED"
          PROVE  ActiveTokens(b)' = {}
      <3>1. ActiveTokens(b) = {}
        BY <1>0, <2>1 DEF AnonymisedHasNoSession
      <3>2. b = sweep.acct => sweep.op # "anonymise"
        BY <1>0, <2>1 DEF SweepHolds
      <3>3. ASSUME NEW k \in DOMAIN tokens', tokens'[k].acct = b,
                   ~tokens'[k].revoked
            PROVE  FALSE
        <4>1. k \in DOMAIN tokens
          BY <2>1, <3>3 DEF NoNewToken, NewToken, Safe
        <4>2. tokens[k].acct = b /\ ~tokens[k].revoked
          BY <3>3, <4>1 DEF TokensKept
        <4> QED BY <3>1, <4>1, <4>2 DEF ActiveTokens, Active
      <3> QED BY <3>3 DEF ActiveTokens, Active
    <2> QED BY <2>1 DEF AnonymisedHasNoSession, Status
  <1> QED BY <1>1, <1>2, <1>5, <1>6, <1>8, <1>9 DEF SessionsInv

(* What the insertion of a token does.                                     *)
LEMMA Inserting ==
  ASSUME SessionsInv, NEW a \in DOMAIN accounts, NEW parent \in Nat
  PROVE  /\ Persisted(a, parent) \in Seq(TokenRecord)
         /\ Len(tokens) + 1 \notin DOMAIN tokens
         /\ DOMAIN Persisted(a, parent) = DOMAIN tokens \cup {Len(tokens) + 1}
         /\ Persisted(a, parent)[Len(tokens) + 1].acct = a
         /\ Persisted(a, parent)[Len(tokens) + 1].from = parent
         /\ \A k \in DOMAIN tokens : Persisted(a, parent)[k] = tokens[k]
  <1> DEFINE n == Len(tokens) + 1
  <1> DEFINE t == [acct |-> a, from |-> parent, revoked |-> FALSE]
  <1>1. a \in Nat /\ tokens \in Seq(TokenRecord)
    BY DEF SessionsInv, Shapes
  <1>2. t \in TokenRecord
    BY <1>1 DEF TokenRecord
  <1>3. n \in Nat /\ DOMAIN tokens = 1..Len(tokens) /\ Len(tokens) \in Nat
    BY <1>1
  <1>4. n \notin DOMAIN tokens /\ 1..n = DOMAIN tokens \cup {n}
    BY <1>3
  <1>5. t.acct = a /\ t.from = parent
    OBVIOUS
  <1> HIDE DEF t
  <1>6. /\ Append(tokens, t) \in Seq(TokenRecord)
        /\ DOMAIN Append(tokens, t) = 1..n
        /\ Append(tokens, t)[n] = t
        /\ \A k \in DOMAIN tokens : Append(tokens, t)[k] = tokens[k]
    BY <1>1, <1>2, AppendedRow
  <1> QED BY <1>3, <1>4, <1>5, <1>6 DEF Persisted, t

LEMMA IdleShape ==
  ASSUME Shapes, NEW r \in Requests, Goto(r, Idle)
  PROVE  /\ req' \in [Requests -> RequestRecord] /\ RequestsEnd
         /\ req'[r] = Idle /\ \A q \in Requests : q # r => req'[q] = req[q]
  BY DEF Shapes, Goto, RequestRecord, RequestsEnd

LEMMA LoginPersistKeeps ==
  ASSUME SessionsInv, NEW r \in Requests, LoginPersist(r)
  PROVE  SessionsInv'
  <1> DEFINE a == req[r].acct
             n == Len(tokens) + 1
  <1>0. Shapes /\ RequestsRefer /\ SeenActive /\ InTime
    BY DEF SessionsInv
  <1>1. /\ req[r].op = "persist" /\ tokens' = Persisted(a, 0) /\ Goto(r, Idle)
        /\ UNCHANGED <<now, accounts, codes, events, sweep>>
    BY DEF LoginPersist
  <1>2. a \in DOMAIN accounts /\ Early(a, req[r].at) /\ req[r].at \in Nat
        /\ now <= req[r].at + 1
    BY <1>0, <1>1, RequestFields
    DEF RequestsRefer, SeenActive, InTime, OfAccount
  <1>3. Safe(a)
    BY <1>2, EarlyIsSafe
  <1>a. n = Len(tokens) + 1 /\ tokens' = Persisted(a, 0)
    BY <1>1
  <1> HIDE DEF a, n
  <1>b. /\ tokens' \in Seq(TokenRecord) /\ n \notin DOMAIN tokens
        /\ DOMAIN tokens' = DOMAIN tokens \cup {n}
        /\ tokens'[n].acct = a /\ tokens'[n].from = 0
        /\ \A k \in DOMAIN tokens : tokens'[k] = tokens[k]
    <2>1. ASSUME NEW z \in Nat, z = 0
          PROVE  /\ Persisted(a, z) \in Seq(TokenRecord)
                 /\ Len(tokens) + 1 \notin DOMAIN tokens
                 /\ DOMAIN Persisted(a, z)
                      = DOMAIN tokens \cup {Len(tokens) + 1}
                 /\ Persisted(a, z)[Len(tokens) + 1].acct = a
                 /\ Persisted(a, z)[Len(tokens) + 1].from = z
                 /\ \A i \in DOMAIN tokens : Persisted(a, z)[i] = tokens[i]
      BY <1>2, Inserting
    <2> QED BY <1>a, <2>1
  <1>4. NewToken(n, a, 0) /\ TokensKept
    BY <1>2, <1>b DEF NewToken, TokensKept
  <1>5. Shapes' /\ RequestsEnd
    BY <1>0, <1>1, <1>b, IdleShape DEF Shapes
  <1> QED BY <1>1, <1>3, <1>4, <1>5, TokensMove

LEMMA RotateKeeps ==
  ASSUME SessionsInv, NEW r \in Requests, Rotate(r)
  PROVE  SessionsInv'
  <1> DEFINE k == req[r].tok
             a == tokens[k].acct
             n == Len(tokens) + 1
  <1>0. Shapes /\ RequestsRefer /\ SeenActive /\ InTime /\ TokensRefer
    BY DEF SessionsInv
  <1>1. /\ req[r].op = "rotate" /\ ~tokens[k].revoked /\ Goto(r, Idle)
        /\ tokens' = [Persisted(a, k) EXCEPT ![k].revoked = TRUE]
        /\ UNCHANGED <<now, accounts, codes, events, sweep>>
    BY DEF Rotate, MayRotate, Active
  <1>2. /\ k \in DOMAIN tokens /\ k \in Nat /\ k # 0
        /\ a \in DOMAIN accounts /\ Early(a, req[r].at) /\ req[r].at \in Nat
        /\ now <= req[r].at + 1
    <2>1. k \in DOMAIN tokens /\ Early(a, req[r].at) /\ req[r].at \in Nat
      BY <1>0, <1>1, RequestFields DEF RequestsRefer, SeenActive, OfToken
    <2>2. k \in Nat /\ k # 0
      BY <1>0, <2>1 DEF Shapes
    <2> QED BY <1>0, <1>1, <2>1, <2>2 DEF TokensRefer, InTime
  <1>3. Safe(a)
    BY <1>2, EarlyIsSafe
  <1> DEFINE new == Persisted(a, k)
  <1>4. tokens' = [new EXCEPT ![k].revoked = TRUE]
    BY <1>1
  <1>b. n = Len(tokens) + 1 /\ new = Persisted(a, k)
    OBVIOUS
  <1> HIDE DEF a, k, n, new
  <1>5. /\ new \in Seq(TokenRecord) /\ n \notin DOMAIN tokens
        /\ DOMAIN new = DOMAIN tokens \cup {n}
        /\ new[n].acct = a /\ new[n].from = k
        /\ \A i \in DOMAIN tokens : new[i] = tokens[i]
    <2>1. /\ Persisted(a, k) \in Seq(TokenRecord)
          /\ Len(tokens) + 1 \notin DOMAIN tokens
          /\ DOMAIN Persisted(a, k) = DOMAIN tokens \cup {Len(tokens) + 1}
          /\ Persisted(a, k)[Len(tokens) + 1].acct = a
          /\ Persisted(a, k)[Len(tokens) + 1].from = k
          /\ \A i \in DOMAIN tokens : Persisted(a, k)[i] = tokens[i]
      BY <1>2, Inserting
    <2> QED BY <1>b, <2>1
  <1>6. new[k] \in TokenRecord /\ k \in DOMAIN new
    <2>1. k \in DOMAIN new
      BY <1>2, <1>5
    <2>2. new \in Seq(TokenRecord)
      BY <1>5
    <2> QED BY <2>1, <2>2, RowOf
  <1> DEFINE t == [new[k] EXCEPT !.revoked = TRUE]
  <1>7. /\ t \in TokenRecord /\ t.acct = new[k].acct /\ t.from = new[k].from
        /\ t.revoked
    BY <1>6 DEF TokenRecord
  <1>8. tokens' = [new EXCEPT ![k] = t]
    BY <1>4
  <1> HIDE DEF t
  <1>9. /\ tokens' \in Seq(TokenRecord) /\ DOMAIN tokens' = DOMAIN new
        /\ tokens'[k] = t /\ \A i \in DOMAIN new : i # k => tokens'[i] = new[i]
    BY <1>5, <1>6, <1>7, <1>8, ChangedRow
  <1>10. TokensKept
    BY <1>5, <1>6, <1>7, <1>9 DEF TokensKept
  <1>11. NewToken(n, a, k)
    <2>1. ~tokens[k].revoked
      BY <1>1 DEF k
    <2> QED BY <1>2, <1>5, <1>7, <1>9, <2>1 DEF NewToken
  <1>12. Shapes' /\ RequestsEnd
    BY <1>0, <1>1, <1>9, IdleShape DEF Shapes
  <1> QED BY <1>1, <1>3, <1>10, <1>11, <1>12, TokensMove

LEMMA IssueKeeps ==
  ASSUME SessionsInv, NEW r \in Requests, Issue(r)
  PROVE  SessionsInv'
  <1> DEFINE c == [acct |-> req[r].acct, used |-> FALSE,
                   purpose |-> req[r].purpose,
                   issued |-> IF req[r].purpose = "delete"
                              THEN now ELSE req[r].at]
  <1>0. Shapes
    BY DEF SessionsInv
  <1>1. /\ codes' = Append(codes, c) /\ Goto(r, Idle)
        /\ UNCHANGED <<now, accounts, tokens, events, sweep>>
        /\ req[r].op = "send"
    BY DEF Issue
  <1>2. c \in CodeRecord
    BY <1>0, <1>1, RequestFields DEF CodeRecord, OfAccount, Shapes
  <1> HIDE DEF c
  <1>3. codes' \in Seq(CodeRecord)
    BY <1>0, <1>1, <1>2, AppendedRow DEF Shapes
  <1>4. Shapes' /\ RequestsEnd
    BY <1>0, <1>1, <1>3, IdleShape DEF Shapes
  <1>5. TokensKept /\ NoNewToken
    BY <1>1 DEF TokensKept, NoNewToken
  <1> QED BY <1>1, <1>4, <1>5, TokensMove

LEMMA RevokingKeeps ==
  ASSUME SessionsInv, NEW snap, tokens' = RevokedAll(snap), RequestsEnd,
         req' \in [Requests -> RequestRecord],
         UNCHANGED <<now, accounts, codes, events, sweep>>
  PROVE  SessionsInv'
  <1>0. Shapes
    BY DEF SessionsInv
  <1>1. Shapes' /\ TokensKept /\ NoNewToken
    BY <1>0, Revoking DEF Shapes, TokensKept, NoNewToken
  <1> QED BY <1>1, TokensMove

LEMMA TickKeeps ==
  ASSUME SessionsInv, Tick
  PROVE  SessionsInv'
  <1>0. Shapes /\ now \in Nat
    BY DEF SessionsInv, Shapes
  <1>1. UNCHANGED <<accounts, tokens, codes, events, req, sweep>>
        /\ now' = now + 1
    BY DEF Tick
  <1>2. Shapes'
    BY <1>0, <1>1 DEF Shapes
  <1>3. InTime'
    BY <1>0, <1>1 DEF Tick, InTime
  <1>4. TokensRefer' /\ RequestsRefer' /\ OneSuccessor'
    BY <1>1 DEF SessionsInv, TokensRefer, RequestsRefer, OneSuccessor
  <1>5. SeenActive' /\ FreezesHold'
    BY <1>1 DEF SessionsInv, SeenActive, FreezesHold, Early, Status, OfPhone
  <1>6. SweepHolds' /\ AnonymisedHasNoSession'
    BY <1>1
    DEF SessionsInv, SweepHolds, AnonymisedHasNoSession, Status, ActiveTokens,
        Active
  <1> QED BY <1>2, <1>3, <1>4, <1>5, <1>6 DEF SessionsInv

-----------------------------------------------------------------------------
(* Steps that write an account.                                            *)
LEMMA Rewritten ==
  ASSUME Shapes, NEW a \in DOMAIN accounts, NEW v \in AccountRecord,
         accounts' = [accounts EXCEPT ![a] = v]
  PROVE  /\ accounts' \in Seq(AccountRecord)
         /\ Len(accounts') = Len(accounts)
         /\ DOMAIN accounts' = DOMAIN accounts
         /\ accounts'[a] = v
         /\ \A b \in DOMAIN accounts : b # a => accounts'[b] = accounts[b]
  BY ChangedRow DEF Shapes

LEMMA Tallying ==
  ASSUME Shapes, NEW a \in DOMAIN accounts,
         NEW type \in {"requested", "cancelled", "anonymised"},
         events' = Tally(a, type)
  PROVE  /\ events' \in Seq(EventRecord) /\ Len(events') = Len(events)
         /\ a \in DOMAIN events
         /\ events[a] \in EventRecord
         /\ events'[a] = [events[a] EXCEPT ![type] = @ + 1]
         /\ \A b \in DOMAIN accounts : b # a => events'[b] = events[b]
  <1>1. events \in Seq(EventRecord) /\ a \in DOMAIN events
        /\ DOMAIN events = DOMAIN accounts
    BY DEF Shapes
  <1>2. events[a] \in EventRecord
    BY <1>1
  <1> DEFINE v == [events[a] EXCEPT ![type] = @ + 1]
  <1>3. v \in EventRecord
    BY <1>2 DEF EventRecord
  <1>4. events' = [events EXCEPT ![a] = v]
    BY DEF Tally
  <1> HIDE DEF v
  <1>5. /\ events' \in Seq(EventRecord) /\ Len(events') = Len(events)
        /\ events'[a] = v
        /\ \A b \in DOMAIN events : b # a => events'[b] = events[b]
    BY <1>1, <1>3, <1>4, ChangedRow
  <1> QED BY <1>1, <1>2, <1>5 DEF v

LEMMA UsingCode ==
  ASSUME Shapes, NEW c \in DOMAIN codes, codes' = Used(c)
  PROVE  /\ codes' \in Seq(CodeRecord) /\ Len(codes') = Len(codes)
         /\ DOMAIN codes' = DOMAIN codes
         /\ codes'[c].used
         /\ \A d \in DOMAIN codes :
              /\ codes'[d].acct = codes[d].acct
              /\ codes'[d].purpose = codes[d].purpose
              /\ d # c => codes'[d].used = codes[d].used
  <1>1. codes \in Seq(CodeRecord) /\ codes[c] \in CodeRecord
    BY DEF Shapes
  <1> DEFINE v == [codes[c] EXCEPT !.used = TRUE]
  <1>2. /\ v \in CodeRecord /\ v.acct = codes[c].acct
        /\ v.purpose = codes[c].purpose /\ v.used
    BY <1>1 DEF CodeRecord
  <1>3. codes' = [codes EXCEPT ![c] = v]
    BY DEF Used
  <1> HIDE DEF v
  <1>4. /\ codes' \in Seq(CodeRecord) /\ Len(codes') = Len(codes)
        /\ DOMAIN codes' = DOMAIN codes /\ codes'[c] = v
        /\ \A d \in DOMAIN codes : d # c => codes'[d] = codes[d]
    BY <1>1, <1>2, <1>3, ChangedRow
  <1> QED BY <1>2, <1>4

LEMMA NewAccountKeeps ==
  ASSUME SessionsInv, NEW r \in Requests, CommitPhoneLogin(r),
         accounts' # accounts
  PROVE  SessionsInv'
  <1> DEFINE n == Len(accounts) + 1
             v == [phone |-> req[r].phone, status |-> "ACTIVE", until |-> 0]
             s == [op |-> "persist", at |-> req[r].at, acct |-> n]
  <1>0. /\ Shapes /\ TokensRefer /\ RequestsRefer /\ InTime /\ SeenActive
        /\ FreezesHold /\ SweepHolds /\ OneSuccessor /\ AnonymisedHasNoSession
    BY DEF SessionsInv
  <1>1. /\ req[r].op = "login" /\ Goto(r, s)
        /\ accounts' = Append(accounts, v)
        /\ events' = Append(events, NoEvents)
        /\ UNCHANGED <<now, tokens, codes, sweep>>
    BY DEF CommitPhoneLogin
  <1>2. /\ req[r].at \in Nat /\ req[r].phone \in Phones
        /\ req[r].at <= now /\ now <= req[r].at + 1
    BY <1>0, <1>1, RequestFields DEF InTime
  <1>3. v \in AccountRecord /\ v.status = "ACTIVE"
    BY <1>2 DEF AccountRecord
  <1> HIDE DEF v
  <1>4. /\ accounts' \in Seq(AccountRecord) /\ Len(accounts') = n
        /\ DOMAIN accounts = 1..Len(accounts) /\ DOMAIN accounts' = 1..n
        /\ accounts'[n] = v
        /\ \A b \in DOMAIN accounts : b # n /\ accounts'[b] = accounts[b]
    BY <1>0, <1>1, <1>3, AppendedRow DEF Shapes
  <1>5. n \in Nat /\ DOMAIN accounts' = DOMAIN accounts \cup {n}
    <2>1. Len(accounts) \in Nat
      BY <1>0 DEF Shapes
    <2> QED BY <1>4, <2>1
  <1>6. events' \in Seq(EventRecord) /\ Len(events') = n
    <2>1. NoEvents \in EventRecord
      BY DEF NoEvents, EventRecord
    <2> QED BY <1>0, <1>1, <2>1, AppendedRow DEF Shapes
  <1>7. /\ s \in RequestRecord
        /\ s.op = "persist" /\ s.acct = n /\ s.at = req[r].at
    BY <1>2, <1>5 DEF RequestRecord
  <1> HIDE DEF n, s
  <1>8. /\ req' \in [Requests -> RequestRecord] /\ req'[r] = s
        /\ \A q \in Requests : q # r => req'[q] = req[q]
    BY <1>0, <1>1, <1>7 DEF Shapes, Goto
  <1>9. Shapes'
    BY <1>0, <1>1, <1>4, <1>6, <1>8 DEF Shapes
  <1>10. TokensRefer' /\ OneSuccessor'
    BY <1>0, <1>1, <1>5 DEF TokensRefer, OneSuccessor
  <1>11. RequestsRefer' /\ InTime'
    BY <1>0, <1>1, <1>2, <1>5, <1>7, <1>8 DEF RequestsRefer, InTime, OfToken
  <1>12. SeenActive'
    <2> DEFINE E(b, t) == /\ accounts'[b].status # "ANONYMIZED"
                          /\ accounts'[b].status = "FROZEN" =>
                               t + 2 <= accounts'[b].until
    <2>1. \A t : E(n, t)
      BY <1>3, <1>4
    <2>2. \A b \in DOMAIN accounts : \A t : Early(b, t) => E(b, t)
      BY <1>4 DEF Early, Status
    <2>3. \A q \in Requests : q # r => req'[q] = req[q]
      BY <1>8
    <2>4. req'[r].op = "persist" /\ req'[r].acct = n
      BY <1>7, <1>8
    <2> HIDE DEF E
    <2>5. ASSUME NEW q \in Requests, req'[q].op = "login",
                 NEW b \in DOMAIN accounts',
                 accounts'[b].phone = req'[q].phone
          PROVE  E(b, req'[q].at)
      <3>1. q # r
        BY <2>4, <2>5
      <3>2. b \in DOMAIN accounts => E(b, req[q].at)
        BY <1>0, <1>4, <2>2, <2>3, <2>5, <3>1 DEF SeenActive, OfPhone
      <3> QED BY <1>5, <2>1, <2>3, <2>5, <3>1, <3>2
    <2>6. ASSUME NEW q \in Requests, req'[q].op = "persist"
          PROVE  E(req'[q].acct, req'[q].at)
      BY <1>0, <2>1, <2>2, <2>3, <2>4, <2>6
      DEF SeenActive, RequestsRefer, OfAccount
    <2>7. ASSUME NEW q \in Requests, req'[q].op = "rotate"
          PROVE  E(tokens'[req'[q].tok].acct, req'[q].at)
      BY <1>0, <1>1, <2>2, <2>3, <2>4, <2>7
      DEF SeenActive, RequestsRefer, TokensRefer, OfToken
    <2> QED BY <2>5, <2>6, <2>7 DEF SeenActive, OfPhone, Early, Status, E
  <1>13. FreezesHold'
    <2>1. req'[r].op = "persist"
      BY <1>7, <1>8
    <2>2. \A q \in Requests : req'[q].op = "freeze" =>
            req'[q] = req[q] /\ req[q].acct \in DOMAIN accounts
      BY <1>0, <1>8, <2>1 DEF RequestsRefer, OfAccount
    <2>3. ASSUME NEW q \in Requests, req'[q].op = "freeze"
          PROVE  accounts'[req'[q].acct].status = "ACTIVE"
      BY <1>0, <1>4, <2>2, <2>3 DEF FreezesHold, Status
    <2>4. ASSUME NEW q \in Requests, req'[q].op = "freeze"
          PROVE  sweep'.op = "anonymise" => sweep'.acct # req'[q].acct
      BY <1>0, <1>1, <2>2, <2>4 DEF FreezesHold
    <2>5. ASSUME NEW q \in Requests, NEW u \in Requests,
                 req'[q].op = "freeze", req'[u].op = "freeze",
                 req'[u].acct = req'[q].acct
          PROVE  u = q
      BY <1>0, <2>2, <2>5 DEF FreezesHold
    <2> QED BY <2>3, <2>4, <2>5 DEF FreezesHold, Status
  <1>14. SweepHolds'
    BY <1>0, <1>1, <1>4, <1>5 DEF SweepHolds, Status, ActiveTokens, Active
  <1>15. AnonymisedHasNoSession'
    BY <1>0, <1>1, <1>3, <1>4, <1>5
    DEF AnonymisedHasNoSession, Status, ActiveTokens, Active
  <1> QED BY <1>9, <1>10, <1>11, <1>12, <1>13, <1>14, <1>15 DEF SessionsInv

LEMMA DeleteKeeps ==
  ASSUME SessionsInv, NEW r \in Requests, DeleteCommit(r),
         req[r].code \in DOMAIN codes
  PROVE  SessionsInv'
  <1> DEFINE a == req[r].acct
             v == [accounts[a] EXCEPT !.status = "FROZEN",
                                      !.until = req[r].at + FreezeTicks]
  <1>0. /\ Shapes /\ TokensRefer /\ RequestsRefer /\ InTime /\ SeenActive
        /\ FreezesHold /\ SweepHolds /\ OneSuccessor /\ AnonymisedHasNoSession
        /\ now \in Nat
    BY DEF SessionsInv, Shapes
  <1>1. /\ req[r].op = "freeze" /\ Goto(r, Idle)
        /\ accounts' = [accounts EXCEPT ![a] = v]
        /\ tokens' = RevokedAll(req[r].snap) /\ codes' = Used(req[r].code)
        /\ events' = Tally(a, "requested") /\ UNCHANGED <<now, sweep>>
    BY DEF DeleteCommit
  <1>2. /\ a \in DOMAIN accounts /\ req[r].at \in Nat
        /\ now <= req[r].at + 1 /\ Status(a) = "ACTIVE"
        /\ sweep.op = "anonymise" => sweep.acct # a
    BY <1>0, <1>1, RequestFields
    DEF RequestsRefer, InTime, FreezesHold, OfAccount
  <1>3. accounts[a] \in AccountRecord /\ req[r].at + FreezeTicks \in Nat
    BY <1>0, <1>2, AccountFields, ClockAssumption
  <1>4. /\ v \in AccountRecord /\ v.status = "FROZEN"
        /\ v.phone = accounts[a].phone /\ v.until = req[r].at + FreezeTicks
    BY <1>3 DEF AccountRecord
  <1>5. \A q \in Requests : req[q].op # "idle" => req[q].at + 2 <= v.until
    <2>1. \A q \in Requests : req[q].op # "idle" =>
            req[q].at \in Nat /\ req[q].at <= now
      BY <1>0, RequestFields DEF InTime
    <2> QED BY <1>0, <1>2, <1>4, <2>1, ClockAssumption
  <1> HIDE DEF v
  <1>6. /\ accounts' \in Seq(AccountRecord)
        /\ Len(accounts') = Len(accounts) /\ DOMAIN accounts' = DOMAIN accounts
        /\ accounts'[a] = v
        /\ \A b \in DOMAIN accounts : b # a => accounts'[b] = accounts[b]
    BY <1>0, <1>1, <1>2, <1>4, Rewritten
  <1>7. /\ req' \in [Requests -> RequestRecord] /\ RequestsEnd
        /\ req'[r] = Idle /\ \A q \in Requests : q # r => req'[q] = req[q]
    BY <1>0, <1>1, IdleShape
  <1>8. /\ tokens' \in Seq(TokenRecord) /\ DOMAIN tokens' = DOMAIN tokens
        /\ TokensKept /\ NoNewToken
    <2>1. tokens \in Seq(TokenRecord)
      BY <1>0 DEF Shapes
    <2>2. /\ tokens' \in Seq(TokenRecord) /\ DOMAIN tokens' = DOMAIN tokens
          /\ \A k \in DOMAIN tokens :
               /\ tokens'[k].acct = tokens[k].acct
               /\ tokens'[k].from = tokens[k].from
               /\ tokens'[k].revoked = (tokens[k].revoked \/ k \in req[r].snap)
      BY <1>1, <2>1, Revoking
    <2> QED BY <2>2 DEF TokensKept, NoNewToken
  <1>9. Shapes'
    <2>1. events' \in Seq(EventRecord) /\ Len(events') = Len(events)
      BY <1>0, <1>1, <1>2, Tallying
    <2>2. codes' \in Seq(CodeRecord)
      BY <1>0, <1>1, UsingCode
    <2> QED BY <1>0, <1>1, <1>6, <1>7, <1>8, <2>1, <2>2 DEF Shapes
  <1>10. TokensRefer' /\ OneSuccessor' /\ RequestsRefer' /\ InTime'
    BY <1>1, <1>6, <1>7, <1>8, TokensStep, EndedRequests
  <1> DEFINE E(b, t) == /\ accounts'[b].status # "ANONYMIZED"
                        /\ accounts'[b].status = "FROZEN" =>
                             t + 2 <= accounts'[b].until
  <1>11. \A q \in Requests, b \in DOMAIN accounts :
           req[q].op # "idle" /\ Early(b, req[q].at) => E(b, req[q].at)
    BY <1>4, <1>5, <1>6 DEF Early, Status
  <1> HIDE DEF E
  <1>12. SeenActive'
    <2>1. \A q \in Requests : req'[q].op # "idle" => req'[q] = req[q]
      BY <1>7 DEF Idle
    <2>2. ASSUME NEW q \in Requests, req'[q].op = "login",
                 NEW b \in DOMAIN accounts',
                 accounts'[b].phone = req'[q].phone
          PROVE  E(b, req'[q].at)
      <3>1. accounts[b].phone = req[q].phone /\ b \in DOMAIN accounts
        BY <1>4, <1>6, <2>1, <2>2
      <3> QED BY <1>0, <1>11, <2>1, <2>2, <3>1 DEF SeenActive, OfPhone
    <2>3. ASSUME NEW q \in Requests, req'[q].op = "persist"
          PROVE  E(req'[q].acct, req'[q].at)
      BY <1>0, <1>11, <2>1, <2>3 DEF SeenActive, RequestsRefer, OfAccount
    <2>4. ASSUME NEW q \in Requests, req'[q].op = "rotate"
          PROVE  E(tokens'[req'[q].tok].acct, req'[q].at)
      BY <1>0, <1>8, <1>11, <2>1, <2>4
      DEF SeenActive, RequestsRefer, TokensRefer, OfToken, TokensKept
    <2> QED BY <2>2, <2>3, <2>4 DEF SeenActive, OfPhone, Early, Status, E
  <1>13. FreezesHold'
    <2>1. \A q \in Requests :
            req'[q].op = "freeze" => q # r /\ req'[q] = req[q]
      BY <1>7 DEF Idle
    <2>2. ASSUME NEW q \in Requests, req'[q].op = "freeze"
          PROVE  accounts'[req'[q].acct].status = "ACTIVE"
      <3>1. req[q].acct # a /\ req[q].acct \in DOMAIN accounts
        BY <1>0, <1>1, <2>1, <2>2 DEF FreezesHold, RequestsRefer, OfAccount
      <3> QED BY <1>0, <1>6, <2>1, <2>2, <3>1 DEF FreezesHold, Status
    <2>3. ASSUME NEW q \in Requests, req'[q].op = "freeze"
          PROVE  sweep'.op = "anonymise" => sweep'.acct # req'[q].acct
      BY <1>0, <1>1, <2>1, <2>3 DEF FreezesHold
    <2>4. ASSUME NEW q \in Requests, NEW u \in Requests,
                 req'[q].op = "freeze", req'[u].op = "freeze",
                 req'[u].acct = req'[q].acct
          PROVE  u = q
      BY <1>0, <2>1, <2>4 DEF FreezesHold
    <2> QED BY <2>2, <2>3, <2>4 DEF FreezesHold, Status
  <1>14. \A b \in DOMAIN accounts : ActiveTokens(b)' \subseteq ActiveTokens(b)
    BY <1>8 DEF ActiveTokens, Active, TokensKept
  <1>15. SweepHolds'
    <2>1. ASSUME sweep.op = "anonymise"
          PROVE  /\ sweep.acct \in DOMAIN accounts'
                 /\ accounts'[sweep.acct].status = "FROZEN"
                 /\ accounts'[sweep.acct].until <= sweep.at
                 /\ ActiveTokens(sweep.acct)' \subseteq sweep.snap
      <3>1. /\ sweep.acct \in DOMAIN accounts
            /\ ActiveTokens(sweep.acct) \subseteq sweep.snap
        BY <1>0, <2>1 DEF SweepHolds
      <3>2. ActiveTokens(sweep.acct)' \subseteq ActiveTokens(sweep.acct)
        BY <1>1, <1>8, <3>1 DEF ActiveTokens, Active, TokensKept
      <3> QED BY <1>0, <1>2, <1>6, <2>1, <3>1, <3>2 DEF SweepHolds, Status
    <2> QED BY <1>1, <2>1 DEF SweepHolds, Status, ActiveTokens
  <1>16. AnonymisedHasNoSession'
    <2>1. ASSUME NEW b \in DOMAIN accounts, accounts'[b].status = "ANONYMIZED"
          PROVE  ActiveTokens(b)' = {}
      <3>1. Status(b) = "ANONYMIZED"
        BY <1>4, <1>6, <2>1 DEF Status
      <3> QED BY <1>0, <1>14, <3>1 DEF AnonymisedHasNoSession
    <2> QED BY <1>6, <2>1 DEF AnonymisedHasNoSession, Status
  <1> QED BY <1>9, <1>10, <1>12, <1>13, <1>15, <1>16 DEF SessionsInv

LEMMA CancelKeeps ==
  ASSUME SessionsInv, NEW r \in Requests, CancelCommit(r),
         req[r].code \in DOMAIN codes
  PROVE  SessionsInv'
  <1> DEFINE a == req[r].acct
             n == Len(tokens) + 1
             v == [accounts[a] EXCEPT !.status = "ACTIVE", !.until = 0]
  <1>0. /\ Shapes /\ TokensRefer /\ RequestsRefer /\ InTime /\ SeenActive
        /\ FreezesHold /\ SweepHolds /\ OneSuccessor /\ AnonymisedHasNoSession
    BY DEF SessionsInv, Shapes
  <1>1. /\ req[r].op = "cancel" /\ Goto(r, Idle)
        /\ accounts' = [accounts EXCEPT ![a] = v]
        /\ tokens' = Persisted(a, 0) /\ codes' = Used(req[r].code)
        /\ events' = Tally(a, "cancelled") /\ UNCHANGED <<now, sweep>>
        /\ ~Locked(a) /\ Status(a) = "FROZEN"
    BY DEF CancelCommit, MayCancel
  <1>2. /\ a \in DOMAIN accounts
        /\ sweep.op = "anonymise" => sweep.acct # a
        /\ \A q \in Requests : req[q].op = "freeze" => req[q].acct # a
    BY <1>0, <1>1 DEF RequestsRefer, OfAccount, Locked
  <1>3. accounts[a] \in AccountRecord
    BY <1>0, <1>2, AccountFields
  <1>4. /\ v \in AccountRecord /\ v.status = "ACTIVE"
        /\ v.phone = accounts[a].phone
    BY <1>3 DEF AccountRecord
  <1>t. n = Len(tokens) + 1
    OBVIOUS
  <1> HIDE DEF v, n
  <1>5. /\ accounts' \in Seq(AccountRecord)
        /\ Len(accounts') = Len(accounts) /\ DOMAIN accounts' = DOMAIN accounts
        /\ accounts'[a] = v
        /\ \A b \in DOMAIN accounts : b # a => accounts'[b] = accounts[b]
    BY <1>0, <1>1, <1>2, <1>4, Rewritten
  <1>6. /\ req' \in [Requests -> RequestRecord] /\ RequestsEnd
        /\ req'[r] = Idle /\ \A q \in Requests : q # r => req'[q] = req[q]
    BY <1>0, <1>1, IdleShape
  <1>7. /\ tokens' \in Seq(TokenRecord) /\ n \notin DOMAIN tokens
        /\ DOMAIN tokens' = DOMAIN tokens \cup {n}
        /\ tokens'[n].acct = a /\ tokens'[n].from = 0
        /\ \A k \in DOMAIN tokens : tokens'[k] = tokens[k]
    <2>1. ASSUME NEW z \in Nat, z = 0
          PROVE  /\ Persisted(a, z) \in Seq(TokenRecord)
                 /\ Len(tokens) + 1 \notin DOMAIN tokens
                 /\ DOMAIN Persisted(a, z)
                      = DOMAIN tokens \cup {Len(tokens) + 1}
                 /\ Persisted(a, z)[Len(tokens) + 1].acct = a
                 /\ Persisted(a, z)[Len(tokens) + 1].from = z
                 /\ \A i \in DOMAIN tokens : Persisted(a, z)[i] = tokens[i]
      BY <1>2, Inserting
    <2> QED BY <1>1, <1>t, <2>1
  <1>8. TokensKept /\ NewToken(n, a, 0)
    BY <1>2, <1>7 DEF TokensKept, NewToken
  <1>9. Shapes'
    <2>1. events' \in Seq(EventRecord) /\ Len(events') = Len(events)
      BY <1>0, <1>1, <1>2, Tallying
    <2>2. codes' \in Seq(CodeRecord)
      BY <1>0, <1>1, UsingCode
    <2> QED BY <1>0, <1>1, <1>5, <1>6, <1>7, <2>1, <2>2 DEF Shapes
  <1>10. TokensRefer' /\ OneSuccessor' /\ RequestsRefer' /\ InTime'
    BY <1>1, <1>5, <1>6, <1>8, TokensStep, EndedRequests
  <1> DEFINE E(b, t) == /\ accounts'[b].status # "ANONYMIZED"
                        /\ accounts'[b].status = "FROZEN" =>
                             t + 2 <= accounts'[b].until
  <1>11. \A b \in DOMAIN accounts : \A t : Early(b, t) => E(b, t)
    BY <1>4, <1>5 DEF Early, Status
  <1> HIDE DEF E
  <1>12. SeenActive'
    <2>1. \A q \in Requests : req'[q].op # "idle" => req'[q] = req[q]
      BY <1>6 DEF Idle
    <2>2. ASSUME NEW q \in Requests, req'[q].op = "login",
                 NEW b \in DOMAIN accounts',
                 accounts'[b].phone = req'[q].phone
          PROVE  E(b, req'[q].at)
      <3>1. accounts[b].phone = req[q].phone /\ b \in DOMAIN accounts
        BY <1>4, <1>5, <2>1, <2>2
      <3> QED BY <1>0, <1>11, <2>1, <2>2, <3>1 DEF SeenActive, OfPhone
    <2>3. ASSUME NEW q \in Requests, req'[q].op = "persist"
          PROVE  E(req'[q].acct, req'[q].at)
      BY <1>0, <1>11, <2>1, <2>3 DEF SeenActive, RequestsRefer, OfAccount
    <2>4. ASSUME NEW q \in Requests, req'[q].op = "rotate"
          PROVE  E(tokens'[req'[q].tok].acct, req'[q].at)
      BY <1>0, <1>8, <1>11, <2>1, <2>4
      DEF SeenActive, RequestsRefer, TokensRefer, OfToken, TokensKept
    <2> QED BY <2>2, <2>3, <2>4 DEF SeenActive, OfPhone, Early, Status, E
  <1>13. FreezesHold'
    <2>1. \A q \in Requests : req'[q].op = "freeze" => req'[q] = req[q]
      BY <1>6 DEF Idle
    <2>2. ASSUME NEW q \in Requests, req'[q].op = "freeze"
          PROVE  accounts'[req'[q].acct].status = "ACTIVE"
      <3>1. req[q].acct # a /\ req[q].acct \in DOMAIN accounts
        BY <1>0, <1>2, <2>1, <2>2 DEF RequestsRefer, OfAccount
      <3> QED BY <1>0, <1>5, <2>1, <2>2, <3>1 DEF FreezesHold, Status
    <2>3. ASSUME NEW q \in Requests, req'[q].op = "freeze"
          PROVE  sweep'.op = "anonymise" => sweep'.acct # req'[q].acct
      BY <1>0, <1>1, <2>1, <2>3 DEF FreezesHold
    <2>4. ASSUME NEW q \in Requests, NEW u \in Requests,
                 req'[q].op = "freeze", req'[u].op = "freeze",
                 req'[u].acct = req'[q].acct
          PROVE  u = q
      BY <1>0, <2>1, <2>4 DEF FreezesHold
    <2> QED BY <2>2, <2>3, <2>4 DEF FreezesHold, Status
  <1>14. ASSUME NEW b \in DOMAIN accounts, b # a, NEW k \in DOMAIN tokens',
                tokens'[k].acct = b, ~tokens'[k].revoked
         PROVE  k \in ActiveTokens(b)
    BY <1>7, <1>14 DEF ActiveTokens, Active
  <1>15. SweepHolds'
    <2>1. ASSUME sweep.op = "anonymise"
          PROVE  /\ sweep.acct \in DOMAIN accounts'
                 /\ accounts'[sweep.acct].status = "FROZEN"
                 /\ accounts'[sweep.acct].until <= sweep.at
                 /\ \A k \in DOMAIN tokens' :
                      tokens'[k].acct = sweep.acct /\ ~tokens'[k].revoked =>
                        k \in sweep.snap
      BY <1>0, <1>2, <1>5, <1>14, <2>1 DEF SweepHolds, Status
    <2> QED BY <1>1, <2>1 DEF SweepHolds, Status, ActiveTokens, Active
  <1>16. AnonymisedHasNoSession'
    <2>1. ASSUME NEW b \in DOMAIN accounts, accounts'[b].status = "ANONYMIZED",
                 NEW k \in DOMAIN tokens', tokens'[k].acct = b,
                 ~tokens'[k].revoked
          PROVE  FALSE
      <3>1. b # a /\ Status(b) = "ANONYMIZED"
        BY <1>4, <1>5, <2>1 DEF Status
      <3>2. k \in ActiveTokens(b)
        BY <1>14, <2>1, <3>1
      <3> QED BY <1>0, <3>1, <3>2 DEF AnonymisedHasNoSession
    <2> QED BY <1>5, <2>1
            DEF AnonymisedHasNoSession, Status, ActiveTokens, Active
  <1> QED BY <1>9, <1>10, <1>12, <1>13, <1>15, <1>16 DEF SessionsInv

LEMMA AnonymiseKeeps ==
  ASSUME SessionsInv, SweepCommit
  PROVE  SessionsInv'
  <1> DEFINE a == sweep.acct
             v == [phone |-> NoPhone, status |-> "ANONYMIZED", until |-> 0]
  <1>0. /\ Shapes /\ TokensRefer /\ RequestsRefer /\ InTime /\ SeenActive
        /\ FreezesHold /\ SweepHolds /\ OneSuccessor /\ AnonymisedHasNoSession
    BY DEF SessionsInv
  <1>1. /\ sweep.op = "anonymise"
        /\ accounts' = [accounts EXCEPT ![a] = v]
        /\ tokens' = RevokedAll(sweep.snap) /\ events' = Tally(a, "anonymised")
        /\ sweep' = [op |-> "scan", at |-> sweep.at, todo |-> sweep.todo]
        /\ UNCHANGED <<now, codes, req>>
    BY DEF SweepCommit
  <1>2. /\ a \in DOMAIN accounts /\ Status(a) = "FROZEN"
        /\ ActiveTokens(a) \subseteq sweep.snap
    BY <1>0, <1>1 DEF SweepHolds
  <1>3. \A q \in Requests : req[q].op # "idle" => ~Early(a, req[q].at)
    <2>1. ASSUME NEW q \in Requests, req[q].op # "idle", Early(a, req[q].at)
          PROVE  FALSE
      <3>1. req[q].at \in Nat /\ now <= req[q].at + 1
        BY <1>0, <2>1, RequestFields DEF InTime
      <3>2. Safe(a)
        BY <1>2, <2>1, <3>1, EarlyIsSafe
      <3> QED BY <1>1, <3>2 DEF Safe
    <2> QED BY <2>1
  <1>4. v \in AccountRecord /\ v.status = "ANONYMIZED" /\ v.phone = NoPhone
    BY DEF AccountRecord
  <1> HIDE DEF v
  <1>5. /\ accounts' \in Seq(AccountRecord)
        /\ Len(accounts') = Len(accounts) /\ DOMAIN accounts' = DOMAIN accounts
        /\ accounts'[a] = v
        /\ \A b \in DOMAIN accounts : b # a => accounts'[b] = accounts[b]
    BY <1>0, <1>1, <1>2, <1>4, Rewritten
  <1>6. /\ tokens' \in Seq(TokenRecord) /\ DOMAIN tokens' = DOMAIN tokens
        /\ TokensKept /\ NoNewToken
    <2>1. tokens \in Seq(TokenRecord)
      BY <1>0 DEF Shapes
    <2>2. /\ tokens' \in Seq(TokenRecord) /\ DOMAIN tokens' = DOMAIN tokens
          /\ \A k \in DOMAIN tokens :
               /\ tokens'[k].acct = tokens[k].acct
               /\ tokens'[k].from = tokens[k].from
               /\ tokens'[k].revoked = (tokens[k].revoked \/ k \in sweep.snap)
      BY <1>1, <2>1, Revoking
    <2> QED BY <2>2 DEF TokensKept, NoNewToken
  <1>7. \A k \in DOMAIN tokens : k \in sweep.snap => tokens'[k].revoked
    BY <1>0, <1>1, Revoking DEF Shapes
  <1>8. Shapes'
    <2>1. events' \in Seq(EventRecord) /\ Len(events') = Len(events)
      BY <1>0, <1>1, <1>2, Tallying
    <2>2. sweep' \in SweepRecord
      BY <1>0, <1>1, SweepFields DEF SweepRecord
    <2> QED BY <1>0, <1>1, <1>5, <1>6, <2>1, <2>2 DEF Shapes
  <1>9. TokensRefer' /\ OneSuccessor'
    BY <1>5, <1>6, TokensStep
  <1>10. RequestsRefer' /\ InTime'
    BY <1>0, <1>1, <1>5, <1>6 DEF RequestsRefer, InTime
  <1> DEFINE E(b, t) == /\ accounts'[b].status # "ANONYMIZED"
                        /\ accounts'[b].status = "FROZEN" =>
                             t + 2 <= accounts'[b].until
  <1>11. \A b \in DOMAIN accounts : \A t : b # a /\ Early(b, t) => E(b, t)
    BY <1>5 DEF Early, Status
  <1> HIDE DEF E
  <1>12. SeenActive'
    <2>1. ASSUME NEW q \in Requests, req[q].op = "login",
                 NEW b \in DOMAIN accounts, accounts'[b].phone = req[q].phone
          PROVE  E(b, req[q].at)
      <3>1. req[q].phone # NoPhone
        BY <1>0, <2>1, RequestFields, PhoneAssumption
      <3>2. b # a
        BY <1>4, <1>5, <2>1, <3>1
      <3> QED BY <1>0, <1>5, <1>11, <2>1, <3>2 DEF SeenActive, OfPhone
    <2>2. ASSUME NEW q \in Requests, req[q].op = "persist"
          PROVE  E(req[q].acct, req[q].at)
      BY <1>0, <1>3, <1>11, <2>2 DEF SeenActive, RequestsRefer, OfAccount
    <2>3. ASSUME NEW q \in Requests, req[q].op = "rotate"
          PROVE  E(tokens'[req[q].tok].acct, req[q].at)
      BY <1>0, <1>3, <1>6, <1>11, <2>3
      DEF SeenActive, RequestsRefer, TokensRefer, OfToken, TokensKept
    <2> QED BY <1>1, <1>5, <2>1, <2>2, <2>3
            DEF SeenActive, OfPhone, Early, Status, E
  <1>13. FreezesHold'
    <2>1. \A q \in Requests : req[q].op = "freeze" =>
            req[q].acct # a /\ req[q].acct \in DOMAIN accounts
      BY <1>0, <1>1 DEF FreezesHold, RequestsRefer, OfAccount
    <2>2. ASSUME NEW q \in Requests, req[q].op = "freeze"
          PROVE  accounts'[req[q].acct].status = "ACTIVE"
      BY <1>0, <1>5, <2>1, <2>2 DEF FreezesHold, Status
    <2>3. sweep'.op = "scan"
      BY <1>1
    <2> QED BY <1>0, <1>1, <2>2, <2>3 DEF FreezesHold, Status
  <1>14. SweepHolds'
    BY <1>1 DEF SweepHolds
  <1>15. AnonymisedHasNoSession'
    <2>1. ASSUME NEW b \in DOMAIN accounts, accounts'[b].status = "ANONYMIZED",
                 NEW k \in DOMAIN tokens, tokens'[k].acct = b,
                 ~tokens'[k].revoked
          PROVE  FALSE
      <3>1. k \in ActiveTokens(b)
        BY <1>6, <2>1 DEF TokensKept, ActiveTokens, Active
      <3>2. CASE b = a
        BY <1>2, <1>7, <2>1, <3>1, <3>2
      <3>3. CASE b # a
        BY <1>0, <1>5, <2>1, <3>1, <3>3 DEF AnonymisedHasNoSession, Status
      <3> QED BY <3>2, <3>3
    <2> QED BY <1>5, <1>6, <2>1
            DEF AnonymisedHasNoSession, Status, ActiveTokens, Active
  <1> QED BY <1>8, <1>9, <1>10, <1>12, <1>13, <1>14, <1>15 DEF SessionsInv

-----------------------------------------------------------------------------
(* The codes that requests have found, and the ledger.                     *)
CodesRefer == \A c \in DOMAIN codes : codes[c].acct \in DOMAIN accounts

CodesKnown ==
  \A r \in Requests : req[r].op \in {"delete", "cancel", "freeze"} =>
    /\ req[r].code \in DOMAIN codes
    /\ codes[req[r].code].acct = req[r].acct
    /\ codes[req[r].code].purpose = "cancel" <=> req[r].op = "cancel"

FreshCodes ==
  \A r \in Requests : req[r].op = "freeze" => ~codes[req[r].code].used

LedgerInv ==
  /\ SessionsInv
  /\ CodesRefer
  /\ CodesKnown
  /\ FreshCodes
  /\ LedgerBalances

LEMMA StepKeepsSessions ==
  ASSUME SessionsInv, CodesKnown, [Next]_vars
  PROVE  SessionsInv'
  <1>1. ASSUME NEW r \in Requests, Step(r) PROVE SessionsInv'
    <2>1. CASE CommitPhoneLogin(r)
      <3>1. CASE accounts' = accounts
        BY <2>1, <3>1, AskingKeeps
      <3> QED BY <2>1, <3>1, NewAccountKeeps
    <2>2. CASE LoginPersist(r) \/ Rotate(r) \/ Issue(r)
      BY <2>2, LoginPersistKeeps, RotateKeeps, IssueKeeps
    <2>3. CASE DeleteCommit(r)
      <3>1. req[r].code \in DOMAIN codes
        BY <2>3 DEF DeleteCommit, CodesKnown
      <3> QED BY <2>3, <3>1, DeleteKeeps
    <2>4. CASE CancelCommit(r)
      <3>1. req[r].code \in DOMAIN codes
        BY <2>4 DEF CancelCommit, CodesKnown
      <3> QED BY <2>4, <3>1, CancelKeeps
    <2>5. CASE LogoutCommit(r)
      <3>1. RequestsEnd /\ req' \in [Requests -> RequestRecord]
        BY <2>5, IdleShape DEF LogoutCommit, SessionsInv
      <3> QED BY <2>5, <3>1, RevokingKeeps DEF LogoutCommit
    <2> QED BY <1>1, <2>1, <2>2, <2>3, <2>4, <2>5, AskingKeeps DEF Step
  <1>2. ASSUME NEW k \in DOMAIN tokens, RevokeDevice(k) PROVE SessionsInv'
    <2>1. RequestsEnd /\ req' \in [Requests -> RequestRecord]
      BY <1>2 DEF RevokeDevice, RequestsEnd, SessionsInv, Shapes
    <2> QED BY <1>2, <2>1, RevokingKeeps DEF RevokeDevice
  <1>3. CASE Sweep
    BY <1>3, SweepingKeeps, AnonymiseKeeps DEF Sweep
  <1>4. CASE UNCHANGED vars
    <2>1. Shapes' /\ TokensRefer' /\ RequestsRefer' /\ InTime'
      BY <1>4
      DEF vars, SessionsInv, Shapes, TokensRefer, RequestsRefer, InTime
    <2>2. SeenActive' /\ FreezesHold'
      BY <1>4
      DEF vars, SessionsInv, SeenActive, FreezesHold, Early, Status, OfPhone
    <2>3. SweepHolds' /\ OneSuccessor' /\ AnonymisedHasNoSession'
      BY <1>4
      DEF vars, SessionsInv, SweepHolds, OneSuccessor, AnonymisedHasNoSession,
          Status, ActiveTokens, Active
    <2> QED BY <2>1, <2>2, <2>3 DEF SessionsInv
  <1> QED BY <1>1, <1>2, <1>3, <1>4, ArriveKeeps, TickKeeps DEF Next

LEMMA InitKeeps == Init => LedgerInv
  <1> SUFFICES ASSUME Init PROVE LedgerInv
    OBVIOUS
  <1>1. Idle \in RequestRecord /\ Idle \in SweepRecord /\ Idle.op = "idle"
    BY DEF Idle, RequestRecord, SweepRecord
  <1>2. \A S : <<>> \in Seq(S) /\ DOMAIN <<>> = {} /\ Len(<<>>) = 0
    OBVIOUS
  <1>3. /\ now = 0 /\ accounts = <<>> /\ tokens = <<>> /\ codes = <<>>
        /\ events = <<>> /\ req = [r \in Requests |-> Idle] /\ sweep = Idle
    BY DEF Init
  <1>4. Shapes
    BY <1>1, <1>2, <1>3 DEF Shapes
  <1>5. \A r \in Requests : req[r].op = "idle"
    BY <1>1, <1>3
  <1>6. /\ DOMAIN accounts = {} /\ DOMAIN tokens = {} /\ DOMAIN codes = {}
        /\ sweep.op = "idle"
    BY <1>1, <1>2, <1>3
  <1>7. TokensRefer /\ RequestsRefer /\ InTime /\ SeenActive /\ FreezesHold
    BY <1>5, <1>6
    DEF TokensRefer, RequestsRefer, InTime, SeenActive, FreezesHold, OfAccount,
        OfToken
  <1>8. SweepHolds /\ OneSuccessor /\ AnonymisedHasNoSession
    BY <1>6 DEF SweepHolds, OneSuccessor, AnonymisedHasNoSession
  <1>9. CodesRefer /\ CodesKnown /\ FreshCodes /\ LedgerBalances
    BY <1>5, <1>6 DEF CodesRefer, CodesKnown, FreshCodes, LedgerBalances
  <1> QED BY <1>4, <1>7, <1>8, <1>9 DEF LedgerInv, SessionsInv

(* What a step does to the codes.                                          *)
CodesKept ==
  \A c \in DOMAIN codes :
    /\ c \in DOMAIN codes'
    /\ codes'[c].acct = codes[c].acct /\ codes'[c].purpose = codes[c].purpose

LEMMA IssuingKeeps ==
  ASSUME LedgerInv, NEW r \in Requests, Issue(r)
  PROVE  /\ CodesKept /\ CodesRefer'
         /\ \A c \in DOMAIN codes : codes'[c].used = codes[c].used
         /\ \A c \in DOMAIN codes' : codes'[c].used => c \in DOMAIN codes
  <1> DEFINE v == [acct |-> req[r].acct, used |-> FALSE,
                   purpose |-> req[r].purpose,
                   issued |-> IF req[r].purpose = "delete"
                              THEN now ELSE req[r].at]
             n == Len(codes) + 1
  <1>0. Shapes /\ RequestsRefer /\ CodesRefer
    BY DEF LedgerInv, SessionsInv
  <1>1. req[r].op = "send" /\ codes' = Append(codes, v) /\ UNCHANGED accounts
    BY DEF Issue
  <1>2. v \in CodeRecord
    BY <1>0, <1>1, RequestFields DEF CodeRecord, OfAccount, Shapes
  <1>3. v.acct \in DOMAIN accounts /\ ~v.used
    BY <1>0, <1>1 DEF RequestsRefer, OfAccount
  <1> HIDE DEF v
  <1>4. codes \in Seq(CodeRecord)
    BY <1>0 DEF Shapes
  <1>5. /\ DOMAIN codes = 1..Len(codes) /\ DOMAIN codes' = 1..n
        /\ codes'[n] = v
        /\ \A c \in DOMAIN codes : c # n /\ codes'[c] = codes[c]
    BY <1>1, <1>2, <1>4, AppendedRow
  <1>6. DOMAIN codes' = DOMAIN codes \cup {n}
    <2>1. Len(codes) \in Nat
      BY <1>4
    <2> QED BY <1>5, <2>1
  <1> HIDE DEF n
  <1> QED BY <1>0, <1>1, <1>3, <1>5, <1>6 DEF CodesKept, CodesRefer

LEMMA CodesStep ==
  ASSUME LedgerInv, [Next]_vars
  PROVE  CodesKept /\ CodesRefer'
  <1>0. Shapes /\ CodesRefer /\ CodesKnown /\ accounts \in Seq(AccountRecord)
    BY DEF LedgerInv, SessionsInv, Shapes
  <1>1. CASE UNCHANGED <<codes, accounts>>
    BY <1>0, <1>1 DEF CodesKept, CodesRefer
  <1>2. ASSUME NEW r \in Requests, CommitPhoneLogin(r)
        PROVE  CodesKept /\ CodesRefer'
    <2>1. UNCHANGED codes /\ DOMAIN accounts \subseteq DOMAIN accounts'
      <3> DEFINE v == [phone |-> req[r].phone, status |-> "ACTIVE",
                       until |-> 0]
      <3>1. v \in AccountRecord
        BY <1>0, <1>2, RequestFields DEF CommitPhoneLogin, AccountRecord
      <3>2. UNCHANGED accounts \/ accounts' = Append(accounts, v)
        BY <1>2 DEF CommitPhoneLogin
      <3> HIDE DEF v
      <3>3. DOMAIN accounts \subseteq DOMAIN accounts'
        BY <1>0, <3>1, <3>2
      <3> QED BY <1>2, <3>3 DEF CommitPhoneLogin
    <2> QED BY <1>0, <2>1 DEF CodesKept, CodesRefer
  <1>3. ASSUME NEW r \in Requests, DeleteCommit(r) \/ CancelCommit(r)
        PROVE  CodesKept /\ CodesRefer'
    <2>1. req[r].code \in DOMAIN codes /\ codes' = Used(req[r].code)
      BY <1>0, <1>3 DEF DeleteCommit, CancelCommit, CodesKnown
    <2>2. DOMAIN accounts' = DOMAIN accounts
      BY <1>0, <1>3 DEF DeleteCommit, CancelCommit
    <2> QED BY <1>0, <2>1, <2>2, UsingCode DEF CodesKept, CodesRefer
  <1>4. CASE SweepCommit
    <2>1. UNCHANGED codes /\ DOMAIN accounts' = DOMAIN accounts
      BY <1>0, <1>4 DEF SweepCommit
    <2> QED BY <1>0, <2>1 DEF CodesKept, CodesRefer
  <1>5. ASSUME NEW r \in Requests, Step(r) PROVE CodesKept /\ CodesRefer'
    BY <1>1, <1>2, <1>3, <1>5, IssuingKeeps
    DEF Step, LoginPersist, RefreshInspect, Rotate, DeleteClaim,
        CancelFindCode, LogoutCommit, Abandon
  <1>6. ASSUME NEW r \in Requests, Arrive(r) PROVE CodesKept /\ CodesRefer'
    BY <1>1, <1>6
    DEF Arrive, LoginInspect, FindActiveByHash, SendDeletionCode,
        SendCancelCode, DeleteStart, CancelInspect, LogoutAll
  <1>7. CASE Sweep
    BY <1>1, <1>4, <1>7
    DEF Sweep, SweepStart, SweepEnd, SweepRowFails, SweepCut, SweepClaim,
        SweepSkip
  <1> QED BY <1>1, <1>5, <1>6, <1>7 DEF Next, RevokeDevice, Tick, vars

(* A request keeps the code it found, or finds one, or lets go of it.      *)
HasCode == {"delete", "cancel", "freeze"}

KeepsCode(r) ==
  req'[r].op \in HasCode =>
    \/ /\ req[r].op \in HasCode
       /\ req'[r].acct = req[r].acct /\ req'[r].code = req[r].code
       /\ req'[r].op = "cancel" <=> req[r].op = "cancel"
       /\ \/ req'[r].op = "freeze" => req[r].op = "freeze"
          \/ ~codes[req[r].code].used /\ UNCHANGED codes
    \/ /\ req'[r].op # "freeze"
       /\ req'[r].code \in DOMAIN codes
       /\ codes[req'[r].code].acct = req'[r].acct
       /\ codes[req'[r].code].purpose = "cancel" <=> req'[r].op = "cancel"

LEMMA RequestMoves ==
  ASSUME SessionsInv, [Next]_vars, NEW r \in Requests
  PROVE  KeepsCode(r)
  <1>0. req \in [Requests -> RequestRecord]
    BY DEF SessionsInv, Shapes
  <1>1. ASSUME req'[r] = req[r] PROVE KeepsCode(r)
    BY <1>1 DEF KeepsCode
  <1>2. ASSUME NEW s, Goto(r, s), s.op \notin HasCode PROVE KeepsCode(r)
    BY <1>0, <1>2 DEF Goto, KeepsCode
  <1>i. Idle.op \notin HasCode
    BY DEF Idle, HasCode
  <1>3. ASSUME NEW a \in DOMAIN accounts, DeleteStart(r, a) PROVE KeepsCode(r)
    <2>1. PICK c \in FindActive(a, "delete", now) :
            Goto(r, [op |-> "delete", at |-> now, acct |-> a, code |-> c])
      BY <1>3 DEF DeleteStart
    <2>2. /\ c \in DOMAIN codes
          /\ codes[c].acct = a /\ codes[c].purpose = "delete"
      BY <2>1 DEF FindActive
    <2>3. req'[r] = [op |-> "delete", at |-> now, acct |-> a, code |-> c]
      BY <1>0, <2>1 DEF Goto
    <2> QED BY <2>2, <2>3 DEF KeepsCode
  <1>4. CASE CancelFindCode(r)
    <2>1. PICK c \in FindActive(req[r].acct, "cancel", req[r].at) :
            Goto(r, [op |-> "cancel", at |-> req[r].at, acct |-> req[r].acct,
                     code |-> c])
      BY <1>4 DEF CancelFindCode
    <2>2. /\ c \in DOMAIN codes /\ codes[c].acct = req[r].acct
          /\ codes[c].purpose = "cancel"
      BY <2>1 DEF FindActive
    <2>3. req'[r] = [op |-> "cancel", at |-> req[r].at, acct |-> req[r].acct,
                     code |-> c]
      BY <1>0, <2>1 DEF Goto
    <2> QED BY <2>2, <2>3 DEF KeepsCode
  <1>5. CASE DeleteClaim(r)
    <2>1. /\ req[r].op = "delete" /\ ~codes[req[r].code].used
          /\ UNCHANGED codes
      BY <1>5 DEF DeleteClaim, MayUse
    <2>2. req'[r].op = "freeze" /\ req'[r].acct = req[r].acct
          /\ req'[r].code = req[r].code
      BY <1>0, <1>5 DEF DeleteClaim, Goto
    <2> QED BY <2>1, <2>2 DEF KeepsCode, HasCode
  <1>6. CASE RefreshInspect(r)
    <2>1. req[r] \in RequestRecord /\ req[r].op = "inspect"
      BY <1>0, <1>6 DEF RefreshInspect
    <2>2. [req[r] EXCEPT !.op = "rotate"].op = "rotate"
      BY <2>1 DEF RequestRecord, Idle
    <2>3. "rotate" \notin HasCode
      BY DEF HasCode
    <2> QED BY <1>2, <1>6, <2>2, <2>3 DEF RefreshInspect
  <1>7. CASE Step(r)
    <2>1. CASE CommitPhoneLogin(r)
      <3>1. PICK a : Goto(r, [op |-> "persist", at |-> req[r].at, acct |-> a])
        BY <2>1 DEF CommitPhoneLogin
      <3>2. [op |-> "persist", at |-> req[r].at, acct |-> a].op \notin HasCode
        BY DEF HasCode
      <3> QED BY <1>2, <3>1, <3>2
    <2>2. Goto(r, Idle) => KeepsCode(r)
      BY <1>2, <1>i
    <2> QED BY <1>4, <1>5, <1>6, <1>7, <2>1, <2>2
            DEF Step, LoginPersist, Rotate, Issue, DeleteCommit, CancelCommit,
                LogoutCommit, Abandon
  <1>8. CASE Arrive(r)
    <2>1. ASSUME NEW s, Goto(r, s),
                 s.op \in {"login", "inspect", "send", "eligible", "logout"}
          PROVE  KeepsCode(r)
      BY <1>2, <2>1 DEF HasCode
    <2>2. ASSUME NEW p \in Phones, LoginInspect(r, p) PROVE KeepsCode(r)
      BY <2>1, <2>2 DEF LoginInspect
    <2>3. ASSUME NEW k \in DOMAIN tokens, FindActiveByHash(r, k)
          PROVE  KeepsCode(r)
      BY <2>1, <2>3 DEF FindActiveByHash
    <2>4. ASSUME NEW a \in DOMAIN accounts,
                 \/ SendDeletionCode(r, a) \/ SendCancelCode(r, a)
                 \/ CancelInspect(r, a) \/ LogoutAll(r, a)
          PROVE  KeepsCode(r)
      BY <2>1, <2>4
      DEF SendDeletionCode, SendCancelCode, CancelInspect, LogoutAll
    <2> QED BY <1>3, <1>8, <2>2, <2>3, <2>4 DEF Arrive
  <1>9. ASSUME NEW q \in Requests, q # r, Step(q) \/ Arrive(q)
        PROVE  KeepsCode(r)
    <2>1. \A s : Goto(q, s) => req'[r] = req[r]
      BY <1>0, <1>9 DEF Goto
    <2>2. \E s : Goto(q, s)
      BY <1>9
      DEF Step, CommitPhoneLogin, LoginPersist, RefreshInspect, Rotate, Issue,
          DeleteClaim, DeleteCommit, CancelFindCode, CancelCommit,
          LogoutCommit, Abandon, Arrive, LoginInspect, FindActiveByHash,
          SendDeletionCode, SendCancelCode, DeleteStart, CancelInspect,
          LogoutAll
    <2> QED BY <1>1, <2>1, <2>2
  <1>10. CASE UNCHANGED req
    BY <1>1, <1>10
  <1> QED BY <1>7, <1>8, <1>9, <1>10
          DEF Next, Sweep, SweepStart, SweepCommit, SweepEnd, SweepRowFails,
              SweepCut, SweepClaim, SweepSkip, RevokeDevice, Tick, vars

(* Which code a step uses up.                                              *)
LEMMA CodeUses ==
  ASSUME LedgerInv, [Next]_vars
  PROVE  \/ \A c \in DOMAIN codes : codes'[c].used = codes[c].used
         \/ \E q \in Requests : /\ DeleteCommit(q) \/ CancelCommit(q)
                                /\ codes' = Used(req[q].code)
  <1>1. \A r \in Requests : Issue(r) =>
          \A c \in DOMAIN codes : codes'[c].used = codes[c].used
    BY IssuingKeeps
  <1>2. ASSUME NEW r \in Requests, Step(r), ~DeleteCommit(r), ~CancelCommit(r)
        PROVE  UNCHANGED codes \/ Issue(r)
    BY <1>2
    DEF Step, CommitPhoneLogin, LoginPersist, RefreshInspect, Rotate,
        DeleteClaim, CancelFindCode, LogoutCommit, Abandon
  <1>3. ASSUME NEW r \in Requests, Arrive(r) PROVE UNCHANGED codes
    BY <1>3
    DEF Arrive, LoginInspect, FindActiveByHash, SendDeletionCode,
        SendCancelCode, DeleteStart, CancelInspect, LogoutAll
  <1>4. CASE Sweep
    BY <1>4
    DEF Sweep, SweepStart, SweepCommit, SweepEnd, SweepRowFails, SweepCut,
        SweepClaim, SweepSkip
  <1>5. \A r \in Requests : DeleteCommit(r) \/ CancelCommit(r) =>
          codes' = Used(req[r].code)
    BY DEF DeleteCommit, CancelCommit
  <1> QED BY <1>1, <1>2, <1>3, <1>4, <1>5 DEF Next, RevokeDevice, Tick, vars

LEMMA CodesKnownStep ==
  ASSUME LedgerInv, [Next]_vars
  PROVE  CodesKnown' /\ FreshCodes'
  <1>0. /\ SessionsInv /\ Shapes /\ CodesKnown /\ FreshCodes /\ FreezesHold
        /\ CodesKept
    BY CodesStep DEF LedgerInv, SessionsInv
  <1>1. \A r \in Requests : KeepsCode(r)
    BY <1>0, RequestMoves
  <1>2. CodesKnown'
    BY <1>0, <1>1 DEF KeepsCode, CodesKnown, CodesKept, HasCode
  <1>3. ASSUME NEW r \in Requests, req'[r].op = "freeze"
        PROVE  ~codes'[req'[r].code].used
    <2>1. /\ req[r].op \in HasCode /\ req'[r].code = req[r].code
          /\ \/ req[r].op = "freeze"
             \/ ~codes[req[r].code].used /\ UNCHANGED codes
      BY <1>1, <1>3 DEF KeepsCode, HasCode
    <2>2. CASE ~codes[req[r].code].used /\ UNCHANGED codes
      BY <2>1, <2>2
    <2>3. CASE req[r].op = "freeze"
      <3>1. req[r].code \in DOMAIN codes /\ ~codes[req[r].code].used
        BY <1>0, <2>3 DEF CodesKnown, FreshCodes
      <3>2. ASSUME NEW q \in Requests, DeleteCommit(q) \/ CancelCommit(q),
                   codes' = Used(req[q].code)
            PROVE  ~codes'[req[r].code].used
        <4>1. req[q].code \in DOMAIN codes
          BY <1>0, <3>2 DEF DeleteCommit, CancelCommit, CodesKnown
        <4>2. req[q].code # req[r].code
          <5>1. CASE CancelCommit(q)
            BY <1>0, <2>3, <5>1 DEF CancelCommit, CodesKnown
          <5>2. CASE DeleteCommit(q)
            <6>1. q # r
              BY <1>0, <1>3, <5>2, IdleShape DEF DeleteCommit, Idle
            <6> QED BY <1>0, <2>3, <5>2, <6>1
                    DEF DeleteCommit, CodesKnown, FreezesHold
          <5> QED BY <3>2, <5>1, <5>2
        <4> QED BY <1>0, <3>1, <3>2, <4>1, <4>2, UsingCode
      <3> QED BY <2>1, <3>1, <3>2, CodeUses
    <2> QED BY <2>1, <2>2, <2>3
  <1> QED BY <1>2, <1>3 DEF FreshCodes

-----------------------------------------------------------------------------
(* Counting used codes.                                                    *)
LEMMA UsedIsFinite ==
  ASSUME Shapes, NEW a, NEW u
  PROVE  /\ IsFiniteSet(UsedCodes(a, u))
         /\ Cardinality(UsedCodes(a, u)) \in Nat
  <1>1. Len(codes) \in Nat /\ DOMAIN codes = 1..Len(codes)
    BY DEF Shapes
  <1>2. IsFiniteSet(DOMAIN codes)
    BY <1>1, FS_Interval
  <1>3. UsedCodes(a, u) \subseteq DOMAIN codes
    BY DEF UsedCodes
  <1>4. IsFiniteSet(UsedCodes(a, u))
    BY <1>2, <1>3, FS_Subset
  <1> QED BY <1>4, FS_CardinalityType

LEMMA UsingCounts ==
  ASSUME Shapes, NEW c \in DOMAIN codes, ~codes[c].used, codes' = Used(c),
         NEW a, NEW u
  PROVE  Cardinality(UsedCodes(a, u)') =
           Cardinality(UsedCodes(a, u)) +
             IF codes[c].acct = a /\ codes[c].purpose = u THEN 1 ELSE 0
  <1>1. /\ DOMAIN codes' = DOMAIN codes /\ codes'[c].used
        /\ \A d \in DOMAIN codes :
             /\ codes'[d].acct = codes[d].acct
             /\ codes'[d].purpose = codes[d].purpose
             /\ d # c => codes'[d].used = codes[d].used
    BY UsingCode
  <1>2. CASE codes[c].acct = a /\ codes[c].purpose = u
    <2>1. UsedCodes(a, u)' = UsedCodes(a, u) \cup {c}
      BY <1>1, <1>2 DEF UsedCodes
    <2>2. c \notin UsedCodes(a, u)
      BY DEF UsedCodes
    <2> QED BY <1>2, <2>1, <2>2, UsedIsFinite, FS_AddElement
  <1>3. CASE ~(codes[c].acct = a /\ codes[c].purpose = u)
    <2>1. UsedCodes(a, u)' = UsedCodes(a, u)
      BY <1>1, <1>3 DEF UsedCodes
    <2> QED BY <1>3, <2>1, UsedIsFinite
  <1> QED BY <1>2, <1>3

(* Steps that neither tally an event nor use a code.                       *)
LEMMA LedgerUntouched ==
  ASSUME LedgerInv, DOMAIN accounts' = DOMAIN accounts, UNCHANGED events,
         \A a \in DOMAIN accounts :
           accounts'[a].status = "FROZEN" <=> Status(a) = "FROZEN",
         CodesKept,
         \A c \in DOMAIN codes : codes'[c].used = codes[c].used,
         \A c \in DOMAIN codes' : codes'[c].used => c \in DOMAIN codes
  PROVE  LedgerBalances'
  <1>1. \A a, u : UsedCodes(a, u)' = UsedCodes(a, u)
    BY DEF UsedCodes, CodesKept
  <1> QED BY <1>1 DEF LedgerInv, LedgerBalances, Status

LEMMA TalliedLedger ==
  ASSUME LedgerInv, NEW a \in DOMAIN accounts,
         NEW type \in {"requested", "cancelled", "anonymised"},
         events' = Tally(a, type), DOMAIN accounts' = DOMAIN accounts,
         \A b \in DOMAIN accounts : b # a => accounts'[b] = accounts[b],
         type = "requested" =>
           Status(a) # "FROZEN" /\ accounts'[a].status = "FROZEN",
         type # "requested" =>
           Status(a) = "FROZEN" /\ accounts'[a].status # "FROZEN",
         \A b \in DOMAIN accounts, u \in {"delete", "cancel"} :
           Cardinality(UsedCodes(b, u)') =
             Cardinality(UsedCodes(b, u)) +
               IF b = a /\ \/ type = "requested" /\ u = "delete"
                           \/ type = "cancelled" /\ u = "cancel"
               THEN 1 ELSE 0
  PROVE  LedgerBalances'
  <1>0. Shapes /\ LedgerBalances
    BY DEF LedgerInv, SessionsInv
  <1>1. /\ events[a] \in EventRecord
        /\ events'[a] = [events[a] EXCEPT ![type] = @ + 1]
        /\ \A b \in DOMAIN accounts : b # a => events'[b] = events[b]
    BY <1>0, Tallying
  <1>2. \A b \in DOMAIN accounts :
          /\ Cardinality(UsedCodes(b, "delete")) \in Nat
          /\ Cardinality(UsedCodes(b, "cancel")) \in Nat
    BY <1>0, UsedIsFinite
  <1>3. ASSUME NEW b \in DOMAIN accounts, b # a
        PROVE  /\ events'[b].requested - events'[b].cancelled
                    - events'[b].anonymised
                    = IF accounts'[b].status = "FROZEN" THEN 1 ELSE 0
               /\ events'[b].requested = Cardinality(UsedCodes(b, "delete")')
               /\ events'[b].cancelled = Cardinality(UsedCodes(b, "cancel")')
    <2>1. /\ Cardinality(UsedCodes(b, "delete")')
               = Cardinality(UsedCodes(b, "delete"))
          /\ Cardinality(UsedCodes(b, "cancel")')
               = Cardinality(UsedCodes(b, "cancel"))
      BY <1>2, <1>3
    <2> QED BY <1>0, <1>1, <1>3, <2>1 DEF LedgerBalances, Status
  <1>4. /\ events'[a].requested - events'[a].cancelled - events'[a].anonymised
             = IF accounts'[a].status = "FROZEN" THEN 1 ELSE 0
        /\ events'[a].requested = Cardinality(UsedCodes(a, "delete")')
        /\ events'[a].cancelled = Cardinality(UsedCodes(a, "cancel")')
    <2>1. /\ events[a].requested \in Nat /\ events[a].cancelled \in Nat
          /\ events[a].anonymised \in Nat
          /\ events'[a].requested = events[a].requested
               + IF type = "requested" THEN 1 ELSE 0
          /\ events'[a].cancelled = events[a].cancelled
               + IF type = "cancelled" THEN 1 ELSE 0
          /\ events'[a].anonymised = events[a].anonymised
               + IF type = "anonymised" THEN 1 ELSE 0
      BY <1>1 DEF EventRecord
    <2>2. /\ Cardinality(UsedCodes(a, "delete")')
               = Cardinality(UsedCodes(a, "delete"))
                   + IF type = "requested" THEN 1 ELSE 0
          /\ Cardinality(UsedCodes(a, "cancel")')
               = Cardinality(UsedCodes(a, "cancel"))
                   + IF type = "cancelled" THEN 1 ELSE 0
      OBVIOUS
    <2>3. /\ events[a].requested - events[a].cancelled - events[a].anonymised
               = IF Status(a) = "FROZEN" THEN 1 ELSE 0
          /\ events[a].requested = Cardinality(UsedCodes(a, "delete"))
          /\ events[a].cancelled = Cardinality(UsedCodes(a, "cancel"))
      BY <1>0 DEF LedgerBalances
    <2> QED BY <2>1, <2>2, <2>3
  <1> QED BY <1>3, <1>4 DEF LedgerBalances, Status

LEMMA SameLedger ==
  ASSUME LedgerInv, UNCHANGED <<accounts, codes, events>>
  PROVE  LedgerBalances'
  BY DEF LedgerInv, LedgerBalances, Status, UsedCodes

LEMMA FreezingLedger ==
  ASSUME LedgerInv, NEW r \in Requests, DeleteCommit(r) \/ CancelCommit(r)
  PROVE  LedgerBalances'
  <1> DEFINE a == req[r].acct
             c == req[r].code
             type == IF req[r].op = "freeze" THEN "requested" ELSE "cancelled"
  <1>0. /\ Shapes /\ RequestsRefer /\ CodesKnown /\ FreshCodes /\ FreezesHold
    BY DEF LedgerInv, SessionsInv
  <1>1. /\ req[r].op \in {"freeze", "cancel"}
        /\ DeleteCommit(r) <=> req[r].op = "freeze"
    BY DEF DeleteCommit, CancelCommit
  <1>2. /\ a \in DOMAIN accounts /\ c \in DOMAIN codes /\ codes[c].acct = a
        /\ codes[c].purpose = "cancel" <=> req[r].op = "cancel"
    BY <1>0, <1>1 DEF RequestsRefer, CodesKnown, OfAccount
  <1>3. codes[c].purpose \in {"delete", "cancel"}
    <2>1. ASSUME NEW i \in DOMAIN codes PROVE codes[i] \in CodeRecord
      BY <1>0 DEF Shapes
    <2>2. codes[c] \in CodeRecord
      BY <1>2, <2>1
    <2> QED BY <2>2 DEF CodeRecord
  <1>4. ~codes[c].used /\ codes' = Used(c)
    BY <1>0, <1>1 DEF DeleteCommit, CancelCommit, FreshCodes, MayUse
  <1>5. /\ events' = Tally(a, type)
        /\ type \in {"requested", "cancelled", "anonymised"}
    BY <1>1 DEF DeleteCommit, CancelCommit
  <1>6. /\ DOMAIN accounts' = DOMAIN accounts
        /\ \A b \in DOMAIN accounts : b # a => accounts'[b] = accounts[b]
    BY <1>0 DEF Shapes, DeleteCommit, CancelCommit
  <1>7. /\ type = "requested" =>
             Status(a) # "FROZEN" /\ accounts'[a].status = "FROZEN"
        /\ type # "requested" =>
             Status(a) = "FROZEN" /\ accounts'[a].status # "FROZEN"
    <2>1. accounts[a] \in AccountRecord
      BY <1>0, <1>2, AccountFields
    <2>2. CASE DeleteCommit(r)
      <3>1. accounts'[a] = [accounts[a] EXCEPT !.status = "FROZEN",
                              !.until = req[r].at + FreezeTicks]
        BY <1>0, <1>2, <2>2 DEF Shapes, DeleteCommit
      <3>2. accounts'[a].status = "FROZEN" /\ Status(a) = "ACTIVE"
        BY <1>0, <1>1, <2>1, <2>2, <3>1 DEF AccountRecord, FreezesHold
      <3> QED BY <1>1, <2>2, <3>2
    <2>3. CASE CancelCommit(r)
      <3>1. accounts'[a] = [accounts[a] EXCEPT !.status = "ACTIVE",
                                               !.until = 0]
        BY <1>0, <1>2, <2>3 DEF Shapes, CancelCommit
      <3>2. accounts'[a].status = "ACTIVE" /\ Status(a) = "FROZEN"
        BY <2>1, <2>3, <3>1 DEF AccountRecord, CancelCommit, MayCancel
      <3>3. req[r].op = "cancel"
        BY <2>3 DEF CancelCommit
      <3> QED BY <3>2, <3>3
    <2> QED BY <2>2, <2>3
  <1>8. \A b \in DOMAIN accounts, u \in {"delete", "cancel"} :
          Cardinality(UsedCodes(b, u)') =
            Cardinality(UsedCodes(b, u)) +
              IF b = a /\ \/ type = "requested" /\ u = "delete"
                          \/ type = "cancelled" /\ u = "cancel"
              THEN 1 ELSE 0
    <2>1. \A b \in DOMAIN accounts, u \in {"delete", "cancel"} :
            Cardinality(UsedCodes(b, u)') =
              Cardinality(UsedCodes(b, u)) +
                IF codes[c].acct = b /\ codes[c].purpose = u THEN 1 ELSE 0
      BY <1>0, <1>2, <1>4, UsingCounts
    <2>2. \A b \in DOMAIN accounts, u \in {"delete", "cancel"} :
            (codes[c].acct = b /\ codes[c].purpose = u) <=>
              (b = a /\ \/ type = "requested" /\ u = "delete"
                        \/ type = "cancelled" /\ u = "cancel")
      BY <1>1, <1>2, <1>3
    <2> QED BY <2>1, <2>2
  <1> HIDE DEF a, c, type
  <1> QED BY <1>2, <1>5, <1>6, <1>7, <1>8, TalliedLedger

LEMMA SweptLedger ==
  ASSUME LedgerInv, SweepCommit
  PROVE  LedgerBalances'
  <1> DEFINE a == sweep.acct
  <1>0. Shapes /\ SweepHolds
    BY DEF LedgerInv, SessionsInv
  <1>1. /\ a \in DOMAIN accounts /\ Status(a) = "FROZEN"
        /\ events' = Tally(a, "anonymised") /\ UNCHANGED codes
    BY <1>0 DEF SweepHolds, SweepCommit
  <1>2. /\ DOMAIN accounts' = DOMAIN accounts
        /\ accounts'[a].status = "ANONYMIZED"
        /\ \A b \in DOMAIN accounts : b # a => accounts'[b] = accounts[b]
    BY <1>0, <1>1 DEF Shapes, SweepCommit
  <1>3. \A b \in DOMAIN accounts, u \in {"delete", "cancel"} :
          Cardinality(UsedCodes(b, u)') = Cardinality(UsedCodes(b, u)) + 0
    <2>1. \A b, u : UsedCodes(b, u)' = UsedCodes(b, u)
      BY <1>1 DEF UsedCodes
    <2>2. \A b, u : Cardinality(UsedCodes(b, u)) \in Nat
      BY <1>0, UsedIsFinite
    <2> QED BY <2>1, <2>2
  <1> HIDE DEF a
  <1> QED BY <1>1, <1>2, <1>3, TalliedLedger

LEMMA NewLedger ==
  ASSUME LedgerInv, NEW r \in Requests, CommitPhoneLogin(r)
  PROVE  LedgerBalances'
  <1> DEFINE n == Len(accounts) + 1
             v == [phone |-> req[r].phone, status |-> "ACTIVE", until |-> 0]
  <1>0. /\ Shapes /\ CodesRefer /\ LedgerBalances
    BY DEF LedgerInv, SessionsInv
  <1>1. CASE UNCHANGED <<accounts, events>>
    BY <1>1, SameLedger DEF CommitPhoneLogin
  <1>2. CASE /\ accounts' = Append(accounts, v)
             /\ events' = Append(events, NoEvents)
    <2>1. v \in AccountRecord /\ v.status = "ACTIVE"
      BY <1>0, RequestFields DEF CommitPhoneLogin, AccountRecord
    <2>2. NoEvents \in EventRecord
      BY DEF NoEvents, EventRecord
    <2> HIDE DEF v
    <2>3. /\ DOMAIN accounts = 1..Len(accounts) /\ DOMAIN accounts' = 1..n
          /\ accounts'[n] = v
          /\ \A b \in DOMAIN accounts : b # n /\ accounts'[b] = accounts[b]
      BY <1>0, <1>2, <2>1, AppendedRow DEF Shapes
    <2>4. DOMAIN accounts' = DOMAIN accounts \cup {n}
      <3>1. Len(accounts) \in Nat
        BY <1>0 DEF Shapes
      <3> QED BY <2>3, <3>1
    <2>5. /\ events'[n] = NoEvents
          /\ \A b \in DOMAIN accounts : events'[b] = events[b]
      BY <1>0, <1>2, <2>2, AppendedRow DEF Shapes
    <2>6. \A b, u : UsedCodes(b, u)' = UsedCodes(b, u)
      BY DEF UsedCodes, CommitPhoneLogin
    <2> HIDE DEF n
    <2>7. ASSUME NEW b, b = n, NEW u PROVE UsedCodes(b, u)' = {}
      <3>1. \A c \in DOMAIN codes : codes[c].acct # b
        BY <1>0, <2>3, <2>7 DEF CodesRefer
      <3>2. UsedCodes(b, u) = {}
        BY <3>1 DEF UsedCodes
      <3> QED BY <2>6, <3>2
    <2>8. ASSUME NEW b \in DOMAIN accounts
          PROVE  /\ events'[b].requested - events'[b].cancelled
                      - events'[b].anonymised
                      = IF accounts'[b].status = "FROZEN" THEN 1 ELSE 0
                 /\ events'[b].requested = Cardinality(UsedCodes(b, "delete")')
                 /\ events'[b].cancelled = Cardinality(UsedCodes(b, "cancel")')
      BY <1>0, <2>3, <2>5, <2>6 DEF LedgerBalances, Status
    <2>9. ASSUME NEW b, b = n
          PROVE  /\ events'[b].requested - events'[b].cancelled
                      - events'[b].anonymised
                      = IF accounts'[b].status = "FROZEN" THEN 1 ELSE 0
                 /\ events'[b].requested = Cardinality(UsedCodes(b, "delete")')
                 /\ events'[b].cancelled = Cardinality(UsedCodes(b, "cancel")')
      <3>1. /\ events'[b].requested = 0 /\ events'[b].cancelled = 0
            /\ events'[b].anonymised = 0 /\ accounts'[b].status = "ACTIVE"
        BY <2>1, <2>3, <2>5, <2>9 DEF NoEvents
      <3>2. /\ UsedCodes(b, "delete")' = {} /\ UsedCodes(b, "cancel")' = {}
            /\ Cardinality({}) = 0
        BY <2>7, <2>9, FS_EmptySet
      <3> QED BY <3>1, <3>2
    <2>10. \A b \in DOMAIN accounts' :
             /\ events'[b].requested - events'[b].cancelled
                  - events'[b].anonymised
                  = IF accounts'[b].status = "FROZEN" THEN 1 ELSE 0
             /\ events'[b].requested = Cardinality(UsedCodes(b, "delete")')
             /\ events'[b].cancelled = Cardinality(UsedCodes(b, "cancel")')
      BY <2>4, <2>8, <2>9
    <2> QED BY <2>10 DEF LedgerBalances, Status
  <1> QED BY <1>1, <1>2 DEF CommitPhoneLogin

LEMMA LedgerStep ==
  ASSUME LedgerInv, [Next]_vars
  PROVE  LedgerBalances'
  <1>1. ASSUME NEW r \in Requests, Issue(r) PROVE LedgerBalances'
    <2>1. UNCHANGED <<accounts, events>>
      BY <1>1 DEF Issue
    <2> QED BY <1>1, <2>1, IssuingKeeps, LedgerUntouched DEF Status
  <1>2. ASSUME NEW r \in Requests, Step(r) PROVE LedgerBalances'
    BY <1>1, <1>2, SameLedger, FreezingLedger, NewLedger
    DEF Step, LoginPersist, RefreshInspect, Rotate, DeleteClaim,
        CancelFindCode, LogoutCommit, Abandon
  <1>3. ASSUME NEW r \in Requests, Arrive(r) PROVE LedgerBalances'
    BY <1>3, SameLedger
    DEF Arrive, LoginInspect, FindActiveByHash, SendDeletionCode,
        SendCancelCode, DeleteStart, CancelInspect, LogoutAll
  <1>4. CASE Sweep
    BY <1>4, SameLedger, SweptLedger
    DEF Sweep, SweepStart, SweepEnd, SweepRowFails, SweepCut, SweepClaim,
        SweepSkip
  <1> QED BY <1>2, <1>3, <1>4, SameLedger DEF Next, RevokeDevice, Tick, vars

-----------------------------------------------------------------------------
(* The strengthened invariant holds in every reachable state.              *)
THEOREM LedgerInvariant == Spec => []LedgerInv
  <1>1. LedgerInv /\ [Next]_vars => LedgerInv'
    BY StepKeepsSessions, CodesStep, CodesKnownStep, LedgerStep DEF LedgerInv
  <1> QED BY <1>1, InitKeeps, PTL DEF Spec

(* A refresh token is exchanged for at most one other, for any number of   *)
(* refreshes that race with it (refresh-token.service.ts).                 *)
THEOREM RotatedOnce == Spec => []OneSuccessor
  <1>1. LedgerInv => OneSuccessor
    BY DEF LedgerInv, SessionsInv
  <1> QED BY <1>1, LedgerInvariant, PTL

(* No session outlives its account, whatever logins and refreshes are      *)
(* under way when it freezes or is anonymised                              *)
(* (commit-account-anonymization.usecase.ts).                              *)
THEOREM NoSessionOutlivesItsAccount == Spec => []AnonymisedHasNoSession
  <1>1. LedgerInv => AnonymisedHasNoSession
    BY DEF LedgerInv, SessionsInv
  <1> QED BY <1>1, LedgerInvariant, PTL

(* The outbox tells every account's story, and each request and each       *)
(* cancellation of a deletion used up a code of its own.                   *)
THEOREM TheLedgerBalances == Spec => []LedgerBalances
  <1>1. LedgerInv => LedgerBalances
    BY DEF LedgerInv
  <1> QED BY <1>1, LedgerInvariant, PTL

(* What a step does to the status of an account.                           *)
LEMMA StatusMoves ==
  ASSUME SessionsInv, [Next]_vars, NEW a \in DOMAIN accounts
  PROVE  \/ accounts'[a] = accounts[a]
         \/ accounts'[a].status = "FROZEN"
         \/ \E r \in Requests : CancelCommit(r) /\ req[r].acct = a
         \/ SweepCommit /\ sweep.acct = a
  <1>0. Shapes /\ accounts \in Seq(AccountRecord) /\ RequestsRefer
    BY DEF SessionsInv, Shapes
  <1>1. ASSUME NEW r \in Requests, CommitPhoneLogin(r)
        PROVE  accounts'[a] = accounts[a]
    <2> DEFINE v == [phone |-> req[r].phone, status |-> "ACTIVE", until |-> 0]
    <2>1. v \in AccountRecord
      BY <1>0, <1>1, RequestFields DEF CommitPhoneLogin, AccountRecord
    <2>2. UNCHANGED accounts \/ accounts' = Append(accounts, v)
      BY <1>1 DEF CommitPhoneLogin
    <2> HIDE DEF v
    <2> QED BY <1>0, <2>1, <2>2
  <1>2. ASSUME NEW r \in Requests, DeleteCommit(r)
        PROVE  accounts'[a] = accounts[a] \/ accounts'[a].status = "FROZEN"
    <2>1. CASE req[r].acct = a
      <3>1. accounts'[a] = [accounts[a] EXCEPT !.status = "FROZEN",
                              !.until = req[r].at + FreezeTicks]
        BY <1>0, <1>2, <2>1 DEF DeleteCommit
      <3>2. accounts[a] \in AccountRecord
        BY <1>0
      <3> QED BY <3>1, <3>2 DEF AccountRecord
    <2> QED BY <1>0, <1>2, <2>1 DEF DeleteCommit
  <1>3. ASSUME NEW r \in Requests, CancelCommit(r), req[r].acct # a
        PROVE  accounts'[a] = accounts[a]
    BY <1>0, <1>3 DEF CancelCommit
  <1>4. ASSUME SweepCommit, sweep.acct # a PROVE accounts'[a] = accounts[a]
    BY <1>0, <1>4 DEF SweepCommit
  <1>5. ASSUME NEW r \in Requests, Step(r)
        PROVE  \/ accounts'[a] = accounts[a] \/ accounts'[a].status = "FROZEN"
               \/ CancelCommit(r) /\ req[r].acct = a
    BY <1>1, <1>2, <1>3, <1>5
    DEF Step, LoginPersist, RefreshInspect, Rotate, Issue, DeleteClaim,
        CancelFindCode, LogoutCommit, Abandon
  <1>6. ASSUME NEW r \in Requests, Arrive(r) PROVE UNCHANGED accounts
    BY <1>6
    DEF Arrive, LoginInspect, FindActiveByHash, SendDeletionCode,
        SendCancelCode, DeleteStart, CancelInspect, LogoutAll
  <1>7. CASE Sweep
    BY <1>4, <1>7
    DEF Sweep, SweepStart, SweepEnd, SweepRowFails, SweepCut, SweepClaim,
        SweepSkip
  <1> QED BY <1>5, <1>6, <1>7 DEF Next, RevokeDevice, Tick, vars

(* An account is anonymised only when it is frozen and its grace is over,  *)
(* and thawed only within a tick of it, however old the sweep's list and   *)
(* the request's look at the account are (account.rules.ts).               *)
THEOREM TheGraceIsHonoured == Spec => GraceHonoured
  <1> DEFINE Honours(a) ==
        /\ accounts'[a].status = "ANONYMIZED" /\ Status(a) # "ANONYMIZED"
             => Status(a) = "FROZEN" /\ now >= accounts[a].until
        /\ accounts'[a].status = "ACTIVE" /\ Status(a) = "FROZEN"
             => now <= accounts[a].until
  <1>1. ASSUME SessionsInv, [Next]_vars, NEW a \in DOMAIN accounts
        PROVE  Honours(a)
    <2>0. Shapes /\ SweepHolds /\ InTime /\ now \in Nat
      BY <1>1 DEF SessionsInv, Shapes
    <2>1. CASE accounts'[a] = accounts[a] \/ accounts'[a].status = "FROZEN"
      BY <2>1 DEF Status
    <2>2. ASSUME NEW r \in Requests, CancelCommit(r), req[r].acct = a
          PROVE  Honours(a)
      <3>1. /\ accounts[a].until > req[r].at /\ now <= req[r].at + 1
            /\ req[r].at \in Nat /\ accounts[a].until \in Nat
        BY <1>1, <2>0, <2>2, RequestFields, AccountFields
        DEF CancelCommit, MayCancel, IsWithinGrace, InTime
      <3>2. accounts[a] \in AccountRecord
        BY <1>1, <2>0, AccountFields
      <3>3. accounts'[a] = [accounts[a] EXCEPT !.status = "ACTIVE",
                                               !.until = 0]
        BY <1>1, <2>0, <2>2 DEF Shapes, CancelCommit
      <3>4. accounts'[a].status = "ACTIVE"
        BY <3>2, <3>3 DEF AccountRecord
      <3> QED BY <2>0, <3>1, <3>4
    <2>3. CASE SweepCommit /\ sweep.acct = a
      <3>1. /\ Status(a) = "FROZEN" /\ accounts[a].until <= sweep.at
            /\ sweep.at <= now /\ sweep.at \in Nat /\ accounts[a].until \in Nat
        BY <1>1, <2>0, <2>3, SweepFields, AccountFields
        DEF SweepCommit, SweepHolds, InTime
      <3>2. accounts'[a].status = "ANONYMIZED"
        BY <1>1, <2>0, <2>3 DEF Shapes, SweepCommit
      <3> QED BY <2>0, <3>1, <3>2
    <2> QED BY <1>1, <2>1, <2>2, <2>3, StatusMoves
  <1>2. LedgerInv /\ [Next]_vars =>
          [\A a \in DOMAIN accounts :
             /\ Status(a)' = "ANONYMIZED" /\ Status(a) # "ANONYMIZED"
                  => Status(a) = "FROZEN" /\ now >= accounts[a].until
             /\ Status(a)' = "ACTIVE" /\ Status(a) = "FROZEN"
                  => now <= accounts[a].until]_vars
    BY <1>1 DEF LedgerInv, Status
  <1> QED BY <1>2, LedgerInvariant, PTL DEF Spec, GraceHonoured
=============================================================================
