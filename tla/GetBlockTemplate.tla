------------------------- MODULE GetBlockTemplate -------------------------
(***************************************************************************)
(* getblocktemplate (src/unnamed/part_000) served to concurrent mining     *)
(* clients.  Everything after the long-poll wait runs under cs_main, so a  *)
(* request is one atomic step, or two when it long-polls: the wait releases *)
(* cs_main until the tip changes, or until the timer fires with more       *)
(* mempool transactions.  The block template is cached in function         *)
(* statics (pindexPrev, nStart, pblocktemplate, nTransactionsUpdatedLast,   *)
(* fLastTemplateSupportsSegwit) shared by all callers.  It is rebuilt when *)
(* the tip moved, the mempool changed more than STALE_SECS ago, or the     *)
(* segwit support differs.  A rebuild clears pindexPrev first, and may     *)
(* fail: an invalid address, an empty keypool, or CreateNewBlock; the     *)
(* caller then gets an error and no template.                             *)
(***************************************************************************)
EXTENDS Integers

CONSTANTS
  Clients,       \* RPC callers
  Addrs,         \* wallet addresses a caller may pass as params[0]
  BadAddrs,      \* addresses that fail IsValid / GetKeyID / HaveKey
  NoAddr,        \* params[0] omitted: a fresh keypool key is used
  NULL,          \* pindexPrev == nullptr
  MaxTip,        \* bound on the number of tip changes
  MaxTxUpd,      \* bound on mempool.GetTransactionsUpdated()
  MaxTime,       \* bound on GetTime()
  STALE_SECS     \* "GetTime() - nStart > 5"

ASSUME TemplateAssumption ==
  /\ BadAddrs \subseteq Addrs /\ NoAddr \notin Addrs
  /\ MaxTip \in Nat /\ MaxTxUpd \in Nat /\ MaxTime \in Nat /\ STALE_SECS \in Nat
  /\ NULL \notin Nat

VARIABLES
  tip,            \* chainActive.Tip(), one id per block
  txUpd,          \* mempool.GetTransactionsUpdated()
  clock,          \* GetTime()
  pindexPrev,     \* static: tip the cached template was built on, or NULL
  nStart,         \* static
  nTxUpdLast,     \* static nTransactionsUpdatedLast
  fLastSegwit,    \* static fLastTemplateSupportsSegwit
  tmpl,           \* static pblocktemplate (its prev block, payee and segwit)
  pc,             \* per client: "idle", "wait" (long-polling) or "busy"
  req,            \* per client: the request being served
  watched,        \* per client: hashWatchedChain / nTransactionsUpdatedLastLP
  lpid,           \* per client: the longpollid of its last response, or none
  resp            \* per client: the template of its last response, or none

vars == <<tip, txUpd, clock, pindexPrev, nStart, nTxUpdLast, fLastSegwit, tmpl,
          pc, req, watched, lpid, resp>>
cacheVars == <<pindexPrev, nStart, nTxUpdLast, fLastSegwit, tmpl>>

NoTemplate == [prev |-> NULL, payee |-> NoAddr, segwit |-> FALSE]
NoLp == [tip |-> NULL, txupd |-> 0]
Requests == [addr : Addrs \cup {NoAddr}, segwit : BOOLEAN]

-----------------------------------------------------------------------------
(* The template part of the handler, under cs_main.                        *)

\* Mutant: the rebuild test ignores a new tip.
NeedRebuildNoTip(r) ==
  \/ txUpd # nTxUpdLast /\ clock - nStart > STALE_SECS
  \/ fLastSegwit # r.segwit

\* The cached template is rebuilt: a new tip, a mempool changed more than
\* STALE_SECS after the last build, or a different segwit support.  The
\* requested address is not part of the test.
NeedRebuild(r) ==
  \/ pindexPrev # tip
  \/ txUpd # nTxUpdLast /\ clock - nStart > STALE_SECS
  \/ fLastSegwit # r.segwit

\* The response: the template and the longpollid
\* <tip hash><nTransactionsUpdatedLast>.
Respond(c, t, last) ==
  /\ resp' = [resp EXCEPT ![c] = t]
  /\ lpid' = [lpid EXCEPT ![c] = [tip |-> tip, txupd |-> last]]
  /\ pc' = [pc EXCEPT ![c] = "idle"]

\* Mutant: pindexPrev is not cleared before the build can fail.
RebuildFailsKeepPrev(c, r) ==
  /\ nTxUpdLast' = txUpd /\ nStart' = clock /\ fLastSegwit' = r.segwit
  /\ UNCHANGED <<pindexPrev, tmpl>>
  /\ resp' = [resp EXCEPT ![c] = NoTemplate]
  /\ lpid' = [lpid EXCEPT ![c] = NoLp]
  /\ pc' = [pc EXCEPT ![c] = "idle"]

\* A rebuild that throws after the statics were reset (invalid address,
\* keypool ran out, CreateNewBlock failed): pindexPrev stays nullptr, so
\* the next call rebuilds whatever pblocktemplate now holds (the old
\* template, or nothing after CreateNewBlock failed).
RebuildFails(c, r) ==
  /\ pindexPrev' = NULL
  /\ nTxUpdLast' = txUpd /\ nStart' = clock /\ fLastSegwit' = r.segwit
  /\ UNCHANGED tmpl
  /\ resp' = [resp EXCEPT ![c] = NoTemplate]
  /\ lpid' = [lpid EXCEPT ![c] = NoLp]
  /\ pc' = [pc EXCEPT ![c] = "idle"]

\* A rebuild that succeeds: CreateNewBlock on the tip, paying the requested
\* address or a fresh keypool key.
RebuildOK(c, r) ==
  LET t == [prev |-> tip, payee |-> r.addr, segwit |-> r.segwit]
  IN  /\ pindexPrev' = tip
      /\ nTxUpdLast' = txUpd /\ nStart' = clock /\ fLastSegwit' = r.segwit
      /\ tmpl' = t
      /\ Respond(c, t, txUpd)

\* The template part of getblocktemplate for client c and request r.
ServeTemplate(c, r) ==
  IF NeedRebuild(r)
    THEN \/ /\ r.addr \notin BadAddrs
            /\ RebuildOK(c, r)
         \/ RebuildFails(c, r)
    ELSE /\ Respond(c, tmpl, nTxUpdLast)
         /\ UNCHANGED cacheVars

-----------------------------------------------------------------------------
(* Client requests and the long-poll wait.                                 *)

\* A request without longpollid.
Request(c, r) ==
  /\ pc[c] = "idle"
  /\ req' = [req EXCEPT ![c] = r]
  /\ ServeTemplate(c, r)
  /\ UNCHANGED <<tip, txUpd, clock, watched>>

\* A request with the longpollid of the client's last response: the
\* handler leaves cs_main and waits.
StartLongpoll(c, r) ==
  /\ pc[c] = "idle"
  /\ lpid[c] # NoLp
  /\ req' = [req EXCEPT ![c] = r]
  /\ watched' = [watched EXCEPT ![c] = lpid[c]]
  /\ pc' = [pc EXCEPT ![c] = "wait"]
  /\ UNCHANGED <<tip, txUpd, clock, cacheVars, lpid, resp>>

\* Mutant: the wait ends only when the timer finds new transactions.
WaitEndsOnTimerOnly(c) == txUpd # watched[c].txupd

\* Mutant: the wait loop ends at once, whatever the tip and the mempool.
WaitEndsAlways(c) == TRUE

\* The wait loop ends: the tip is no longer the watched one, or the timer
\* fired and the mempool counter moved (cvBlockChange, timed_wait).
WaitEnds(c) ==
  \/ tip # watched[c].tip
  \/ txUpd # watched[c].txupd

\* The long-poll wakes, re-enters cs_main and serves the template.
LongpollWake(c) ==
  /\ pc[c] = "wait"
  /\ WaitEnds(c)
  /\ ServeTemplate(c, req[c])
  /\ UNCHANGED <<tip, txUpd, clock, req, watched>>

-----------------------------------------------------------------------------
(* The environment.                                                        *)

\* A block connects (ActivateBestChain; cvBlockChange is notified).
NewTip ==
  /\ tip < MaxTip
  /\ tip' = tip + 1
  /\ UNCHANGED <<txUpd, clock, cacheVars, pc, req, watched, lpid, resp>>

\* A transaction enters or leaves the mempool.
MempoolUpdate ==
  /\ txUpd < MaxTxUpd
  /\ txUpd' = txUpd + 1
  /\ UNCHANGED <<tip, clock, cacheVars, pc, req, watched, lpid, resp>>

\* A second passes.
Tick ==
  /\ clock < MaxTime
  /\ clock' = clock + 1
  /\ UNCHANGED <<tip, txUpd, cacheVars, pc, req, watched, lpid, resp>>

-----------------------------------------------------------------------------
Init ==
  /\ tip = 0 /\ txUpd = 0 /\ clock = 0
  /\ pindexPrev = NULL /\ nStart = 0 /\ nTxUpdLast = 0 /\ fLastSegwit = TRUE
  /\ tmpl = NoTemplate
  /\ pc = [c \in Clients |-> "idle"]
  /\ req = [c \in Clients |-> [addr |-> NoAddr, segwit |-> FALSE]]
  /\ watched = [c \in Clients |-> NoLp]
  /\ lpid = [c \in Clients |-> NoLp]
  /\ resp = [c \in Clients |-> NoTemplate]

Next ==
  \/ \E c \in Clients, r \in Requests : Request(c, r) \/ StartLongpoll(c, r)
  \/ \E c \in Clients : LongpollWake(c)
  \/ NewTip \/ MempoolUpdate \/ Tick

\* A woken long-poll is eventually scheduled and served.
Fairness == \A c \in Clients : WF_vars(LongpollWake(c))

Spec == Init /\ [][Next]_vars
FairSpec == Spec /\ Fairness

-----------------------------------------------------------------------------
(* Properties.                                                             *)

Templates == [prev : (0..MaxTip) \cup {NULL}, payee : Addrs \cup {NoAddr}, segwit : BOOLEAN]
Lps == [tip : (0..MaxTip) \cup {NULL}, txupd : 0..MaxTxUpd]

TypeOK ==
  /\ tip \in 0..MaxTip /\ txUpd \in 0..MaxTxUpd /\ clock \in 0..MaxTime
  /\ pindexPrev \in (0..MaxTip) \cup {NULL}
  /\ nStart \in 0..MaxTime /\ nTxUpdLast \in 0..MaxTxUpd /\ fLastSegwit \in BOOLEAN
  /\ tmpl \in Templates
  /\ pc \in [Clients -> {"idle", "wait"}]
  /\ req \in [Clients -> Requests]
  /\ watched \in [Clients -> Lps] /\ lpid \in [Clients -> Lps]
  /\ resp \in [Clients -> Templates]

Served(c) == pc[c] = "idle" /\ resp[c] # NoTemplate

\* Every template handed out is built on the block that was the tip when
\* it was handed out (the tip in its longpollid), however the callers, new
\* blocks and failed rebuilds interleave with the shared cache.
ServedOnTip == \A c \in Clients : Served(c) => resp[c].prev = lpid[c].tip

\* fLastTemplateSupportsSegwit: "avoid returning a segwit-block to a
\* non-segwit caller" - a caller gets a template built with its own segwit
\* support, even after another caller's rebuild failed half-way.
SegwitMatches == \A c \in Clients : Served(c) => resp[c].segwit = req[c].segwit

\* getblocktemplate's help: "1. address ... Address for coinbase out and
\* signature" - a caller that names an address gets a template paying it.
PayeeAsRequested ==
  \A c \in Clients : Served(c) /\ req[c].addr # NoAddr => resp[c].payee = req[c].addr

\* A long-poll whose watched tip has been replaced is answered: the block
\* change ends the wait.
LongpollWakes ==
  \A c \in Clients : (pc[c] = "wait" /\ tip # watched[c].tip) ~> pc[c] = "idle"

\* The shared cache is invisible to the callers: with the cache variables
\* hidden, getblocktemplate behaves as TemplateService - every answer is an
\* error or a template on the current tip with the caller's segwit support,
\* a valid payee and a longpollid not ahead of the mempool, and a long-poll
\* returns only after the tip or the mempool moved.
Service == INSTANCE TemplateService
ServiceSpec == Service!Spec

=============================================================================
