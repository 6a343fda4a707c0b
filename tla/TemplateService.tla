-------------------------- MODULE TemplateService --------------------------
(***************************************************************************)
(* What getblocktemplate promises its callers, without the template cache: *)
(* every answer is either an error or a template built on the tip of the   *)
(* moment it is given, for the segwit support the caller asked for, paying *)
(* a valid wallet address or keypool key, with a longpollid naming that    *)
(* tip and a mempool counter not ahead of the mempool.  A long-poll is     *)
(* answered only once the tip or the mempool moved past its longpollid.    *)
(* GetBlockTemplate implements this specification (GetBlockTemplate_proofs).*)
(***************************************************************************)
EXTENDS Integers

CONSTANTS Clients, Addrs, BadAddrs, NoAddr, NULL, MaxTip, MaxTxUpd, MaxTime

VARIABLES tip, txUpd, clock, pc, req, watched, lpid, resp

vars == <<tip, txUpd, clock, pc, req, watched, lpid, resp>>

NoTemplate == [prev |-> NULL, payee |-> NoAddr, segwit |-> FALSE]
NoLp == [tip |-> NULL, txupd |-> 0]
Requests == [addr : Addrs \cup {NoAddr}, segwit : BOOLEAN]
Payees == (Addrs \ BadAddrs) \cup {NoAddr}

\* Client c gets an answer to request r: a template on the current tip with
\* its segwit support and some payee, or an error.
Answer(c, r) ==
  /\ pc' = [pc EXCEPT ![c] = "idle"]
  /\ \/ \E a \in Payees, n \in 0..txUpd :
          /\ resp' = [resp EXCEPT ![c] = [prev |-> tip, payee |-> a, segwit |-> r.segwit]]
          /\ lpid' = [lpid EXCEPT ![c] = [tip |-> tip, txupd |-> n]]
     \/ /\ resp' = [resp EXCEPT ![c] = NoTemplate]
        /\ lpid' = [lpid EXCEPT ![c] = NoLp]

Request(c, r) ==
  /\ pc[c] = "idle"
  /\ req' = [req EXCEPT ![c] = r]
  /\ Answer(c, r)
  /\ UNCHANGED <<tip, txUpd, clock, watched>>

StartLongpoll(c, r) ==
  /\ pc[c] = "idle"
  /\ lpid[c] # NoLp
  /\ req' = [req EXCEPT ![c] = r]
  /\ watched' = [watched EXCEPT ![c] = lpid[c]]
  /\ pc' = [pc EXCEPT ![c] = "wait"]
  /\ UNCHANGED <<tip, txUpd, clock, lpid, resp>>

LongpollWake(c) ==
  /\ pc[c] = "wait"
  /\ tip # watched[c].tip \/ txUpd # watched[c].txupd
  /\ Answer(c, req[c])
  /\ UNCHANGED <<tip, txUpd, clock, req, watched>>

Environment ==
  /\ \/ tip < MaxTip /\ tip' = tip + 1 /\ UNCHANGED <<txUpd, clock>>
     \/ txUpd < MaxTxUpd /\ txUpd' = txUpd + 1 /\ UNCHANGED <<tip, clock>>
     \/ clock < MaxTime /\ clock' = clock + 1 /\ UNCHANGED <<tip, txUpd>>
  /\ UNCHANGED <<pc, req, watched, lpid, resp>>

Init ==
  /\ tip = 0 /\ txUpd = 0 /\ clock = 0
  /\ pc = [c \in Clients |-> "idle"]
  /\ req = [c \in Clients |-> [addr |-> NoAddr, segwit |-> FALSE]]
  /\ watched = [c \in Clients |-> NoLp]
  /\ lpid = [c \in Clients |-> NoLp]
  /\ resp = [c \in Clients |-> NoTemplate]

Next ==
  \/ \E c \in Clients, r \in Requests : Request(c, r) \/ StartLongpoll(c, r)
  \/ \E c \in Clients : LongpollWake(c)
  \/ Environment

Spec == Init /\ [][Next]_vars

=============================================================================
