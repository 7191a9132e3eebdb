------------------------------ MODULE Bindings ------------------------------
(***************************************************************************)
(* Who an external subject of an integration is: its link to a principal   *)
(* (external_identity_links), made by an administrator or by redeeming a   *)
(* one-time binding code that the principal has issued, and its identity   *)
(* in an actor session, a guest of its own without a link.                 *)
(*                                                                         *)
(* Issuing and redeeming are one transaction each; removing a link reads   *)
(* and deletes in two.  One integration, whose credential is the business  *)
(* of module Sessions; every principal here has an OIDC subject.           *)
(***************************************************************************)
EXTENDS Naturals, FiniteSets

CONSTANTS Subjects, Principals,
          NoOne,            \* no principal, no subject
          CodeTTL,
          MaxTime, MaxCodes \* bounds

ASSUME BindingsAssumption ==
  /\ CodeTTL \in Nat \ {0} /\ MaxTime \in Nat /\ MaxCodes \in Nat
  /\ NoOne \notin Subjects \cup Principals

VARIABLES
  now,        \* the wall clock
  codes,      \* external_binding_codes
  issued,     \* binding codes issued so far
  links,      \* external_identity_links
  unlinking,  \* an administrator's unlink between its read and its delete
  latest,     \* history: the last code of a principal and its end
  vouched,    \* history: whom an administrator or such a code stands for
  redeemed    \* history: codes and the subjects they were answered OK to

bindings == <<codes, issued, links, unlinking, latest, vouched, redeemed>>

CodeIds == 1 .. MaxCodes
NoCode == [owner |-> NoOne, expires |-> 0, consumed |-> NoOne]
NoUnlink == [subject |-> NoOne, principal |-> NoOne]

BindingsInit ==
  /\ codes = [i \in CodeIds |-> NoCode]
  /\ links \in [Subjects -> {NoOne} \cup Principals]
  /\ unlinking = NoUnlink
  /\ latest = [p \in Principals |-> [code |-> 0, expires |-> 0]]
  /\ vouched = links
  /\ redeemed = {}

-----------------------------------------------------------------------------
\* A principal has one code: the previous one is deleted.
Without(p) == [i \in CodeIds |-> IF codes[i].owner = p THEN NoCode ELSE codes[i]]

NewCode(p) == [owner |-> p, expires |-> now + CodeTTL, consumed |-> NoOne]

Issue(p) ==
  /\ issued < MaxCodes /\ issued' = issued + 1
  /\ codes' = [Without(p) EXCEPT ![issued'] = NewCode(p)]
  /\ latest' = [latest EXCEPT ![p] = [code |-> issued', expires |-> now + CodeTTL]]
  /\ UNCHANGED <<links, unlinking, vouched, redeemed>>

Live(i) == codes[i] # NoCode /\ now < codes[i].expires

\* Mutant: whose redemption it was is not compared.
ReplayedAny(i, s) == codes[i].consumed # NoOne

\* The code was consumed by this very subject: the retry of a redemption.
Replayed(i, s) == codes[i].consumed = s

\* The answer names the principal of the subject from now on.
Answered(i, s) == redeemed' = redeemed \cup {<<i, s>>}

\* The code is spent in the transaction that looks for the link, also when the
\* subject turns out to belong to somebody else.
Consume(i, s) ==
  /\ Live(i) /\ codes[i].consumed = NoOne
  /\ codes' = [codes EXCEPT ![i].consumed = s]
  /\ LET owner == codes[i].owner IN
       /\ links' = [links EXCEPT ![s] = IF @ = NoOne THEN owner ELSE @]
       /\ vouched' = IF latest[owner].code = i /\ now < latest[owner].expires
                     THEN [vouched EXCEPT ![s] = IF @ = NoOne THEN owner ELSE @]
                     ELSE vouched
       /\ IF links'[s] = owner THEN Answered(i, s) ELSE UNCHANGED redeemed
  /\ UNCHANGED <<issued, unlinking, latest>>

Replay(i, s) ==
  /\ Live(i) /\ codes[i].consumed # NoOne /\ Replayed(i, s)
  /\ links[s] = codes[i].owner
  /\ Answered(i, s)
  /\ UNCHANGED <<codes, issued, links, unlinking, latest, vouched>>

PruneCodes ==
  /\ codes' = [i \in CodeIds |-> IF codes[i].expires <= now THEN NoCode ELSE codes[i]]
  /\ codes' # codes
  /\ UNCHANGED <<issued, links, unlinking, latest, vouched, redeemed>>

-----------------------------------------------------------------------------
\* An administrator's PUT replaces what is there.
Link(s, p) ==
  /\ links' = [links EXCEPT ![s] = p]
  /\ vouched' = [vouched EXCEPT ![s] = p]
  /\ UNCHANGED <<codes, issued, unlinking, latest, redeemed>>

\* DELETE names the principal: it is compared, then the link is deleted,
\* whoever it belongs to by then.
ReadLink(s, p) ==
  /\ unlinking = NoUnlink /\ links[s] = p
  /\ unlinking' = [subject |-> s, principal |-> p]
  /\ UNCHANGED <<codes, issued, links, latest, vouched, redeemed>>

Unlink ==
  /\ unlinking # NoUnlink /\ unlinking' = NoUnlink
  /\ links' = [links EXCEPT ![unlinking.subject] = NoOne]
  /\ vouched' = [vouched EXCEPT ![unlinking.subject] = NoOne]
  /\ UNCHANGED <<codes, issued, latest, redeemed>>

Coding ==
  \/ \E p \in Principals : Issue(p)
  \/ \E i \in CodeIds, s \in Subjects : Consume(i, s) \/ Replay(i, s)
  \/ PruneCodes

Rebinding ==
  \/ \E s \in Subjects, p \in Principals : Link(s, p) \/ ReadLink(s, p)
  \/ Unlink

-----------------------------------------------------------------------------
\* A subject without a link is linked by the code that was the latest its
\* principal had issued and has not expired, a subject with one only by an
\* administrator: no retry, no second redemption and no old code changes it.
LinksVouched == links = vouched

\* A code serves one subject, however often it is redeemed and whatever happens
\* to the link in between; and every link is vouched for.
CodeServesOne ==
  /\ \A a, b \in redeemed : a[1] = b[1] => a[2] = b[2]
  /\ LinksVouched
=============================================================================
