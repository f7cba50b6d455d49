----------------------------- MODULE TargetWrite -----------------------------
(***************************************************************************)
(* One write at a target system, its preview and its compensation, as the  *)
(* connectors perform them under one idempotency key.  The target systems  *)
(* are those the repository has a fake of, which is what their part is     *)
(* translated from; they differ in what makes a repeated write harmless:   *)
(*   sap, odoo, bc, b1        the key is a field of the document, looked   *)
(*                            for before it is created                     *)
(*   netsuite, dataverse      the key addresses the document               *)
(*   xero, qbo                the provider remembers the key               *)
(*   postgres                 the row's key, ON CONFLICT DO NOTHING        *)
(*   salesforce, hubspot,     an update: the values the record has are     *)
(*   shop, stripe             read, then replaced; the undo puts them back *)
(*                                                                         *)
(* The write guard lets one attempt at a time reach the connector and      *)
(* repeats it until the result is stored (module WriteGuard).  A request   *)
(* whose answer is lost was carried out or never will be.                  *)
(***************************************************************************)
EXTENDS Naturals, FiniteSetsExt

CONSTANTS
  Target,       \* the target systems checked
  MaxTries      \* bound: attempts, of the write and of the undo together

LookedUp == {"bc", "b1"}
Updated == {"salesforce", "hubspot", "shop", "stripe"}
RestTarget == LookedUp \cup {"netsuite", "dataverse", "xero", "qbo",
                             "hubspot", "shop", "stripe"}

ASSUME TargetWriteAssumption ==
  /\ Target \subseteq RestTarget \cup {"sap", "odoo", "postgres", "salesforce"}
  /\ MaxTries \in Nat

VARIABLES
  target,
  request,    \* "ok", or refused by the connector or by the target
  preview,    \* what Simulate said
  docs,       \* the documents (or rows) the write has created and not undone
  known,      \* the document the provider keeps for the key, 0: none
  value,      \* an update: the record's value
  att,        \* the attempt under way
  result,     \* the result the guard has stored
  readBack,   \* what Confirm said
  undoSt,     \* how the compensation went
  tries,
  unheard     \* history: an effect whose result was never stored

storeVars == <<docs, known, value>>
targetVars == <<target, request, preview, storeVars, att, result, readBack, undoSt, tries,
                unheard>>

NoDoc == 0
Result == [doc: 0..MaxTries, prev: {"old", "new"}]
NoResult == [doc |-> NoDoc, prev |-> "old"]
Attempt(pc, doc, prev) == [pc |-> pc, res |-> [doc |-> doc, prev |-> prev]]
IdleAttempt == Attempt("idle", NoDoc, "old")

TargetWriteTypeOK ==
  /\ target \in Target
  /\ request \in {"ok", "malformed", "unacceptable"}
  /\ preview \in {"none", "ok", "refused"}
  /\ docs \subseteq 1..MaxTries /\ known \in 0..MaxTries
  /\ value \in {"old", "new"}
  /\ att \in [pc: {"idle", "send", "answered", "stored", "over", "refused"}, res: Result]
  /\ result \in Result
  /\ readBack \in {"none", "yes", "no"}
  /\ undoSt \in {"none", "done", "failed"} /\ tries \in 0..MaxTries
  /\ unheard \in BOOLEAN

TargetWriteInit ==
  /\ target \in Target
  /\ request \in {"ok", "malformed", "unacceptable"}
  /\ preview = "none" /\ docs = {} /\ known = NoDoc /\ value = "old"
  /\ att = IdleAttempt /\ result = NoResult
  /\ readBack = "none" /\ undoSt = "none" /\ tries = 0
  /\ unheard = FALSE

Try == tries < MaxTries /\ tries' = tries + 1

-----------------------------------------------------------------------------
(* Building the request.  ErrInvalid ends the write: it is not repeated. *)

SapRefuses == target = "sap" /\ request = "malformed"
OdooRefuses == target = "odoo" /\ request = "malformed"
RestRefuses == target \in RestTarget /\ request = "malformed"
SalesforceRefuses == target = "salesforce" /\ request = "malformed"
PostgresRefuses == target = "postgres" /\ request = "malformed"
Refuses == \/ SapRefuses \/ OdooRefuses \/ RestRefuses
           \/ SalesforceRefuses \/ PostgresRefuses

\* Simulate: SAP's, Odoo's and Postgres's run the target's own checks; the
\* others only build the request.  None has an effect.
SapSimulate == target = "sap" /\ request = "ok"
OdooSimulate == target = "odoo" /\ request = "ok"
PostgresSimulate == target = "postgres" /\ request = "ok"
RestSimulate == target \in RestTarget /\ ~RestRefuses
SalesforceSimulate == target = "salesforce" /\ ~SalesforceRefuses

Simulates ==
  /\ preview = "none" /\ tries = 0
  /\ preview' = IF \/ SapSimulate \/ OdooSimulate \/ PostgresSimulate
                   \/ RestSimulate \/ SalesforceSimulate
                THEN "ok" ELSE "refused"
  /\ UNCHANGED <<target, request, storeVars, att, result, readBack, undoSt, tries,
                 unheard>>

-----------------------------------------------------------------------------
(* Commit. *)

\* The documents that carry the key.
SapExisting == IF target = "sap" THEN docs ELSE {}
OdooExisting == IF target = "odoo" THEN docs ELSE {}
RestExisting == IF target \in LookedUp THEN docs ELSE {}

FoundNever == {}
Found == SapExisting \cup OdooExisting \cup RestExisting

\* Up to the request: the lookup of the key, or the values to put back
\* later.  A write whose preview was refused is not committed.
Begins ==
  /\ att.pc = "idle" /\ preview = "ok" /\ Try
  /\ att' = IF Refuses THEN Attempt("refused", NoDoc, "old")
            ELSE IF Found # {} THEN Attempt("answered", Min(Found), "old")
            ELSE Attempt("send", NoDoc, value)
  /\ UNCHANGED <<target, request, preview, storeVars, result, readBack, undoSt, unheard>>

-----------------------------------------------------------------------------
(* What the target does with the request. *)

Creates == docs' = docs \cup {tries} /\ known' = tries /\ UNCHANGED value
Keeps == UNCHANGED storeVars
Replaces == value' = "new" /\ UNCHANGED <<docs, known>>

\* These create a document whenever they are asked to.
S4Creates == target = "sap" /\ Creates
OdooCreates == target = "odoo" /\ Creates
BcCreates == target = "bc" /\ Creates
B1Creates == target = "b1" /\ Creates

\* The document the key addresses is created, or written again.
NetsuiteUpserts ==
  target = "netsuite" /\ IF docs = {} THEN Creates ELSE Keeps
DataverseUpserts ==
  target = "dataverse" /\ IF docs = {} THEN Creates ELSE Keeps

\* A key seen before gets the first answer.
XeroCreates == target = "xero" /\ IF known = NoDoc THEN Creates ELSE Keeps
QboCreates == target = "qbo" /\ IF known = NoDoc THEN Creates ELSE Keeps

PostgresInserts == target = "postgres" /\ IF docs = {} THEN Creates ELSE Keeps

SalesforcePatches == target = "salesforce" /\ Replaces
HubspotUpdates == target = "hubspot" /\ Replaces
ShopUpdates == target = "shop" /\ Replaces
StripeUpdates ==
  /\ target = "stripe"
  /\ IF known = NoDoc THEN value' = "new" /\ known' = tries /\ UNCHANGED docs
     ELSE Keeps

Effect ==
  /\ request = "ok"
  /\ \/ S4Creates \/ OdooCreates \/ BcCreates \/ B1Creates
     \/ NetsuiteUpserts \/ DataverseUpserts \/ XeroCreates \/ QboCreates
     \/ PostgresInserts
     \/ SalesforcePatches \/ HubspotUpdates \/ ShopUpdates \/ StripeUpdates

AnswersWith == CASE target \in Updated -> NoDoc
                 [] target \in {"netsuite", "dataverse", "postgres"} -> Min(docs')
                 [] OTHER -> known'

Writes ==
  /\ att.pc = "send"
  /\ Effect
  /\ att' = Attempt("answered", AnswersWith, att.res.prev)
  /\ UNCHANGED <<target, request, preview, result, readBack, undoSt, tries, unheard>>

\* The target did the work; the connector sees an error.
AnswerLost ==
  /\ att.pc = "send"
  /\ Effect
  /\ att' = IdleAttempt /\ unheard' = TRUE
  /\ UNCHANGED <<target, request, preview, result, readBack, undoSt, tries>>

\* The request failed, or a call before it did; or the target refuses it,
\* which is permanent.
WriteFails ==
  /\ att.pc = "send"
  /\ att' \in IF request = "ok" THEN {IdleAttempt}
              ELSE {IdleAttempt, Attempt("refused", NoDoc, "old")}
  /\ UNCHANGED <<target, request, preview, storeVars, result, readBack, undoSt, tries,
                 unheard>>

\* The guard stores the result, or could not and tries again.
Stores ==
  /\ att.pc = "answered"
  /\ \/ /\ result' = att.res /\ att' = [att EXCEPT !.pc = "stored"]
        /\ UNCHANGED unheard
     \/ /\ att' = IdleAttempt /\ unheard' = TRUE
        /\ UNCHANGED result
  /\ UNCHANGED <<target, request, preview, storeVars, readBack, undoSt, tries>>

-----------------------------------------------------------------------------
(* Confirm: the document, the row or the values are read back, by the call *)
(* that stored the result, unless its worker dies first.                   *)

SapConfirms == target = "sap" /\ result.doc \in docs
OdooConfirms == target = "odoo" /\ result.doc \in docs
PostgresConfirms == target = "postgres" /\ result.doc \in docs
SalesforceConfirms == target = "salesforce" /\ value = "new"
RestConfirms == target \in RestTarget /\ (target \in Updated => value = "new")

Confirm ==
  /\ att.pc = "stored"
  /\ att' = [att EXCEPT !.pc = "over"]
  /\ readBack' = IF \/ SapConfirms \/ OdooConfirms \/ PostgresConfirms
                    \/ SalesforceConfirms \/ RestConfirms
                 THEN "yes" ELSE "no"
  /\ UNCHANGED <<target, request, preview, storeVars, result, undoSt, tries, unheard>>

-----------------------------------------------------------------------------
(* The compensation, by the stored result. *)

UndoEffect ==
  IF target \in Updated
    THEN value' = result.prev /\ UNCHANGED docs
    ELSE docs' = docs \ {result.doc} /\ UNCHANGED value

\* What the undo of a document that is gone reports.  SAP's and Odoo's take
\* it for done, Xero remembers the key of the first undo.  Elsewhere it is a
\* permanent error: no such row, 404, a document that is closed (Business
\* One) or that another version replaced (QuickBooks).
SapDelete == target = "sap"
OdooCancel == target = "odoo"
XeroVoid == target = "xero"
DocumentGone == target \notin Updated /\ result.doc \notin docs

StartsUndo ==
  /\ att.pc \in {"stored", "over"} /\ undoSt # "done" /\ Try
  /\ att' = [att EXCEPT !.pc = "over"]

Undo ==
  /\ StartsUndo
  /\ IF DocumentGone
       THEN /\ undoSt' = IF SapDelete \/ OdooCancel \/ XeroVoid THEN "done" ELSE "failed"
            /\ UNCHANGED <<docs, value>>
       ELSE UndoEffect /\ undoSt' = "done"
  /\ UNCHANGED <<target, request, preview, known, result, readBack, unheard>>

UndoAnswerLost ==
  /\ StartsUndo
  /\ ~DocumentGone /\ UndoEffect
  /\ UNCHANGED <<target, request, preview, known, result, readBack, undoSt, unheard>>

TargetWriteNext ==
  \/ Simulates \/ Begins \/ Writes \/ AnswerLost \/ WriteFails \/ Stores
  \/ Confirm \/ Undo \/ UndoAnswerLost

TargetWriteSpec == TargetWriteInit /\ [][TargetWriteNext]_targetVars

-----------------------------------------------------------------------------
(* A write repeated under its key has one effect, and its compensation     *)
(* takes exactly that back: never two documents; a refused write, or one   *)
(* whose preview was refused, leaves nothing; what was stored reads back;  *)
(* and once the undo is reported done (or the document was found gone)     *)
(* nothing of the write is left at the target.  An update is promised the  *)
(* last only if the attempt whose result was stored is the one that        *)
(* changed the record: a repeated update reads the values it wrote itself. *)
UndoRestores ==
  /\ Cardinality(docs) <= 1
  /\ preview = "refused" \/ att.pc = "refused" => docs = {} /\ value = "old"
  /\ readBack # "no"
  /\ undoSt # "none" => docs = {}
  /\ undoSt = "done" => value = "old" \/ (target \in Updated /\ unheard)

(* salesforce.go:8: "Updates capture the previous values of the fields     *)
(* they change, so the restore action can undo them exactly".  Whatever    *)
(* was lost on the way, an undo that is done has put the old values back.  *)
UpdatesUndoExactly == undoSt = "done" => value = "old"
=============================================================================
