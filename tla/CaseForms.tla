------------------------------ MODULE CaseForms ------------------------------
(***************************************************************************)
(* The form a case is opened and edited in.  It saves in two requests, the *)
(* case and then its ceiling, and stays open when either fails, to be sent *)
(* again: a case may be there whose form says that it could not be saved.  *)
(* CaseRecords has what the server asks of a case; here a case is a code   *)
(* and a ceiling.                                                          *)
(***************************************************************************)
EXTENDS Naturals, FiniteSets

CONSTANTS
    Cases, NoCase,
    Codes, NoCode,
    Limits,         \* ceilings that people type
    FormLimit,      \* what the field of a new case holds: 0,00
    BornWith,       \* TETO_DE_CUSTO_INICIAL
    Forms,
    MaxSaves        \* bound: how often the button is pressed; after that no form is opened

FormsAssumption ==
    /\ NoCase \notin Cases /\ NoCode \notin Codes
    /\ Limits \cup {FormLimit, BornWith} \subseteq Nat
    /\ MaxSaves \in Nat

VARIABLES
    cases,      \* the code of each, and its ceiling
    forms,
    renamed,    \* cases whose code was changed by a form that edits them
    saves

formVars == <<cases, forms, renamed, saves>>

Ceilings == Limits \cup {FormLimit, BornWith}
CaseRow == [code : Codes \cup {NoCode}, limit : Ceilings]

(* case: of the route; saved: of the answer; told: the ceiling in it; sent: the
   codes of the requests so far; made: the cases they made; others: somebody
   else has set the ceiling of the case since the answer; asking: the ceiling
   of the second request; late: the ceiling was typed again while that was due;
   left: the form is not in view any more. *)
Form == [step : {"closed", "open", "asked", "saved", "limiting", "done"},
         case : Cases \cup {NoCase}, code : Codes \cup {NoCode}, limit : Ceilings,
         mayLimit : BOOLEAN, saved : Cases \cup {NoCase}, told : Ceilings,
         sending : Codes \cup {NoCode}, sent : SUBSET Codes, made : SUBSET Cases, others : BOOLEAN,
         asking : Ceilings, late : BOOLEAN, left : BOOLEAN]
NewForm == [step |-> "open", case |-> NoCase, code |-> NoCode, limit |-> FormLimit,
            mayLimit |-> FALSE, saved |-> NoCase, told |-> FormLimit,
            sending |-> NoCode, sent |-> {}, made |-> {}, others |-> FALSE,
            asking |-> FormLimit, late |-> FALSE, left |-> FALSE]

(* What each variable holds. *)
FormsTyped == cases \in [Cases -> CaseRow] /\ forms \in [Forms -> Form] /\ renamed \subseteq Cases
              /\ saves \in 0 .. MaxSaves

FormsInit ==
    /\ cases = [c \in Cases |-> [code |-> NoCode, limit |-> BornWith]]
    /\ forms = [f \in Forms |-> [NewForm EXCEPT !.step = "closed"]]
    /\ renamed = {} /\ saves = 0

Becomes(f, form) == forms' = [forms EXCEPT ![f] = form]
Kept(c) == cases[c].code # NoCode

-----------------------------------------------------------------------------
(* canSetBudget is what the session may do. *)
OpenNew(f, mayLimit) ==
    /\ forms[f].step \in {"closed", "done"}
    /\ saves < MaxSaves
    /\ Becomes(f, [NewForm EXCEPT !.mayLimit = mayLimit])
    /\ UNCHANGED <<cases, renamed, saves>>

(* load and fill *)
OpenEdit(f, c, mayLimit) ==
    /\ forms[f].step \in {"closed", "done"}
    /\ saves < MaxSaves
    /\ Kept(c)
    /\ Becomes(f, [NewForm EXCEPT !.case = c, !.code = cases[c].code, !.limit = cases[c].limit,
                                  !.mayLimit = mayLimit])
    /\ UNCHANGED <<cases, renamed, saves>>

(* The case could not be loaded: the form is shown all the same, with what the
   fields of a new case hold, and may be sent. *)
OpenUnloaded(f, c, mayLimit) ==
    /\ forms[f].step \in {"closed", "done"}
    /\ saves < MaxSaves
    /\ Kept(c)
    /\ Becomes(f, [NewForm EXCEPT !.case = c, !.mayLimit = mayLimit])
    /\ UNCHANGED <<cases, renamed, saves>>

(* The fields are not disabled while an answer is due, the first or the second. *)
Editable(r) == r.step \in {"open", "asked", "limiting"} /\ ~r.left

TypeCode(f, k) ==
    /\ Editable(forms[f])
    /\ Becomes(f, [forms[f] EXCEPT !.code = k])
    /\ UNCHANGED <<cases, renamed, saves>>

TypeLimit(f, l) ==
    /\ Editable(forms[f]) /\ forms[f].mayLimit
    /\ Becomes(f, [forms[f] EXCEPT !.limit = l, !.late = @ \/ forms[f].step = "limiting"])
    /\ UNCHANGED <<cases, renamed, saves>>

(* "Cancelar" is a link: what was sent goes on without the form. *)
Leave(f) ==
    /\ Editable(forms[f])
    /\ Becomes(f, IF forms[f].step = "open" THEN [NewForm EXCEPT !.step = "closed"]
                  ELSE [forms[f] EXCEPT !.left = TRUE])
    /\ UNCHANGED <<cases, renamed, saves>>

(* save: the fields as they are now. *)
Save(f) ==
    /\ forms[f].step = "open" /\ forms[f].code # NoCode
    /\ saves < MaxSaves /\ saves' = saves + 1
    /\ Becomes(f, [forms[f] EXCEPT !.step = "asked", !.sending = forms[f].code,
                                   !.sent = @ \cup {forms[f].code}])
    /\ UNCHANGED <<cases, renamed>>

(* Mutant of Free: the form asks for a new case whatever is there. *)
FreeAlways(c, k) == TRUE

(* The index of internal_code: deleted cases keep theirs. *)
Free(c, k) == \A d \in Cases \ {c} : cases[d].code # k

(* Where a save that failed leaves the form. *)
Again(r) == IF r.left THEN "closed" ELSE "open"

(* The answer arrives, or it is lost and the form stays. *)
Saved(f, c, limit) ==
    LET made == IF forms[f].case = NoCase THEN forms[f].made \cup {c} ELSE {}
        over == [forms[f] EXCEPT !.made = made, !.sending = NoCode]
    IN  \/ Becomes(f, [over EXCEPT !.step = "saved", !.saved = c, !.told = limit, !.others = FALSE])
        \/ Becomes(f, [over EXCEPT !.step = Again(over)])

(* POST /cases *)
CreateCase(f, c) ==
    LET k == forms[f].sending IN
    /\ forms[f].step = "asked" /\ forms[f].case = NoCase
    /\ ~Kept(c) /\ Free(c, k)
    /\ cases' = [cases EXCEPT ![c].code = k]
    /\ Saved(f, c, BornWith)
    /\ UNCHANGED <<renamed, saves>>

(* PATCH /cases/:id *)
UpdateCase(f) ==
    LET c == forms[f].case
        k == forms[f].sending
    IN  /\ forms[f].step = "asked" /\ c # NoCase
        /\ Free(c, k)
        /\ cases' = [cases EXCEPT ![c].code = k]
        /\ Saved(f, c, cases[c].limit)
        /\ renamed' = IF k = cases[c].code THEN renamed ELSE renamed \cup {c}
        /\ UNCHANGED saves

(* The field is read now, after the answer. *)
AskForLimit(f) ==
    LET r == forms[f] IN
    /\ r.step = "saved"
    /\ Becomes(f, [r EXCEPT !.step = IF r.mayLimit /\ r.limit # r.told THEN "limiting" ELSE "done",
                            !.asking = r.limit, !.late = FALSE])
    /\ UNCHANGED <<cases, renamed, saves>>

(* PATCH /cases/:id/processing-budget; its answer may be lost. *)
SetLimit(f) ==
    LET r == forms[f]
        seen(g) == forms[g].step \in {"saved", "limiting", "done"} /\ forms[g].saved = r.saved
    IN  /\ r.step = "limiting"
        /\ cases' = [cases EXCEPT ![r.saved].limit = r.asking]
        /\ \E step \in {"done", Again(r)} :
             forms' = [g \in Forms |->
                 IF g = f THEN [r EXCEPT !.step = step, !.told = FormLimit, !.others = FALSE, !.asking = FormLimit]
                 ELSE [forms[g] EXCEPT !.others = @ \/ seen(g)]]
        /\ UNCHANGED <<renamed, saves>>

(* A request that is refused, for the code or for what the case has committed,
   or that does not arrive. *)
Refuse(f) ==
    /\ forms[f].step \in {"asked", "limiting"}
    /\ Becomes(f, [forms[f] EXCEPT !.step = Again(forms[f]), !.sending = NoCode, !.told = FormLimit,
                                   !.asking = FormLimit, !.late = FALSE])
    /\ UNCHANGED <<cases, renamed, saves>>

FormsNext ==
    \/ \E f \in Forms :
        \/ \E may \in BOOLEAN :
            OpenNew(f, may) \/ \E c \in Cases : OpenEdit(f, c, may) \/ OpenUnloaded(f, c, may)
        \/ \E k \in Codes : TypeCode(f, k)
        \/ \E l \in Limits : TypeLimit(f, l)
        \/ Leave(f) \/ Save(f) \/ UpdateCase(f) \/ AskForLimit(f) \/ SetLimit(f) \/ Refuse(f)
        \/ \E c \in Cases : CreateCase(f, c)

-----------------------------------------------------------------------------
(* However often a form is sent again, what it makes is one case for each code
   it was sent with, but for cases that were given another code since: who only
   presses the button again opens no second case. *)
OneCasePerCode ==
    \A f \in Forms : Cardinality(forms[f].made \ renamed) <= Cardinality(forms[f].sent)

(* A form that has closed left the ceiling it shows, which is 0,00 for a new
   case, and for one that could not be loaded, if nobody typed one.  Not so if
   somebody else has set it since; nor if it was typed again while the second
   request was due: what CaseFormView.vue:193 sent stays, and the form closes
   on what it shows. *)
CeilingIsAsShown ==
    \A f \in Forms :
        forms[f].step = "done" /\ forms[f].mayLimit /\ ~forms[f].others /\ ~forms[f].late =>
            cases[forms[f].saved].limit = forms[f].limit

FormsAreFaithful == FormsTyped /\ OneCasePerCode /\ CeilingIsAsShown
==============================================================================
