----------------------------- MODULE TallyForms -----------------------------
(***************************************************************************)
(* The arithmetic of result forms: what makes a Form A or a Form B         *)
(* consistent in itself, and the sums by which the forms of one level are  *)
(* compared with the form of the level above.                              *)
(*                                                                         *)
(* A form is a record of counts with the votes of each candidate listed.   *)
(***************************************************************************)
EXTENDS Integers, Functions

\* The sum of the values of a function.
Total(value) == FoldFunction(LAMBDA x, y : x + y, 0, value)

CandidateSum(form) == Total(form.votes)

Accounted(form) == form.valid + form.rejected + form.spoilt

Broken(rule, kept) == IF kept THEN {} ELSE {rule}

\* Mutant: the candidates' votes are not added up.
FormErrorsNoSum(form) ==
    Broken("ballots", form.issued = Accounted(form))
      \cup Broken("turnout", form.valid <= form.registered)

\* The rules that a Form B breaks; an inconsistent form is stored all the
\* same, with an alert.
FormErrors(form) ==
    Broken("ballots", form.issued = Accounted(form))
      \cup Broken("candidates", CandidateSum(form) = form.valid)
      \cup Broken("turnout", form.valid <= form.registered)
      \cup Broken("negative",
             /\ form.issued >= 0 /\ form.valid >= 0
             /\ form.rejected >= 0 /\ form.spoilt >= 0
             /\ \A c \in DOMAIN form.votes : form.votes[c] >= 0)

\* The verdict stored with a Form A: the first rule it breaks.
TallyStatus(form) ==
    IF form.issued > form.registered THEN "TURNOUT_EXCEEDED"
    ELSE IF form.issued # Accounted(form) THEN "INTERNAL_MISMATCH"
    ELSE IF CandidateSum(form) # form.valid THEN "CANDIDATE_SUM_MISMATCH"
    ELSE "VALID"

\* A candidate a form does not list got nothing.
VotesFor(form, c) == IF c \in DOMAIN form.votes THEN form.votes[c] ELSE 0

\* The columns of a form in which it differs from the sum of the forms below it;
\* candidates are compared one by one as far as the upper form lists them.
Deltas(form, below) ==
    {col \in {"valid", "issued"} :
        form[col] # Total([f \in DOMAIN below |-> below[f][col]])}
      \cup {c \in DOMAIN form.votes :
              form.votes[c] # Total([f \in DOMAIN below |-> VotesFor(below[f], c)])}

=============================================================================
