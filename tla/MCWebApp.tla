------------------------------ MODULE MCWebApp ------------------------------
(***************************************************************************)
(* The instance TLC checks: every form, and every class of fields.         *)
(***************************************************************************)
EXTENDS WebApp, TLC

MCWatched ==
    {<<"task", "required">>, <<"task", "list">>, <<"task", "minute">>, <<"task", "state">>,
     <<"deliverable", "state">>, <<"slot", "text">>, <<"lecture", "kind">>, <<"lecture", "state">>,
     <<"topic", "state">>, <<"course", "text">>, <<"course", "colour">>, <<"newCourse", "required">>,
     <<"notes", "text">>, <<"exam", "shifted">>, <<"exam", "choice">>}

Symmetry == Permutations(Calls)
=============================================================================
