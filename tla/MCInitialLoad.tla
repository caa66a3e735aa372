---------------------------- MODULE MCInitialLoad ----------------------------
EXTENDS InitialLoad

MCNames == {"x", "y", "z", "w"}

R(line, tab, key, refs) ==
    [line |-> line, tab |-> tab, import |-> "sim", name |-> "x", key |-> key, refs |-> refs,
     wrong |-> "nothing"]

(* One row of each tab. *)
Full == {R(1, "bancos", "x", {}),
         R(3, "contas", "x", {<<"bancos", "x">>}),
         R(5, "cartoes", "x", {<<"bancos", "x">>, <<"contas", "x">>}),
         R(7, "tipos_despesa", "x", {}),
         R(9, "despesas_fixas", "x", {<<"contas", "x">>, <<"tipos_despesa", "x">>}),
         R(11, "despesas_parceladas", "w", {<<"cartoes", "x">>, <<"tipos_despesa", "x">>}),
         R(13, "faturas_em_aberto", "y", {<<"cartoes", "x">>, <<"tipos_despesa", "x">>}),
         R(15, "recebimentos", "z", {<<"contas", "x">>, <<"tipos_receita", "x">>})}

(* One row ignored or wrong, or an expense of two targets; or one more     *)
(* row, which repeats the key or the name of another.                      *)
Changed(x) ==
    {[x EXCEPT !.import = i] : i \in {"nao", "?"}}
    \cup {[x EXCEPT !.wrong = w] : w \in {"field", "name"}}
    \cup (IF x.tab \in Expenses THEN {[x EXCEPT !.refs = @ \cup {<<"cartoes", "x">>, <<"contas", "x">>}]}
          ELSE {})
Repeats(x) ==
    {[x EXCEPT !.line = @ + 1, !.name = "y"]}
    \cup (IF x.tab \in Catalogue THEN {[x EXCEPT !.line = @ + 1, !.key = "y"]} ELSE {})

MCSheets ==
    [complete : BOOLEAN, rows : {Full}]
    \cup UNION {[complete : {TRUE}, rows : {(Full \ {x}) \cup {y} : y \in Changed(x)}
                                        \cup {Full \cup {y} : y \in Repeats(x)}] : x \in Full}

(* The bank, the expense type and the earning type may be there already. *)
MCInitial ==
    {[r \in Record |->
        CASE r = <<"bancos", "x">> -> bank
          [] r = <<"tipos_despesa", "x">> -> type
          [] r = <<"tipos_despesa", "y">> -> "active"
          [] r = <<"tipos_receita", "x">> -> earningType
          [] OTHER -> "absent"] :
      <<bank, type, earningType>> \in {<<"absent", "absent", "active">>,
                                       <<"active", "archived", "active">>,
                                       <<"absent", "active", "archived">>}}
=============================================================================
