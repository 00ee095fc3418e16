------------------------------ MODULE Migracao ------------------------------
(***************************************************************************)
(* The life of an installation's database: releases bring migrations, and  *)
(* an operator may revert the last one (migration:run, migration:revert).  *)
(* Each migration is atomic: TypeORM runs it in a transaction, and one     *)
(* that fails changes nothing.                                             *)
(*                                                                         *)
(* There are two kinds of installation.  A new one starts empty.  One that *)
(* had run the first version of CreateSchedulesBase has the agenda tables  *)
(* with the old names, the ones the down() of the two corrections that     *)
(* follow it give back.                                                    *)
(***************************************************************************)
EXTENDS MigracoesAtendimento, Entidades, Rotas

CONSTANT Origens    \* the kinds of installation considered: "nova", "primeira_agenda"

VARIABLES nivel,    \* how many migrations are applied
          esquema   \* the schema they left

varsMigracao == <<nivel, esquema>>

Ultimo == Len(Migracoes)
NivelAgenda == CHOOSE k \in 1..Ultimo : Migracoes[k] = CreateSchedulesBase1789970000000

\* Limpo[k + 1]: the schema after the first k migrations on an empty database.
Limpo == FoldLeft(LAMBDA hist, m : Append(hist, Aplica(Last(hist), m.up, FALSE)),
                  <<Vazio>>, Migracoes)

\* The schema the first version of CreateSchedulesBase left, and that schema after
\* the first correction.
SegundaAgenda == Aplica(Limpo[NivelAgenda + 3], UsarEnglishCoreNaAgenda1789990000000.down, FALSE)
PrimeiraAgenda == Aplica(SegundaAgenda, CorrigirNotificacoesAgenda1789980000000.down, FALSE)

InitMigracao ==
    \/ /\ "nova" \in Origens
       /\ nivel = 0
       /\ esquema = Vazio
    \/ /\ "primeira_agenda" \in Origens
       /\ nivel = NivelAgenda
       /\ esquema = PrimeiraAgenda

\* `recusa`: the data is such that a migration that looks at it stops.
Migra(recusa) ==
    /\ nivel < Ultimo
    /\ LET novo == Aplica(esquema, Migracoes[nivel + 1].up, recusa)
       IN novo.ok /\ esquema' = novo
    /\ nivel' = nivel + 1

Reverte(recusa) ==
    /\ nivel > 0
    /\ LET novo == Aplica(esquema, Migracoes[nivel].down, recusa)
       IN novo.ok /\ esquema' = novo
    /\ nivel' = nivel - 1

NextMigracao == \E recusa \in BOOLEAN : Migra(recusa) \/ Reverte(recusa)

SpecMigracao == InitMigracao /\ [][NextMigracao]_varsMigracao

-----------------------------------------------------------------------------
\* A foreign key and a grant name what exists.
EsquemaInteiro ==
    /\ nivel \in 0..Ultimo /\ esquema.ok
    /\ \A f \in esquema.fk : {f.de, f.para} \subseteq Tabelas(esquema)
    /\ \A c \in esquema.gp : c[2] \in DOMAIN esquema.perm

(***************************************************************************)
(* The schema, the permission catalogue and the grants of the system       *)
(* groups depend on the level alone: reverting and migrating again, from   *)
(* either kind of installation, ends where a new database ends.  Only      *)
(* between the agenda and its two corrections may the old names stand; at  *)
(* no level does a key or a grant name what is not there.                  *)
(***************************************************************************)
EsquemaDoNivel ==
    /\ EsquemaInteiro
    /\ esquema \in {Limpo[nivel + 1]}
          \cup (IF nivel = NivelAgenda THEN {PrimeiraAgenda} ELSE {})
          \cup (IF nivel = NivelAgenda + 1 THEN {SegundaAgenda} ELSE {})

(***************************************************************************)
(* At the last level every entity finds its columns and gives a value to   *)
(* each column the database demands.  The columns an entity may leave out  *)
(* although the database demands them are exactly those listed: the code   *)
(* that inserts these rows has to give them.                               *)
(***************************************************************************)
DemandadasDeQuemInsere == {
    <<"supports", "data_referencia">>, <<"supports", "hora_inicio">>, <<"supports", "hora_fim">>,
    <<"services", "service_price">>, <<"support_services", "service_fee">>,
    <<"log_sistema", "user_id">>, <<"user_refresh_tokens", "expires_at">>,
    <<"support_chat_messages", "from_me">>}
EntidadesCabem ==
    nivel = Ultimo =>
        /\ \A e \in TodasAsEntidades : Faltas(e, esquema) = {}
        /\ UNION {Abandonadas(e, esquema) : e \in TodasAsEntidades} = DemandadasDeQuemInsere

(***************************************************************************)
(* At the last level the catalogue of permissions has every name a route   *)
(* asks for, the group Administrador opens every route that is not         *)
(* reserved to the master user, and no route is declared after one that    *)
(* takes all its requests.                                                 *)
(***************************************************************************)
NomesDe(g) == {esquema.perm[c[2]].nome : c \in {d \in esquema.gp : d[1] = g}}
AdministradorAbreTudo ==
    nivel = Ultimo =>
        /\ \A r \in TodasAsRotas :
            r.guarda \in {"permissao", "sem_permissao"} =>
                /\ r.permissoes \subseteq NomesDe(Administrador)
                /\ Ativa(r, FALSE, NomesDe(Administrador))
        /\ \A c \in Controladores : \A i, j \in DOMAIN c : i < j => ~Encobre(c[i], c[j])

(***************************************************************************)
(* A database that the releases have brought up to date, by whatever way,  *)
(* serves the program: its entities fit and its routes can be opened.      *)
(***************************************************************************)
AplicacaoServida == EntidadesCabem /\ AdministradorAbreTudo

(***************************************************************************)
(* The last migration can be reverted, whatever releases and reversions    *)
(* came before, with three exceptions: the one that says it cannot; the    *)
(* first correction of the agenda where it had nothing to correct, as its  *)
(* down() renames what only the first version had; and the agenda while    *)
(* the tables have the names of that version, which its down() does not    *)
(* know.  Reverting stops there for good.                                  *)
(***************************************************************************)
Irreversiveis == {k \in 1..Ultimo : Migracoes[k] = RemoveIntegrationsModule1789740000000}
PodeReverter == Aplica(esquema, Migracoes[nivel].down, FALSE).ok
ReversaoSoParaNaAgenda ==
    nivel > 0 =>
        (PodeReverter <=> ~(nivel \in Irreversiveis
                            \/ (nivel = NivelAgenda /\ esquema = PrimeiraAgenda)
                            \/ (nivel = NivelAgenda + 1 /\ esquema = Limpo[nivel + 1])))

=============================================================================
