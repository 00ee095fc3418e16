------------------------------- MODULE Links -------------------------------
(***************************************************************************)
(* The links a user gets by e-mail: to reset the password (password-reset) *)
(* and to accept an invitation (user-invites), which share their life.     *)
(* Asking for one invalidates the pending ones and inserts the new one in  *)
(* one transaction, under READ COMMITTED; using one reads it outside the   *)
(* transaction that consumes it.  Links are named by the order of their    *)
(* commits, and `passo` orders what the properties compare.                *)
(***************************************************************************)
EXTENDS Naturals, FiniteSets

CONSTANTS Solicitantes,   \* requests that may be in flight at once
          MaxLink,        \* bound: links asked for
          MaxUso          \* bound: passwords set by links

VARIABLES links,          \* [id, tipo, usado, vencido, recebido, de, gasto]
          curso,          \* what each request read, and where it stands
          passo,          \* (history) invalidations, commits and uses, in order
          usos            \* how many passwords links have set

varsLinks == <<links, curso, passo, usos>>

Tipos == {"senha", "convite"}
Parado == [pc |-> "livre"]

\* A link that redefinir, aceitar and validar take for good.
Serve(l) == ~l.usado /\ ~l.vencido

(***************************************************************************)
(* Init: addUser created the user and its invitation in one transaction;   *)
(* the e-mail that follows may have failed, which is only logged.          *)
(***************************************************************************)
InitLinks ==
    /\ \E recebido \in BOOLEAN :
          links = {[id |-> 1, tipo |-> "convite", usado |-> FALSE, vencido |-> FALSE,
                    recebido |-> recebido, de |-> 0, gasto |-> 0]}
    /\ curso = [r \in Solicitantes |-> Parado]
    /\ passo = 1
    /\ usos = 0

Pediram == Cardinality(links) + Cardinality({r \in Solicitantes : curso[r].pc \in {"link", "pendentes"}})

\* solicitar, reenviar and gerarLink, before their transaction.
PedeLink(r, tipo) ==
    /\ curso[r].pc = "livre"
    /\ Pediram < MaxLink
    /\ curso' = [curso EXCEPT ![r] = [pc |-> "link", tipo |-> tipo]]
    /\ UNCHANGED <<links, passo, usos>>

\* The rows invalidaPendentes matches.
Pendentes(tipo) == {l \in links : l.tipo = tipo /\ ~l.usado}

\* invalidaPendentes: the UPDATE marks the rows its snapshot has.
InvalidaPendentes(r) ==
    /\ curso[r].pc = "link"
    /\ curso' = [curso EXCEPT ![r] = [pc |-> "pendentes", tipo |-> curso[r].tipo, de |-> passo + 1,
                                      mortos |-> {l.id : l \in Pendentes(curso[r].tipo)}]]
    /\ passo' = passo + 1
    /\ UNCHANGED <<links, usos>>

\* The transaction commits.  The e-mail that follows it may fail: the link is in the
\* database and nobody has it.
CriaLink(r, recebido) ==
    /\ curso[r].pc = "pendentes"
    /\ passo' = passo + 1
    /\ links' = {[l EXCEPT !.usado = @ \/ l.id \in curso[r].mortos] : l \in links}
                \cup {[id |-> passo + 1, tipo |-> curso[r].tipo, usado |-> FALSE, vencido |-> FALSE,
                       recebido |-> recebido, de |-> curso[r].de, gasto |-> 0]}
    /\ curso' = [curso EXCEPT ![r] = Parado]
    /\ UNCHANGED usos

VenceLink(l) ==
    /\ ~l.vencido
    /\ links' = (links \ {l}) \cup {[l EXCEPT !.vencido = TRUE]}
    /\ UNCHANGED <<curso, passo, usos>>

\* (mutant) The expiry alone is looked at.
NoPrazo(l) == ~l.vencido

\* The conditions of redefinir and aceitar.
Aproveitavel(l) == Serve(l)

\* redefinir and aceitar: the link is read and found good.
AbreLink(r, l) ==
    /\ curso[r].pc = "livre"
    /\ l.recebido /\ Aproveitavel(l)
    /\ usos < MaxUso
    /\ curso' = [curso EXCEPT ![r] = [pc |-> "usa", id |-> l.id, leu |-> passo]]
    /\ UNCHANGED <<links, passo, usos>>

PrimeiroGasto(l) == IF l.gasto = 0 THEN passo + 1 ELSE l.gasto
Gasto(l) == [l EXCEPT !.usado = TRUE, !.gasto = PrimeiroGasto(l)]

\* The transaction sets the password and marks the link, whether or not it still serves.
UsaLink(r) ==
    /\ curso[r].pc = "usa"
    /\ usos < MaxUso
    /\ passo' = passo + 1
    /\ usos' = usos + 1
    /\ links' = {IF l.id = curso[r].id THEN Gasto(l) ELSE l : l \in links}
    /\ curso' = [curso EXCEPT ![r] = Parado]

NextLinks ==
    \/ \E r \in Solicitantes :
          \/ \E tipo \in Tipos : PedeLink(r, tipo)
          \/ InvalidaPendentes(r)
          \/ \E recebido \in BOOLEAN : CriaLink(r, recebido)
          \/ \E l \in links : AbreLink(r, l)
          \/ UsaLink(r)
    \/ \E l \in links : VenceLink(l)

SpecLinks == InitLinks /\ [][NextLinks]_varsLinks

-----------------------------------------------------------------------------
Link == [id : Nat, tipo : Tipos, usado : BOOLEAN, vencido : BOOLEAN, recebido : BOOLEAN,
         de : Nat, gasto : Nat]

EmCurso == {Parado}
    \cup [pc : {"link"}, tipo : Tipos]
    \cup [pc : {"pendentes"}, tipo : Tipos, de : Nat, mortos : SUBSET Nat]
    \cup [pc : {"usa"}, id : Nat, leu : Nat]

\* The typing of the state; the order of the commits names the links.
TypeOKLinks ==
    /\ passo \in Nat /\ usos \in Nat
    /\ curso \in [Solicitantes -> EmCurso] /\ links \subseteq Link
    /\ \A l \in links : l.de < l.id /\ l.id <= passo
    /\ \A l, k \in links : l.id = k.id => l = k

(***************************************************************************)
(* Two links of one kind serve at once only when the second was asked for  *)
(* before the first was committed: each request kills every link that was  *)
(* there when it began (invalidaPendentes).                                *)
(***************************************************************************)
DoisLinksSoSobrepostos ==
    \A l, k \in links :
        l.tipo = k.tipo /\ l.id < k.id /\ Serve(l) /\ Serve(k) => k.de < l.id

(***************************************************************************)
(* A link sets a second password, or sets one after a newer link of its    *)
(* kind was committed, only for a request that had found it good before:   *)
(* "só pode ser usado uma vez" holds for everyone who comes after.         *)
(***************************************************************************)
LinkGastoSoPorCorrida ==
    [][ \A r \in Solicitantes :
          usos' = usos + 1 /\ curso[r].pc = "usa" /\ curso'[r] = Parado =>
              \A l \in links :
                  /\ l.id = curso[r].id /\ l.gasto > 0 => curso[r].leu < l.gasto
                  /\ \A k \in links : l.id = curso[r].id /\ k.tipo = l.tipo /\ k.de >= l.id
                                          => curso[r].leu < k.id ]_varsLinks

(***************************************************************************)
(* A request never leaves its user without a link it could use, unless the *)
(* e-mail failed or it expired: the newest link of a kind dies only by     *)
(* being used, or killed by a request whose own commit is pending.         *)
(***************************************************************************)
OMaisNovoServe ==
    \A l \in links :
        l.usado /\ l.gasto = 0 => \E k \in links : k.tipo = l.tipo /\ k.id > l.id
=============================================================================
