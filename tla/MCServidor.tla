----------------------------- MODULE MCServidor -----------------------------
\* The database of an installation, its connections, the access to it and the files it
\* keeps, each on its own: a behaviour is one of Migracao, of Conexoes, of Acessos or,
\* with no other part of it moving, of the registration or of the retention of Midias.
EXTENDS Migracao, Acessos, Conexoes, Midias

VARIABLE parte

vars == <<parte, varsMigracao, varsAcessos, varsConexoes, varsMidias>>

Init == /\ parte \in {"migracao", "acessos", "conexoes", "cadastro", "retencao"}
        /\ InitMigracao /\ InitAcessos /\ InitConexoes /\ InitMidias
        /\ parte # "migracao" => nivel = 0
        /\ parte # "acessos" => \A u, v \in Contas : grupoDe[u] = grupoDe[v]
        /\ parte # "retencao" => teimosas = {}

\* The registration and the retention meet in the files: one part has every form and one
\* message, the other no form and all the messages.
NextArquivos == IF parte = "retencao" THEN NextRetencao ELSE NextMidias /\ Len(mensagens') <= 1

Next ==
    /\ UNCHANGED parte
    /\ \/ parte = "migracao" /\ NextMigracao /\ UNCHANGED <<varsAcessos, varsConexoes, varsMidias>>
       \/ parte = "acessos" /\ NextAcessos /\ UNCHANGED <<varsMigracao, varsConexoes, varsMidias>>
       \/ parte = "conexoes" /\ NextConexoes /\ UNCHANGED <<varsMigracao, varsAcessos, varsMidias>>
       \/ parte \in {"cadastro", "retencao"} /\ NextArquivos /\ UNCHANGED <<varsMigracao, varsAcessos, varsConexoes>>

\* The fairness of Conexoes and of Midias, asked of the behaviours of those parts.
Spec == /\ Init /\ [][Next]_vars
        /\ \A c \in Chamadas :
              WF_vars(parte = "conexoes" /\ Anda(c) /\ UNCHANGED <<parte, varsMigracao, varsAcessos, varsMidias>>)
        /\ WF_vars(parte \in {"cadastro", "retencao"} /\ AndaRodada
                      /\ UNCHANGED <<parte, varsMigracao, varsAcessos, varsConexoes>>)
=============================================================================
