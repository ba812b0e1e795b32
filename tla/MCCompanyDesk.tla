----------------------------- MODULE MCCompanyDesk -----------------------------
(* Two requests at a time; one kind of traffic in each behaviour. *)
EXTENDS CompanyDesk
CONSTANTS k1, k2, q1, a1, a2, a3, u1, c1

MCQuestionOf == [a \in Answers |-> q1]
MCSignerOf == [a \in Answers |-> IF a = a3 THEN k2 ELSE k1]
MCParentsOf == [a \in Answers |-> IF a = a2 THEN {a1} ELSE {}]
MCMixes == {{"question", "answer", "publication"}, {"question", "answer", "revocation"},
            {"question", "answer", "unknown"}, {"manifest"}, {"certificate"}}
=============================================================================
