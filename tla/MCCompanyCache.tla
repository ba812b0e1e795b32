---------------------------- MODULE MCCompanyCache ----------------------------
(* Two processes, each in its repository; three certificates, two versions of *)
(* a Company fact and the references and relaxations for TLC.                 *)
EXTENDS CompanyReferences
CONSTANTS p1, p2, here, there, all

MCRepoOf == [p \in Procs |-> IF p = p1 THEN here ELSE there]
MCCertifiedFor == <<here, here, there>>
MCCriticality == [i \in 1..MaxChanges |-> IF i = 2 THEN "advisory" ELSE "safety_critical"]

\* One for this repository and fact by name; one that answers a request of its
\* own and names the event of version 1; one of another repository
Relaxation(repository, fact, answers, parents, until) ==
    [repository |-> repository, fact |-> fact, answers |-> answers, parents |-> parents,
     until |-> until, class |-> "advisory"]
MCRelaxations ==
    {<<Relaxation("", "", TRUE, {1}, 1)>>,
     <<Relaxation("own", "this", FALSE, {}, 0), Relaxation("other", "this", FALSE, {}, 1)>>}

To(digest, until) ==
    [known |-> TRUE, digest |-> digest, version |-> 0, until |-> until, class |-> "safety_critical"]
MCReferences ==
    {To(digest, until) : digest \in 0..2, until \in 0..1}
      \cup {[To(1, 1) EXCEPT !.version = 2], [To(1, 1) EXCEPT !.known = FALSE]}
=============================================================================
