------------------------ MODULE MCPackageRepository -------------------------
(* PackageRepository with one product under several names, two vendors, and *)
(* versions that are equal only after padding or cannot be parsed.          *)
EXTENDS PackageRepository

CONSTANTS Editor, Viewer, VendorA, VendorB, Nightly

Version1 == <<1>>
Version1_0 == <<1, 0>>
Version1_9 == <<1, 9>>
Version2 == <<2, 1>>

\* One upload per interesting pair: with and without a publisher, names
\* with suffixes, and a second product.
SampleUploads ==
    {[name |-> <<Editor>>, publisher |-> pub, version |-> v] :
            pub \in {VendorA, VendorB}, v \in {Version1_9, Version2}}
    \cup {[name |-> <<Editor, "version", "arch">>, publisher |-> NoPublisher, version |-> v] :
            v \in {Version1, Version1_0, Nightly}}
    \cup {[name |-> <<Editor, "arch">>, publisher |-> VendorA, version |-> Nightly],
          [name |-> <<Viewer>>, publisher |-> NoPublisher, version |-> Version1]}

UnparseableVersions == {Nightly}

\* What an agent may have found on a machine.
InventoryRecords ==
    [name : {<<Editor>>, <<Editor, "arch">>, <<Viewer>>},
     publisher : {VendorA, VendorB, NoPublisher},
     version : {Version1, Version1_9, <<2>>, <<10>>, Nightly}]

\* Names are those of one product exactly when they begin with it.
ASSUME
    \A u \in SampleUploads, record \in InventoryRecords :
        software_identity_matches(record, u) <=>
            /\ record.name[1] = u.name[1]
            /\ record.publisher = u.publisher \/ NoPublisher \in {record.publisher, u.publisher}

=============================================================================
