------------------------------ MODULE MCBundle ------------------------------
(* Instances of Bundle with the sizes of the code.  The files are around   *)
(* the boundaries of a record, of the smallest part, of a part and of a    *)
(* group of records read together, and at the upload limit, which is 1 GiB *)
(* in the code and 64 MiB here.                                            *)
EXTENDS Bundle

KiB == 1024
MiB == 1024 * KiB
AtTheLimit == 64 * MiB - 16 * 40 - 256 * KiB - 40 - 64
Boundaries == {0, 1, 4 * MiB, 4 * MiB + 1, 5 * MiB - 40, 16 * MiB + 1, 28 * MiB, 33 * MiB,
               AtTheLimit, AtTheLimit + 1}
FewBoundaries == {1, 4 * MiB, 28 * MiB}
Manifests == {300, 256 * KiB, 256 * KiB + 1}

TheChunkSize == 4 * MiB
TheMaxManifestBytes == 256 * KiB
TheCoalesceBytes == 16 * MiB
TheSmallBundleBytes == MiB
TheMinPartBytes == 5 * MiB
TheUploadLimit == 64 * MiB
ThePartSize == 32 * MiB
TheMaxPart == 33 * MiB
TheMaxRange == 128 * MiB
=============================================================================
