# TLA+ models of the wolfCrypt Rust wrapper (hash, SHAKE, CMAC)

This directory holds TLA+ models of the Rust wrapper under
`src/wrapper/rust/wolfssl/src/wolfcrypt/`. It also holds the TLC
configurations that check the models and TLAPS proofs about all three
handles.

## The system

Each wrapper type owns one opaque native state struct. It forwards each of its
methods to one native wolfCrypt call (`wolfssl-sys`) and turns the integer
status into a `Result`.

| part | source | operations |
|---|---|---|
| fixed-digest hashes: `SHA`, `SHA224`, `SHA256`, `SHA384`, `SHA512`, `SHA3_224/256/384/512` | `sha.rs` 34-1246 | `new`, `init`, `update`, `finalize` (non-consuming, `BUFFER_E` unless `hash.len() == DIGEST_SIZE`), `Drop` |
| XOFs: `SHAKE128`, `SHAKE256` | `sha.rs` 1249-1641 | `new`, `init`, `update`, `absorb`, `squeeze_blocks` (`BUFFER_E` unless the cast length is a block multiple), `finalize`, `Drop` |
| `CMAC` | `cmac.rs` | one-shot `generate` and `verify` (negative status is `Err`, otherwise `Ok(rc == 0)`), `new`, `update`, consuming `finalize` (via `wc_CmacFinalNoFree`, then `Drop`), `Drop` (`wc_CmacFree`) |
| native primitives | `wolfssl-sys`, not in `src/` | not modelled; only their contracts are used |

The parts do not interact with each other. Each handle is owned exclusively,
and no code runs concurrently. The behaviours that make this code hard are
therefore not interleavings. They are:
- long sequences of legal calls, in any order, with every native call able to
  fail;
- the `len() as u32` casts on every length;
- the order of the length check and the native call;
- how native objects are freed;
- the SHAKE phase protocol, which the wrapper does not enforce. The spec
  makes it a precondition on the caller and lists no misuse error, so the
  models check what a caller who keeps to it gets, over every behaviour,
  misuse followed by a restart included.

## Modules

- **`HashHandle`** models the nine fixed-digest variants with one action per
  method. `HandleOf(a)` is the shape every `impl` repeats, and `SHAHandle` …
  `SHA3_512Handle` instantiate it. The model has these variables:
  - `handle`: the variant of the live handle, or `"none"`;
  - `msg`: the bytes the native state has absorbed;
  - `fed`: a ghost variable holding the bytes of the caller's successful
    `update`s;
  - `allocs`: the outstanding native Init allocations, nonzero only for the
    variants in `AllocatingAlgs`;
  - `last`: the status and output buffer of the last call.

  A digest is the injective tag `Digest(alg, msg)`. `AsU32(n) = n % 2^LenWidth`
  is the cast.
- **`CmacHandle`** models `generate`, `verify`, `New`, `Update`, `Finalize` and
  `Drop`. `nkey`/`msg` are the native object's key and data, and `key`/`fed` are
  the caller's view of them. `objs`/`frees` count the native objects
  initialised and the `wc_CmacFree` calls. The native library's key size check
  (`KeyOk`), tag size check (`TagSzOk`) and its verify status
  (`NativeVerify`: 0, 1, or an error) are modelled from its documented
  contract.
- **`ShakeHandle`** models both XOFs. The native sponge is `nmsg`, `nphase`
  (`absorbing`, `squeezing`, or `garbled` for updates after padding) and `npos`
  (blocks squeezed). Two ghost variables record the caller's side: `proto` is
  the spec's protocol state, and `taken` is the bytes squeezed so far.
- **`HashSpec`** is the abstract promise of a fixed-digest handle, in the
  spec's terms and without native state: variables `alg`, `input` (the bytes
  fed) and `last`; actions `Build`, `Restart`, `Feed`, `Emit` and `Close`.
  Every failing call changes nothing and writes nothing, and an Ok `Emit` on a
  `DIGEST_SIZE` buffer writes the digest of `input`. `HashHandle` instantiates
  it as `Abstract` with `alg <- handle, input <- fed` and states
  `ImplementsHashSpec == Abstract!AbsSpec`.
- **`MC_*`** are the modules the TLC runs use, and `*.cfg` holds their
  constants.
- **`Pow2Lemmas`**, **`HashHandleProofs`**, **`CmacHandleProofs`** and
  **`ShakeHandleProofs`** hold the TLAPS proofs.

## Runs

| run | result | what it shows |
|---|---|---|
| `hash` | pass (3357 states) | Over all nine variants, with failing native calls and SHA-256's Init allocating, the native allocations stay accounted (`TypeOK`: `allocs` never goes negative), and the native state always equals the input fed (`NativeTracksInput`). An Ok `finalize` writes exactly `DIGEST_SIZE` bytes of the digest of everything fed. A failing one writes nothing and keeps the input, so a retry still digests it (`FinalizeDigestsInput`). Seen through `fed`, every behaviour is one of `HashSpec` (`ImplementsHashSpec`). |
| `hash_u32` | violation | With 4- and 5-byte slices under a 2-bit cast, `update` drops data and returns Ok. `finalize` then reports the digest of another input. |
| `hash_leak` | violation | In a build whose SHA-256 Init allocates, `new(); init()` loses an allocation (`NoLeak`). |
| `cmac` | pass (70455 states) | Tags of 1 byte (truncated) and 2 bytes are made and verified. `generate` and `new`/`update`/`finalize` yield the MAC of their inputs (`MacOfInput`). `verify`'s verdict is exactly "check equals the tag" and errors stay errors (`VerifyDecides`). Every native object is freed exactly once (`FreedOnce`). |
| `cmac_u32` | violation | A data slice at the cast's modulus is MACed truncated and `generate` reports Ok. |
| `shake` | pass (7158 states) | A caller who keeps to the protocol (absorb once, then squeeze) gets consecutive XOF blocks. Squeezing twice equals squeezing once for the joint length (`ProtocolOutputIsXof`). |
| `shake_u32` | violation | With 3-byte blocks and a 2-bit cast, a 4-byte buffer casts to 0 and passes the multiple check (`SqueezeLengthChecked`). |

**Bounds.** The cast is scaled down to `LenWidth` bits so that the modulus
(4 or 8 bytes) is reachable. Block sizes are scaled down to 1–3 bytes.

In the passing runs the slices stay below the modulus, so they check the
wrapper's logic rather than the cast. The violation runs place a slice at the
modulus.

The byte alphabets are `{0,1}`, which lets the digest of two different inputs
differ. Buffers go one byte past the digest or tag size, so that too-short,
exact and too-long buffers are all checked. The `cmac` run allows tags of
`TagMinSz = 1` to `TagMaxSz = 2` bytes, so truncated tags are covered. In the
`hash` run SHA-256's Init allocates and `MaxAllocs = 2`, so `init()` over a live
SHA-256 state is reached and the allocation count is exercised. `MaxObjs = 2` lets a second CMAC
object be built after the first is dropped.

Every action and every branch (Ok, native error, `BUFFER_E`) fires in the
passing runs. Each property of a passing run is broken by a plausible code
mutant, listed in `PROJECT.json`:
- a dropped status check;
- `Final` before the length check;
- `init()` freeing before the native Init, which frees twice when that Init fails;
- a double free in CMAC `finalize`;
- `rc >= 0` as the verdict;
- an off-by-one block count.

**Fairness.** No fairness is assumed and no liveness is claimed. Every
operation is a synchronous call that the caller may or may not make, so the
code guarantees no progress beyond returning.

## Proofs (checked by `tlapm`)

`Pow2Lemmas` proves `Pow2Positive` (`2^w` is a positive natural, through the
cardinality of `SUBSET 1..w`). Each proof module has its own `AsU32Bound` and
`AsU32Identity` (the cast never lengthens, and it is the identity below the
modulus), and lemmas that slices, keys and checks are sequences of the right
length.

Each module's hypothesis `NoTruncation` says that every length the code casts
is below `2^LenWidth`, i.e. under 4 GiB in the code. The `*_u32` runs show
that the digest, MAC and refinement results are false without it. Every
theorem holds for every value of the constants that satisfies the module's
`ASSUME`.

**`HashHandleProofs`**
- `TypeCorrect`: `Spec => []TypeOK`. `TypeOK` alone is not inductive, because
  `Drop` subtracts `InitAlloc(handle)`. The inductive `TypeInv` adds
  `allocs >= InitAlloc(handle)`.
- `NativeTracksInputInvariant` (under `NoTruncation`): `Spec => []NativeTracksInput`,
  from `IInv == TypeInv /\ NativeTracksInput`, one step per action. `Update`
  uses `NativeUpdateExact` (the native Update is concatenation).
- `FinalizeDigestsInputHolds`: `Spec => FinalizeDigestsInput`, from `IInv`.
- `HashHandleImplementsSpec`: `Spec => ImplementsHashSpec`. `InitRefines` maps
  `Init` to `HashSpec`'s initial state. `StepRefines` maps each step under
  `IInv`: `New`, `Reinit`, `Update`, `Finalize` and `Drop` to `Build`,
  `Restart`, `Feed`, `Emit` and `Close`, and the Ok and failing branches to the
  matching abstract branches. `Finalize` needs `msg = fed`, because the code
  digests `msg` and the abstraction promises the digest of `input`.

**`CmacHandleProofs`**
- `CmacTypeCorrect` and `FreedOnceInvariant` rest on `CInv == TypeOK /\ ObjsInv`.
  `ObjsInv` says that with no handle `frees = objs`, and with a live handle
  `frees + 1 = objs`. `FreedOnce` alone is not inductive, because `Drop` adds a
  free and needs to know that the live object is the one not yet freed.
- `MacOfInputHolds` (under `NoTruncation`) adds `NativeMatches`: a live
  handle's native key and data are the caller's `key` and `fed`.
- `VerifyDecidesHolds` assumes `NoTruncation` and `MaxCheck <= TagMaxSz`. How
  the native verify treats a check longer than the MAC is not in this
  repository, so the theorem, like the `cmac` run, covers checks up to the
  tag size.

**`ShakeHandleProofs`**
- `ShakeTypeCorrect`: `Spec => []TypeOK`, including misuse sequences.
- `ProtocolOutputIsXofHolds` (under `NoTruncation`) rests on
  `XInv == TypeOK /\ SpongeFollowsProtocol`. In protocol state `Initialized`
  the sponge is absorbing `fed` and nothing has been taken. In `Absorbed` it is
  squeezing `fed` with `taken = npos * BlockSize[shake]`. This ties the
  caller's byte count to the native block position, which is what makes a
  second squeeze continue the first. `SqueezeAdvance` is the arithmetic of a
  block-multiple squeeze.

Before each proof, TLC checked every strengthened invariant as an invariant
of the module's passing run.

What stays with TLC:
- the violation properties: `NoLeak` and `SqueezeLengthChecked`. They are false of the code, and the runs exhibit
  counterexamples;
- liveness (none is claimed) and anything stated with `ENABLED`;
- anything about what a recursive definition computes (the models have none).

## Not modelled

- The native hash, Keccak and AES-CMAC computations are abstracted to
  injective tags. Collisions and the native constant-time comparison are
  outside the models.
- How the native verify compares a check longer than the MAC size is not in
  this repository. The `cmac` run bounds checks at the tag size (`MaxCheck`).
- A key length truncated by the cast is modelled by `KeyOk`, but no run uses
  keys near the modulus.
- No concurrency is modelled, because none exists: the handles are `&mut`
  and are not shared.

## Plan for later work

1. Abstract specifications for CMAC (the MAC of the key and the fed data) and
   SHAKE (the XOF stream of the absorbed input), with refinement proofs like
   `HashHandleImplementsSpec`.
2. An action property for `Drop` across all three handles: the native free
   happens once for each object that was initialised.
