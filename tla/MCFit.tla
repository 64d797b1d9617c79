------------------------------- MODULE MCFit -------------------------------
(***************************************************************************)
(* Two releases, the second with a cache of another version; models of     *)
(* every kind the analysis tells apart; machines that differ by their      *)
(* memory only, and one of each other kind.                                *)
(***************************************************************************)
EXTENDS Fit

GB(x) == x * 1024

Dense8B ==
    [name |-> "meta/llama-8b", slug |-> "llama-8b", words |-> {"llama", "llama-3", "instruct"},
     use_words |-> {"chat"}, named_b |-> 8000, parameters |-> 8000, min_ram |-> GB(4),
     recommended |-> GB(8), min_vram |-> GB(5), quantization |-> "Q4_K_M", context |-> 128,
     is_moe |-> FALSE, num_experts |-> None, active_experts |-> None, active |-> None,
     released |-> 10, gguf |-> {"bartowski"}, capabilities |-> {}, format |-> "Gguf",
     heads |-> 32, kv_heads |-> 8, layers |-> 32, head_dim |-> 128, layout |-> None,
     dims |-> None, architecture |-> <<"llama", "">>]

Moe30B ==
    [Dense8B EXCEPT !.name = "qwen/qwen3-30b-a3b", !.slug = "qwen3-30b-a3b",
        !.words = {"qwen", "qwen3", "-a3b"}, !.use_words = {"reason"}, !.named_b = 30000,
        !.parameters = 30500, !.min_ram = GB(12), !.recommended = GB(20), !.min_vram = GB(18),
        !.is_moe = TRUE, !.num_experts = 128, !.active_experts = 8, !.active = 3300,
        !.layers = 48, !.kv_heads = 4, !.architecture = <<"qwen", "3">>,
        !.dims = [hidden |-> 2048, vocab |-> 151936, expert |-> 768, shared |-> 0]]

Awq7B ==
    [Dense8B EXCEPT !.name = "qwen/qwen2.5-7b-awq", !.slug = "qwen2.5-7b-awq",
        !.words = {"qwen", "qwen2.5", "awq", "code"}, !.use_words = {"code"},
        !.named_b = 7000, !.parameters = 7600, !.quantization = "AWQ-4bit", !.format = "Awq",
        !.layers = None, !.architecture = None, !.context = 32]

(* Half the layers of a hybrid keep a cache. *)
Hybrid27B ==
    [Dense8B EXCEPT !.name = "qwen/qwen3.5-27b", !.slug = "qwen3.5-27b",
        !.words = {"qwen", "qwen3", "qwen3.5"}, !.named_b = 27000, !.parameters = 27000,
        !.min_ram = GB(11), !.min_vram = GB(16), !.layers = 64, !.released = 19,
        !.architecture = <<"qwen", "3_5">>]

(* Two entries of the file for one slug, and a name that claims too much. *)
Dense8BAgain == [Dense8B EXCEPT !.name = "other/llama-8b", !.min_ram = GB(5), !.heads = None]

Misnamed == [Dense8B EXCEPT !.name = "x/llama-70b", !.slug = "llama-70b", !.named_b = 70000]

Onnx1B ==
    [entry |-> [Dense8B EXCEPT !.name = "onnx/smol-1b", !.slug = "smol-1b",
                    !.words = {"smollm", "instruct"}, !.named_b = 1000, !.parameters = 1200],
     files |-> [q8 |-> GB(1), q4 |-> 700], min_ram |-> None, recommended |-> None,
     min_vram |-> None, quantization |-> None, context |-> None, use_words |-> None]

MCReleases ==
    << [hf |-> <<Dense8B, Dense8BAgain, Moe30B, Misnamed>>, onnx |-> {Onnx1B}, version |-> 1],
       [hf |-> <<Dense8B, Moe30B, Awq7B, Hybrid27B>>, onnx |-> {}, version |-> 2] >>

(* The user's 8B, and an own name for what an update finds. *)
Own == [Dense8B EXCEPT !.name = "me/llama-8b", !.context = 4, !.heads = None,
            !.layers = None, !.gguf = {}]

OwnNew == [Own EXCEPT !.name = "me/new-14b", !.slug = "new-14b", !.parameters = 14000,
              !.named_b = 14000, !.min_ram = GB(6)]

MCCustoms == {None, Invalid, <<Own, OwnNew>>}

Found(name, slug, pipeline) ==
    [name |-> name, slug |-> slug, words |-> {"qwen", "qwen3"}, tags |-> {}, pipeline |-> pipeline,
     total |-> None, tokens |-> <<<<"size", 14000>>>>, gguf_context |-> None, named_b |-> 14000,
     released |-> 22, config |-> None]

MCListings ==
    { <<>>,
      << Found("a/new-14b", "new-14b", "text-generation"),
         Found("a/new-14b", "new-14b", "text-generation"),
         Found("b/tts", "tts", "text-to-speech"),
         Found("b/llama-8b", "llama-8b", "text-generation"),
         Found("b/img", "img", "image-classification"),
         [Found("c/moe", "moe", None) EXCEPT
            !.tags = {"text-generation"}, !.tokens = <<<<"moe", 8, 7000>>>>, !.named_b = 56000,
            !.config = [top  |-> [NoConfig EXCEPT !.hidden = 4096, !.heads = 32, !.layers = 32,
                                    !.vocab = 32000, !.inter = 14336, !.model_type =
                                    <<"mixtral", "">>], text |-> None]] >> }

Machine ==
    [backend |-> "Cuda", has_gpu |-> TRUE, unified |-> FALSE, vram |-> 5632,
     total_vram |-> 5632, ram |-> GB(16), cores |-> 8, cluster |-> FALSE,
     gpu |-> {"rtx", "4060", "4060 ti"}, ddr_env |-> None, ddr_measured |-> 60, cpu |-> "CpuX86"]

MCSystems ==
    { Machine,
      [Machine EXCEPT !.vram = GB(16), !.total_vram = GB(16)],
      [Machine EXCEPT !.vram = GB(4), !.total_vram = GB(4), !.ram = GB(14)],
      [Machine EXCEPT !.backend = "Metal", !.unified = TRUE, !.vram = GB(24),
            !.total_vram = GB(24), !.ram = GB(24), !.gpu = {"m4 pro", "m4"}, !.cpu = "CpuArm"],
      [Machine EXCEPT !.backend = "CpuX86", !.has_gpu = FALSE, !.vram = None,
            !.total_vram = None, !.gpu = {}, !.ram = GB(6)],
      [Machine EXCEPT !.gpu = {"1080"}, !.vram = GB(24), !.total_vram = GB(48),
            !.cluster = TRUE] }

MCRequests ==
    { [limit |-> None, forced |-> None, config |-> None],
      [limit |-> 32, forced |-> None, config |-> [CalcConfig EXCEPT !.cap = 4, !.tflops = 20]],
      [limit |-> None, forced |-> "Vllm", config |-> None] }

MCCommunity ==
    [slug \in {"llama-8b", "qwen3-30b-a3b", "qwen2.5-7b-awq", "qwen3.5-27b", "llama-70b",
               "smol-1b", "new-14b", "tts", "moe"} |->
        CASE slug = "qwen3.5-27b" -> [source |-> "CommunityLlmfit", tps |-> 90]
          [] slug = "smol-1b" -> [source |-> "Community", tps |-> 800]
          [] OTHER -> None]

MCTaskBench == [Coding |-> << <<{"qwen2.5"}, 84>> >>]
=============================================================================
