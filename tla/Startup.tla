------------------------------ MODULE Startup ------------------------------
(***************************************************************************)
(* From the loading of the library to the first frame, and every frame     *)
(* after it (Main.cpp, Menu/ImGui.cpp).                                    *)
(*                                                                         *)
(* Loading starts hack_thread, which sleeps 100 ms and then hooks          *)
(* eglSwapBuffers, unless JNI_OnLoad has found the host's Java class: then *)
(* the host's GL thread draws through the JNI entry points.  Either thread *)
(* sets the menu up in its first frame, which waits for libil2cpp.so, and  *)
(* draws it from then on.                                                  *)
(*                                                                         *)
(* Nothing makes the 100 ms long enough.  If a Java host's JNI_OnLoad is   *)
(* later (WokeEarly), both threads set the menu up and both draw it.  What *)
(* they then do to each other inside ImGui and inside a button's handler   *)
(* is not modelled: their steps are taken one after the other.             *)
(***************************************************************************)
EXTENDS Naturals

\* The threads that draw: the game's, through the hook, and the host's.
Drawers == {"game", "host"}

VARIABLES
  javaHost,                  \* the host has the class NativeMethods
  useJava, onLoad,           \* set by JNI_OnLoad; whether it has run
  hackThread,                \* where hack_thread is
  hooked,                    \* eglSwapBuffers leads to swapbuffers_hook
  menuAddress, needClear,    \* menuAddress and onInitAddr are set
  libEGL, libil2cpp,         \* what the process has loaded
  surface,                   \* the host's renderer has a surface
  contexts, inits,           \* of each: contexts created, runs of on_init that ended
  isInitialized,
  at                         \* where each drawing thread is

libs   == <<libEGL, libil2cpp>>
menu   == <<menuAddress, needClear>>
loader == <<javaHost, useJava, onLoad, hackThread, hooked>>
set    == <<contexts, inits, isInitialized>>
startupVars == <<libs, menu, loader, set, surface, at>>

Init ==
  /\ javaHost \in BOOLEAN
  /\ useJava = FALSE /\ onLoad = FALSE
  /\ hackThread = "sleep" /\ hooked = FALSE
  /\ menuAddress = FALSE /\ needClear = TRUE
  /\ libEGL \in BOOLEAN /\ libil2cpp \in BOOLEAN
  /\ surface = FALSE
  /\ contexts = [d \in Drawers |-> 0] /\ inits = [d \in Drawers |-> 0]
  /\ isInitialized = FALSE
  /\ at = [d \in Drawers |-> "out"]

-----------------------------------------------------------------------------
\* The loader, and hack_thread.

LoadEGL    == ~libEGL /\ libEGL' = TRUE
              /\ UNCHANGED <<libil2cpp, menu, loader, set, surface, at>>
LoadIl2cpp == ~libil2cpp /\ libil2cpp' = TRUE
              /\ UNCHANGED <<libEGL, menu, loader, set, surface, at>>

\* JNI_OnLoad: a library injected without System.loadLibrary never gets it.
OnLoad ==
  /\ ~onLoad
  /\ onLoad' = TRUE
  /\ useJava' = javaHost
  /\ UNCHANGED <<libs, menu, javaHost, hackThread, hooked, set, surface, at>>

\* The 100 ms are over, whether or not JNI_OnLoad has run.
HackWakes ==
  /\ hackThread = "sleep"
  /\ hackThread' = IF useJava THEN "done" ELSE "store"
  /\ UNCHANGED <<libs, menu, javaHost, useJava, onLoad, hooked, set, surface, at>>

\* Faulty variant of HackStores: the game's picture is cleared.
HackStoresMenu ==
  /\ hackThread = "store"
  /\ menuAddress' = TRUE
  /\ hackThread' = "hook"
  /\ UNCHANGED <<libs, needClear, javaHost, useJava, onLoad, hooked, set, surface, at>>

\* initModMenu before its wait for libEGL.so.
HackStores ==
  /\ hackThread = "store"
  /\ menuAddress' = TRUE
  /\ needClear' = FALSE
  /\ hackThread' = "hook"
  /\ UNCHANGED <<libs, javaHost, useJava, onLoad, hooked, set, surface, at>>

HackHooks ==
  /\ hackThread = "hook" /\ libEGL
  /\ hooked' = TRUE
  /\ hackThread' = "done"
  /\ UNCHANGED <<libs, menu, javaHost, useJava, onLoad, set, surface, at>>

-----------------------------------------------------------------------------
\* What makes a drawing thread enter the tool.

\* eglSwapBuffers, called by the thread that presents the game's frames.
SwapBuffers ==
  /\ hooked /\ at["game"] = "out"
  /\ at' = [at EXCEPT !["game"] = "setup"]
  /\ UNCHANGED <<libs, menu, loader, set, surface>>

\* onSurfaceCreate: initModMenu with isJni = useJava, which is TRUE where the
\* class exists, as the host calls it after System.loadLibrary has returned.
SurfaceCreate ==
  /\ javaHost /\ onLoad /\ at["host"] = "out"
  /\ menuAddress' = TRUE
  /\ surface' = TRUE
  /\ UNCHANGED <<libs, needClear, loader, set, at>>

\* onSurfaceChanged follows onSurfaceCreate, and comes back with a new size.
SurfaceChanged ==
  /\ surface /\ at["host"] = "out"
  /\ at' = [at EXCEPT !["host"] = "setup"]
  /\ UNCHANGED <<libs, menu, loader, set, surface>>

DrawFrame ==
  /\ surface /\ at["host"] = "out"
  /\ at' = [at EXCEPT !["host"] = "menu"]
  /\ UNCHANGED <<libs, menu, loader, set, surface>>

-----------------------------------------------------------------------------
\* setupMenu.

\* Faulty variant of AfterSetup: the hook returns after setupMenu.
AfterSetupOut(d) == "out"

\* Where a thread goes after setupMenu.
AfterSetup(d) == IF d = "game" THEN "menu" ELSE "out"

\* Faulty variant of CreateContext: the early return is gone.
SetupAnyway(d) ==
  /\ at[d] = "setup"
  /\ contexts[d] < 2
  /\ contexts' = [contexts EXCEPT ![d] = @ + 1]
  /\ at' = [at EXCEPT ![d] = "wait"]
  /\ UNCHANGED <<libs, menu, loader, inits, isInitialized, surface>>

\* ImGui::CreateContext never answers null, so its early return is not here.
SetupAgain(d) ==
  /\ at[d] = "setup" /\ isInitialized
  /\ at' = [at EXCEPT ![d] = AfterSetup(d)]
  /\ UNCHANGED <<libs, menu, loader, set, surface>>

CreateContext(d) ==
  /\ at[d] = "setup" /\ ~isInitialized
  /\ contexts' = [contexts EXCEPT ![d] = @ + 1]
  /\ at' = [at EXCEPT ![d] = IF menuAddress THEN "wait" ELSE "flag"]
  /\ UNCHANGED <<libs, menu, loader, inits, isInitialized, surface>>

\* on_init after its wait for libil2cpp.so: Il2cpp::Init, the keyboard, the
\* settings, the input hooks, Tool::Init, and the sorted g_Methods.
OnInit(d) ==
  /\ at[d] = "wait" /\ libil2cpp
  /\ inits' = [inits EXCEPT ![d] = @ + 1]
  /\ at' = [at EXCEPT ![d] = "flag"]
  /\ UNCHANGED <<libs, menu, loader, contexts, isInitialized, surface>>

SetInitialized(d) ==
  /\ at[d] = "flag"
  /\ isInitialized' = TRUE
  /\ at' = [at EXCEPT ![d] = AfterSetup(d)]
  /\ UNCHANGED <<libs, menu, loader, contexts, inits, surface>>

-----------------------------------------------------------------------------
\* internalDrawMenu: nothing before the set-up; NewFrame and menuAddress();
\* Render, which clears the surface first if needClear.

NothingToDraw(d) ==
  /\ at[d] = "menu" /\ ~isInitialized
  /\ at' = [at EXCEPT ![d] = "out"]
  /\ UNCHANGED <<libs, menu, loader, set, surface>>

BeginMenu(d) ==
  /\ at[d] = "menu" /\ isInitialized
  /\ at' = [at EXCEPT ![d] = "draw"]
  /\ UNCHANGED <<libs, menu, loader, set, surface>>

\* A touch presses at most one button in a frame; what it does is App's.
Press(d) ==
  /\ at[d] = "draw"
  /\ at' = [at EXCEPT ![d] = "pressed"]
  /\ UNCHANGED <<libs, menu, loader, set, surface>>

EndMenu(d) ==
  /\ at[d] \in {"draw", "pressed"}
  /\ at' = [at EXCEPT ![d] = "render"]
  /\ UNCHANGED <<libs, menu, loader, set, surface>>

RenderMenu(d) ==
  /\ at[d] = "render"
  /\ at' = [at EXCEPT ![d] = "out"]
  /\ UNCHANGED <<libs, menu, loader, set, surface>>

Setup(d) == SetupAgain(d) \/ CreateContext(d) \/ OnInit(d) \/ SetInitialized(d)
Frame(d) == NothingToDraw(d) \/ BeginMenu(d) \/ RenderMenu(d)
Hack     == HackWakes \/ HackStores \/ HackHooks
Host     == SurfaceCreate \/ SurfaceChanged \/ DrawFrame

\* Every step but those of draw_thread, Press and EndMenu.
Step ==
  \/ LoadEGL \/ LoadIl2cpp \/ OnLoad \/ Hack \/ SwapBuffers \/ Host
  \/ \E d \in Drawers : Setup(d) \/ Frame(d)

\* The libraries load, hack_thread and a thread inside the tool keep running,
\* the game presents frames, and a Java host creates its surface, sizes it and
\* draws: what Android does for every visible renderer.
StartupFairness ==
  /\ WF_startupVars(LoadEGL) /\ WF_startupVars(LoadIl2cpp) /\ WF_startupVars(Hack)
  /\ WF_startupVars(SwapBuffers)
  /\ WF_startupVars(javaHost /\ OnLoad) /\ WF_startupVars(~surface /\ SurfaceCreate)
  /\ SF_startupVars(SurfaceChanged) /\ SF_startupVars(DrawFrame)
  /\ \A d \in Drawers : WF_startupVars(Setup(d)) /\ WF_startupVars(Frame(d) \/ EndMenu(d))

-----------------------------------------------------------------------------
StartupTypeOK ==
  /\ {javaHost, useJava, onLoad, hooked, menuAddress, needClear, libEGL, libil2cpp,
      surface, isInitialized} \subseteq BOOLEAN
  /\ hackThread \in {"sleep", "store", "hook", "done"}
  /\ contexts \in [Drawers -> 0..2] /\ inits \in [Drawers -> 0..2]
  /\ at \in [Drawers -> {"out", "setup", "wait", "flag", "menu", "draw", "pressed", "render"}]

\* hack_thread did not wait for the JNI_OnLoad of a Java host.
WokeEarly == javaHost /\ (hackThread \in {"store", "hook"} \/ hooked)

\* A thread sets the menu up once, however often its surface changes, and a second
\* thread does only if hack_thread woke early; a frame is drawn only when on_init
\* has ended in one of them (setupMenu; Tool::Draw uses what on_init has filled).
InitOnce ==
  /\ \A d \in Drawers : inits[d] <= contexts[d] /\ contexts[d] <= 1
  /\ contexts["game"] + contexts["host"] > 1 => WokeEarly
  /\ \A d \in Drawers : at[d] \in {"draw", "pressed", "render"} => \E e \in Drawers : inits[e] = 1

\* The game draws on the picture it has made, which the tool never clears; a Java
\* host gets a transparent surface of its own, which it clears, unless hack_thread
\* woke early (Menu/ImGui.cpp, needClear).
ClearsItsOwn ==
  /\ at["game"] = "render" => ~needClear
  /\ at["host"] = "render" => needClear \/ WokeEarly

\* The menu comes up, and one of the two threads draws it over and over.
MenuAppears == \E d \in Drawers : []<>(at[d] = "render")

=============================================================================
